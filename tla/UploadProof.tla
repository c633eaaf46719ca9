---------------------------- MODULE UploadProof ----------------------------
(***************************************************************************)
(* Theorems about UploadPipeline, for any processes, sessions, artifacts,  *)
(* contents and bounds: the inductive invariant PipelineInv, and from it   *)
(* that claims are one-shot, that reported jobs are decided, that sessions *)
(* settle, and that the uploads which were alone on their session stay in  *)
(* staging and are published as they were declared.                        *)
(***************************************************************************)
EXTENDS UploadPipeline, TLAPS

-----------------------------------------------------------------------------
(* The inductive invariant, in named parts.                                 *)

Uploading == {"put", "judge", "dropBad"}
Publishing == {"copy", "intend", "finalize"}
WithSession == Uploading \cup Claiming \cup {"claim"}
WithArtifact == Publishing \cup {"attach", "enqueue", "scan", "complete"}

\* Every operation has in hand what its steps use.
Hands ==
    \A p \in Procs :
        /\ pc[p] \in WithSession => my[p].ses \in Sessions
        /\ pc[p] \in {"claim", "inspect", "create"} => my[p].id \in Ids
        /\ pc[p] \in WithArtifact => my[p].art \in Arts
        /\ pc[p] = "scan" => ~my[p].ok

\* A session has a digest from its first row on, and names an artifact only after it
\* was claimed; the artifact has that digest, and no other session names it.
SessionFacts ==
    \A s \in Sessions :
        /\ session[s] # "absent" => declared[s] \in Contents
        /\ attached[s] # None =>
              /\ session[s] = "release-claimed"
              /\ row[attached[s]].status # "absent"
              /\ row[attached[s]].sha = declared[s]
              /\ \A t \in Sessions : attached[t] = attached[s] => t = s

\* An upload that is alone on its session finds the session as it left it, and what it
\* streamed is what is staged.
UploadsAlone ==
    \A p \in Procs :
        pc[p] \in Uploading /\ my[p].ses \notin Overlap =>
            /\ session[my[p].ses] = IF pc[p] = "dropBad" THEN "failed" ELSE "open"
            /\ pc[p] = "judge" => staged[my[p].ses] = my[p].body
            /\ \A q \in Procs : pc[q] \in Uploading /\ my[q].ses = my[p].ses => q = p

\* A release under way holds its session's claim alone, and attaches it once.
ClaimsHeld ==
    \A p \in Procs :
        pc[p] \in Claiming =>
            /\ session[my[p].ses] = "release-claimed"
            /\ pc[p] # "enqueue" => attached[my[p].ses] = None
            /\ \A q \in Procs : pc[q] \in Claiming /\ my[q].ses = my[p].ses => q = p

\* The artifact a release has created is untouched until its scan is queued.
Fresh ==
    \A p \in Procs :
        pc[p] \in {"attach", "enqueue"} =>
            /\ row[my[p].art].status = "staged" /\ job[my[p].art] = "none"
            /\ pc[p] = "attach" => /\ row[my[p].art].sha = declared[my[p].ses]
                                   /\ \A s \in Sessions : attached[s] # my[p].art
            /\ \A q \in Procs :
                  pc[q] \in {"attach", "enqueue"} /\ my[q].art = my[p].art => q = p

\* A job has a row and an attempt left when it is queued; once done it has decided.
QueueFacts ==
    \A a \in Arts :
        /\ job[a] = "none" => attempts[a] = 0
        /\ job[a] = "queued" => attempts[a] < MaxAttempts
        /\ job[a] # "none" => row[a].status # "absent"
        /\ job[a] = "done" => row[a].status # "staged"

\* A worker that is about to report success has decided the artifact.
WorkersDecide ==
    \A p \in Procs :
        pc[p] \in {"scan", "complete"} =>
            /\ job[my[p].art] # "none"
            /\ pc[p] = "complete" /\ my[p].ok => row[my[p].art].status \notin {"absent", "staged"}

\* One approval at a time works on objects; its row moves with it, and before the intent
\* the object of a session that was alone is in place.
Lease ==
    \A p \in Procs :
        pc[p] \in Publishing =>
            /\ row[my[p].art].status =
                  IF pc[p] = "finalize" THEN "publish-pending" ELSE "scanned"
            /\ pc[p] = "intend" =>
                  \A s \in Sessions \ Overlap :
                      attached[s] = my[p].art => blob[declared[s]] = declared[s]
            /\ \A q \in Procs : pc[q] \in Publishing => q = p

\* What a session accepted is staged until its artifact is published.
StagedAsDeclared ==
    \A s \in Sessions \ Overlap :
        /\ session[s] \in {"completed", "release-claimed"}
        /\ attached[s] # None => row[attached[s]].status # "published"
        => staged[s] = declared[s]

PipelineInv ==
    /\ TypeOK /\ Hands /\ SessionFacts /\ UploadsAlone /\ ClaimsHeld /\ Fresh
    /\ QueueFacts /\ WorkersDecide /\ Lease /\ StagedAsDeclared /\ PublishedAsDeclared

-----------------------------------------------------------------------------
(* Moves of one process.                                                    *)

\* What a step of process p leaves alone in the other processes.
OthersStand(p) == \A q \in Procs : q # p => pc'[q] = pc[q] /\ my'[q] = my[q]

\* The locals an operation starts with are well typed.
LEMMA LocalsTyped ==
  ASSUME NEW s \in Sessions \cup {None}, NEW a \in Arts \cup {None}, NEW i \in Ids \cup {None}
  PROVE  /\ Locals(s, a, i) \in LocalVars
         /\ Locals(s, a, i).ses = s /\ Locals(s, a, i).art = a
         /\ Locals(s, a, i).id = i /\ ~Locals(s, a, i).ok
  BY DEF Locals, LocalVars

\* So is what a step writes into its locals.
LEMMA Written ==
  ASSUME NEW l \in LocalVars
  PROVE  /\ \A c \in Contents : [l EXCEPT !.body = c] \in LocalVars
         /\ \A a \in Arts : [l EXCEPT !.art = a] \in LocalVars
         /\ \A b \in BOOLEAN : [l EXCEPT !.ok = b] \in LocalVars
         /\ l.ses \in Sessions \cup {None} /\ l.art \in Arts \cup {None}
  BY DEF LocalVars

\* A step moves its own process and nobody else.
LEMMA Moved ==
  ASSUME TypeOK, NEW p \in Procs, NEW there \in PCs, NEW l \in LocalVars,
         Goto(p, there), Keep(p, l)
  PROVE  /\ pc' \in [Procs -> PCs] /\ my' \in [Procs -> LocalVars]
         /\ pc'[p] = there /\ my'[p] = l
         /\ OthersStand(p)
  BY DEF Goto, Keep, TypeOK, OthersStand

\* The same when it keeps its locals.
LEMMA WentOn ==
  ASSUME TypeOK, NEW p \in Procs, NEW there \in PCs, Goto(p, there), UNCHANGED my
  PROVE  /\ pc' \in [Procs -> PCs] /\ my' \in [Procs -> LocalVars]
         /\ pc'[p] = there /\ my'[p] = my[p]
         /\ OthersStand(p)
  BY DEF Goto, TypeOK, OthersStand

\* A process that leaves its operation is idle.
LEMMA Left ==
  ASSUME TypeOK, NEW p \in Procs, Leave(p)
  PROVE  /\ pc' \in [Procs -> PCs] /\ my' \in [Procs -> LocalVars]
         /\ pc'[p] = "idle"
         /\ OthersStand(p)
  BY LocalsTyped, Moved DEF Leave, PCs

\* Uploads stand when the step is none of theirs and leaves sessions and staging alone.
LEMMA UploadsRest ==
  ASSUME PipelineInv, NEW p \in Procs, OthersStand(p), pc'[p] \notin Uploading,
         UNCHANGED <<session, staged>>
  PROVE  UploadsAlone'
  BY DEF PipelineInv, UploadsAlone, OthersStand

\* Releases stand when the step is none of theirs and leaves sessions alone.
LEMMA ClaimsRest ==
  ASSUME PipelineInv, NEW p \in Procs, OthersStand(p), pc'[p] \notin Claiming,
         UNCHANGED <<session, attached>>
  PROVE  ClaimsHeld'
  BY DEF PipelineInv, ClaimsHeld, OthersStand

\* The artifact of a release stands when rows that wait for their job are left alone.
LEMMA FreshRests ==
  ASSUME PipelineInv, NEW p \in Procs, OthersStand(p), pc'[p] \notin {"attach", "enqueue"},
         UNCHANGED <<declared, attached>>,
         \A a \in Arts : job[a] = "none" /\ row[a].status = "staged" =>
             job'[a] = "none" /\ row'[a] = row[a]
  PROVE  Fresh'
  BY DEF PipelineInv, Hands, Fresh, OthersStand, WithArtifact

\* An approval stands when the row it holds is left alone.
LEMMA LeaseRests ==
  ASSUME PipelineInv, NEW p \in Procs, OthersStand(p), pc'[p] \notin Publishing,
         UNCHANGED <<declared, attached, blob>>,
         \A a \in Arts : row[a].status \in {"scanned", "publish-pending"} => row'[a] = row[a]
  PROVE  Lease'
  BY DEF PipelineInv, Hands, Lease, OthersStand, WithArtifact

\* Workers stand when jobs do not vanish and decided rows stay decided.
LEMMA WorkersRest ==
  ASSUME PipelineInv, NEW p \in Procs, OthersStand(p), pc'[p] \notin {"scan", "complete"},
         \A a \in Arts : job[a] # "none" => job'[a] # "none",
         \A a \in Arts : row[a].status \notin {"absent", "staged"} =>
             row'[a].status \notin {"absent", "staged"}
  PROVE  WorkersDecide'
  BY DEF PipelineInv, Hands, WorkersDecide, OthersStand, WithArtifact

\* A process that only leaves its operation keeps the invariant.
LEMMA Resting ==
  ASSUME PipelineInv, NEW p \in Procs, OthersStand(p), pc'[p] = "idle",
         pc' \in [Procs -> PCs], my' \in [Procs -> LocalVars],
         UNCHANGED <<session, declared, attached, staged, row, job, attempts, blob,
                     ops, crashes, faults>>
  PROVE  PipelineInv'
  <1>1. TypeOK'
    BY DEF PipelineInv, TypeOK
  <1>2. Hands'
    BY DEF PipelineInv, Hands, OthersStand, WithSession, WithArtifact, Uploading, Claiming,
           Publishing
  <1>3. UploadsAlone' /\ ClaimsHeld' /\ Fresh' /\ Lease' /\ WorkersDecide'
    BY UploadsRest, ClaimsRest, FreshRests, LeaseRests, WorkersRest
    DEF Uploading, Claiming, Publishing
  <1>4. SessionFacts' /\ QueueFacts' /\ StagedAsDeclared' /\ PublishedAsDeclared'
    BY DEF PipelineInv, SessionFacts, QueueFacts, StagedAsDeclared, PublishedAsDeclared
  <1>5. QED
    BY <1>1, <1>2, <1>3, <1>4 DEF PipelineInv

-----------------------------------------------------------------------------
(* Every step keeps the invariant.                                          *)

\* A body replaces the staging object: a session that was accepted has no upload left.
LEMMA PutContentKeeps ==
  ASSUME PipelineInv, NEW p \in Procs, NEW c \in Contents, PutContent(p, c)
  PROVE  PipelineInv'
  <1>0. /\ [my[p] EXCEPT !.body = c] \in LocalVars
        /\ [my[p] EXCEPT !.body = c].ses = my[p].ses /\ [my[p] EXCEPT !.body = c].body = c
    BY Written DEF PipelineInv, TypeOK
  <1>1. /\ pc' \in [Procs -> PCs] /\ my' \in [Procs -> LocalVars]
        /\ OthersStand(p)
        /\ pc[p] = "put" /\ pc'[p] = "judge"
        /\ my'[p].ses = my[p].ses /\ my'[p].body = c
    BY <1>0, Moved, ZenonT(60) DEF PipelineInv, PutContent, Step, PCs
  <1>2. TypeOK'
    BY <1>1 DEF PipelineInv, TypeOK, PutContent, uploads, queue, bounds
  <1>3. Hands'
    BY <1>1
    DEF PipelineInv, Hands, PutContent, uploads, queue, OthersStand, Uploading, Publishing,
        WithSession, WithArtifact
  <1>4. SessionFacts'
    BY <1>1 DEF PipelineInv, SessionFacts, PutContent, uploads, queue
  <1>5. UploadsAlone'
    BY <1>1
    DEF PipelineInv, UploadsAlone, TypeOK, Hands, PutContent, uploads, queue, OthersStand,
        Uploading, WithSession
  <1>6. ClaimsHeld'
    BY <1>1, ClaimsRest DEF PipelineInv, PutContent, uploads, queue, Claiming
  <1>7. Fresh'
    BY <1>1, FreshRests DEF PipelineInv, PutContent, uploads, queue
  <1>8. QueueFacts'
    BY <1>1 DEF PipelineInv, QueueFacts, PutContent, uploads, queue
  <1>9. WorkersDecide'
    BY <1>1, WorkersRest DEF PipelineInv, PutContent, uploads, queue
  <1>10. Lease'
    BY <1>1, LeaseRests DEF PipelineInv, PutContent, uploads, queue, Publishing
  <1>11. StagedAsDeclared'
    BY <1>1
    DEF PipelineInv, StagedAsDeclared, UploadsAlone, PutContent, uploads, queue, Uploading
  <1>12. PublishedAsDeclared'
    BY <1>1 DEF PipelineInv, PublishedAsDeclared, PutContent, uploads, queue
  <1>13. QED
    BY <1>2, <1>3, <1>4, <1>5, <1>6, <1>7, <1>8, <1>9, <1>10, <1>11, <1>12 DEF PipelineInv

\* A refused body fails the session if the database still lets it.
LEMMA PutRefusedKeeps ==
  ASSUME PipelineInv, NEW p \in Procs, PutRefused(p)
  PROVE  PipelineInv'
  <1>1. /\ pc' \in [Procs -> PCs] /\ my' \in [Procs -> LocalVars]
        /\ OthersStand(p)
        /\ pc'[p] = "idle"
    BY Left DEF PipelineInv, PutRefused
  <1>2. TypeOK'
    BY <1>1
    DEF PipelineInv, TypeOK, SessionStatuses, RowStatuses, JobStatuses, MaxAttempts,
        PutRefused, uploads, queue, bounds
  <1>3. Hands'
    BY <1>1
    DEF PipelineInv, Hands, PutRefused, uploads, queue, OthersStand, Uploading, Claiming,
        Publishing, WithSession, WithArtifact
  <1>4. SessionFacts'
    BY <1>1
    DEF PipelineInv, SessionFacts, TypeOK, PutRefused, uploads, queue, bounds,
        CanUpdateSession
  <1>5. UploadsAlone'
    BY <1>1
    DEF PipelineInv, UploadsAlone, TypeOK, Hands, PutRefused, uploads, queue, OthersStand,
        Uploading, WithSession
  <1>6. ClaimsHeld'
    BY <1>1
    DEF PipelineInv, ClaimsHeld, TypeOK, Hands, PutRefused, uploads, queue, bounds,
        CanUpdateSession, OthersStand, Claiming, WithSession
  <1>7. Fresh'
    BY <1>1, FreshRests DEF PipelineInv, PutRefused, uploads, queue
  <1>8. QueueFacts'
    BY <1>1 DEF PipelineInv, QueueFacts, PutRefused, uploads, queue
  <1>9. WorkersDecide'
    BY <1>1, WorkersRest DEF PipelineInv, PutRefused, uploads, queue
  <1>10. Lease'
    BY <1>1, LeaseRests DEF PipelineInv, PutRefused, uploads, queue, Publishing
  <1>11. StagedAsDeclared'
    BY <1>1 DEF PipelineInv, StagedAsDeclared, TypeOK, PutRefused, uploads, queue
  <1>12. PublishedAsDeclared'
    BY <1>1 DEF PipelineInv, PublishedAsDeclared, PutRefused, uploads, queue
  <1>13. QED
    BY <1>2, <1>3, <1>4, <1>5, <1>6, <1>7, <1>8, <1>9, <1>10, <1>11, <1>12 DEF PipelineInv

\* The digest matches: of an upload that was alone, what is staged is what was hashed.
LEMMA AcceptContentKeeps ==
  ASSUME PipelineInv, NEW p \in Procs, AcceptContent(p)
  PROVE  PipelineInv'
  <1>1. /\ pc' \in [Procs -> PCs] /\ my' \in [Procs -> LocalVars]
        /\ OthersStand(p)
        /\ pc'[p] = "idle"
    BY Left DEF PipelineInv, AcceptContent
  <1>2. TypeOK'
    BY <1>1
    DEF PipelineInv, TypeOK, SessionStatuses, RowStatuses, JobStatuses, MaxAttempts,
        AcceptContent, uploads, queue, bounds
  <1>3. Hands'
    BY <1>1
    DEF PipelineInv, Hands, AcceptContent, uploads, queue, OthersStand, Uploading, Claiming,
        Publishing, WithSession, WithArtifact
  <1>4. SessionFacts'
    BY <1>1
    DEF PipelineInv, SessionFacts, TypeOK, AcceptContent, uploads, queue, bounds,
        CanUpdateSession
  <1>5. UploadsAlone'
    BY <1>1
    DEF PipelineInv, UploadsAlone, TypeOK, Hands, AcceptContent, uploads, queue, bounds,
        OthersStand, Uploading, WithSession, WithArtifact
  <1>6. ClaimsHeld'
    BY <1>1
    DEF PipelineInv, ClaimsHeld, TypeOK, Hands, AcceptContent, uploads, queue, bounds,
        CanUpdateSession, OthersStand, Claiming, WithSession
  <1>7. Fresh'
    BY <1>1, FreshRests DEF PipelineInv, AcceptContent, uploads, queue
  <1>8. QueueFacts'
    BY <1>1 DEF PipelineInv, QueueFacts, AcceptContent, uploads, queue
  <1>9. WorkersDecide'
    BY <1>1, WorkersRest DEF PipelineInv, AcceptContent, uploads, queue
  <1>10. Lease'
    BY <1>1, LeaseRests DEF PipelineInv, AcceptContent, uploads, queue, Publishing
  <1>11. StagedAsDeclared'
    BY <1>1
    DEF PipelineInv, StagedAsDeclared, TypeOK, UploadsAlone, AcceptContent, uploads, queue,
        Uploading
  <1>12. PublishedAsDeclared'
    BY <1>1 DEF PipelineInv, PublishedAsDeclared, AcceptContent, uploads, queue
  <1>13. QED
    BY <1>2, <1>3, <1>4, <1>5, <1>6, <1>7, <1>8, <1>9, <1>10, <1>11, <1>12 DEF PipelineInv

\* The digest does not match: the session fails before the object is dropped.
LEMMA RefuseContentKeeps ==
  ASSUME PipelineInv, NEW p \in Procs, RefuseContent(p)
  PROVE  PipelineInv'
  <1>1. /\ pc' \in [Procs -> PCs] /\ my' \in [Procs -> LocalVars]
        /\ OthersStand(p)
        /\ pc'[p] = "dropBad" /\ my'[p] = my[p]
    BY WentOn DEF PipelineInv, RefuseContent, GoOn, PCs
  <1>2. TypeOK'
    BY <1>1
    DEF PipelineInv, TypeOK, SessionStatuses, RowStatuses, JobStatuses, MaxAttempts,
        RefuseContent, uploads, queue, bounds
  <1>3. Hands'
    BY <1>1
    DEF PipelineInv, Hands, RefuseContent, uploads, queue, OthersStand, Uploading,
        Publishing, WithSession, WithArtifact
  <1>4. SessionFacts'
    BY <1>1
    DEF PipelineInv, SessionFacts, TypeOK, RefuseContent, uploads, queue, bounds,
        CanUpdateSession
  <1>5. UploadsAlone'
    BY <1>1
    DEF PipelineInv, UploadsAlone, TypeOK, Hands, RefuseContent, uploads, queue, bounds,
        CanUpdateSession, OthersStand, Uploading, WithSession
  <1>6. ClaimsHeld'
    BY <1>1
    DEF PipelineInv, ClaimsHeld, TypeOK, Hands, RefuseContent, uploads, queue, bounds,
        CanUpdateSession, OthersStand, Claiming, WithSession
  <1>7. Fresh'
    BY <1>1, FreshRests DEF PipelineInv, RefuseContent, uploads, queue
  <1>8. QueueFacts'
    BY <1>1 DEF PipelineInv, QueueFacts, RefuseContent, uploads, queue
  <1>9. WorkersDecide'
    BY <1>1, WorkersRest DEF PipelineInv, RefuseContent, uploads, queue
  <1>10. Lease'
    BY <1>1, LeaseRests DEF PipelineInv, RefuseContent, uploads, queue, Publishing
  <1>11. StagedAsDeclared'
    BY <1>1 DEF PipelineInv, StagedAsDeclared, TypeOK, RefuseContent, uploads, queue
  <1>12. PublishedAsDeclared'
    BY <1>1 DEF PipelineInv, PublishedAsDeclared, RefuseContent, uploads, queue
  <1>13. QED
    BY <1>2, <1>3, <1>4, <1>5, <1>6, <1>7, <1>8, <1>9, <1>10, <1>11, <1>12 DEF PipelineInv

\* Dropping a refused object takes nothing from an accepted session.
LEMMA DropBadKeeps ==
  ASSUME PipelineInv, NEW p \in Procs, DropBad(p)
  PROVE  PipelineInv'
  <1>1. /\ pc' \in [Procs -> PCs] /\ my' \in [Procs -> LocalVars]
        /\ OthersStand(p)
        /\ pc'[p] = "idle"
    BY Left DEF PipelineInv, DropBad
  <1>2. TypeOK'
    BY <1>1 DEF PipelineInv, TypeOK, DropBad, uploads, queue, bounds
  <1>3. Hands'
    BY <1>1
    DEF PipelineInv, Hands, DropBad, uploads, queue, OthersStand, Uploading, Claiming,
        Publishing, WithSession, WithArtifact
  <1>4. SessionFacts'
    BY <1>1 DEF PipelineInv, SessionFacts, DropBad, uploads, queue
  <1>5. UploadsAlone'
    BY <1>1 DEF PipelineInv, UploadsAlone, DropBad, uploads, queue, OthersStand, Uploading
  <1>6. ClaimsHeld'
    BY <1>1, ClaimsRest DEF PipelineInv, DropBad, uploads, queue, Claiming
  <1>7. Fresh'
    BY <1>1, FreshRests DEF PipelineInv, DropBad, uploads, queue
  <1>8. QueueFacts'
    BY <1>1 DEF PipelineInv, QueueFacts, DropBad, uploads, queue
  <1>9. WorkersDecide'
    BY <1>1, WorkersRest DEF PipelineInv, DropBad, uploads, queue
  <1>10. Lease'
    BY <1>1, LeaseRests DEF PipelineInv, DropBad, uploads, queue, Publishing
  <1>11. StagedAsDeclared'
    BY <1>1 DEF PipelineInv, StagedAsDeclared, UploadsAlone, DropBad, uploads, queue, Uploading
  <1>12. PublishedAsDeclared'
    BY <1>1 DEF PipelineInv, PublishedAsDeclared, DropBad, uploads, queue
  <1>13. QED
    BY <1>2, <1>3, <1>4, <1>5, <1>6, <1>7, <1>8, <1>9, <1>10, <1>11, <1>12 DEF PipelineInv

\* The claim is one statement: it moves a completed session, which nobody else holds.
LEMMA ClaimCompletedKeeps ==
  ASSUME PipelineInv, NEW p \in Procs, ClaimCompleted(p)
  PROVE  PipelineInv'
  <1>1. /\ pc' \in [Procs -> PCs] /\ my' \in [Procs -> LocalVars]
        /\ OthersStand(p)
        /\ session[my[p].ses] = "completed" => pc'[p] = "inspect" /\ my'[p] = my[p]
        /\ session[my[p].ses] # "completed" => pc'[p] = "idle"
    BY Left, WentOn DEF PipelineInv, ClaimCompleted, GoOn, PCs, Claiming
  <1>2. TypeOK'
    BY <1>1
    DEF PipelineInv, TypeOK, SessionStatuses, RowStatuses, JobStatuses, MaxAttempts,
        ClaimCompleted, uploads, queue, bounds
  <1>3. Hands'
    BY <1>1
    DEF PipelineInv, Hands, ClaimCompleted, uploads, queue, OthersStand, Uploading, Claiming,
        Publishing, WithSession, WithArtifact
  <1>4. SessionFacts'
    BY <1>1 DEF PipelineInv, SessionFacts, TypeOK, ClaimCompleted, uploads, queue
  <1>5. UploadsAlone'
    BY <1>1
    DEF PipelineInv, UploadsAlone, TypeOK, Hands, ClaimCompleted, uploads, queue,
        OthersStand, Uploading, WithSession
  <1>6. ClaimsHeld'
    <2>1. CASE session[my[p].ses] = "completed"
      <3>1. session' = [session EXCEPT ![my[p].ses] = "release-claimed"] /\ UNCHANGED attached
        BY <2>1 DEF ClaimCompleted, uploads
      <3>2. attached[my[p].ses] = None /\ my[p].ses \in Sessions
        BY <2>1 DEF PipelineInv, SessionFacts, Hands, ClaimCompleted, WithSession
      <3>3. \A q \in Procs : pc[q] \in Claiming => my[q].ses # my[p].ses
        BY <2>1 DEF PipelineInv, ClaimsHeld
      <3>4. QED
        BY <1>1, <2>1, <3>1, <3>2, <3>3 DEF PipelineInv, TypeOK, ClaimsHeld, OthersStand
    <2>2. CASE session[my[p].ses] # "completed"
      BY <1>1, <2>2, ClaimsRest DEF PipelineInv, ClaimCompleted, Claiming, uploads
    <2>3. QED
      BY <2>1, <2>2
  <1>7. Fresh'
    BY <1>1, FreshRests DEF PipelineInv, ClaimCompleted, uploads, queue
  <1>8. QueueFacts'
    BY <1>1 DEF PipelineInv, QueueFacts, ClaimCompleted, uploads, queue
  <1>9. WorkersDecide'
    BY <1>1, WorkersRest DEF PipelineInv, ClaimCompleted, uploads, queue
  <1>10. Lease'
    BY <1>1, LeaseRests DEF PipelineInv, ClaimCompleted, uploads, queue, Publishing
  <1>11. StagedAsDeclared'
    BY <1>1 DEF PipelineInv, StagedAsDeclared, TypeOK, ClaimCompleted, uploads, queue
  <1>12. PublishedAsDeclared'
    BY <1>1 DEF PipelineInv, PublishedAsDeclared, ClaimCompleted, uploads, queue
  <1>13. QED
    BY <1>2, <1>3, <1>4, <1>5, <1>6, <1>7, <1>8, <1>9, <1>10, <1>11, <1>12 DEF PipelineInv

\* Reading the staged package changes nothing but the way ahead.
LEMMA InspectPackageKeeps ==
  ASSUME PipelineInv, NEW p \in Procs, InspectPackage(p)
  PROVE  PipelineInv'
  <1>1. /\ pc' \in [Procs -> PCs] /\ my' \in [Procs -> LocalVars]
        /\ OthersStand(p)
        /\ \/ pc'[p] = "idle"
           \/ pc'[p] = "create" /\ my'[p] = my[p]
    BY Left, WentOn DEF PipelineInv, InspectPackage, GoOn, PCs, Claiming
  <1>2. TypeOK'
    BY <1>1 DEF PipelineInv, TypeOK, InspectPackage, uploads, queue, bounds
  <1>3. Hands'
    BY <1>1
    DEF PipelineInv, Hands, InspectPackage, uploads, queue, OthersStand, Uploading, Claiming,
        Publishing, WithSession, WithArtifact
  <1>4. SessionFacts'
    BY <1>1 DEF PipelineInv, SessionFacts, InspectPackage, uploads, queue
  <1>5. UploadsAlone'
    BY <1>1, UploadsRest DEF PipelineInv, InspectPackage, uploads, queue, Uploading
  <1>6. ClaimsHeld'
    BY <1>1 DEF PipelineInv, ClaimsHeld, InspectPackage, uploads, queue, OthersStand, Claiming
  <1>7. Fresh'
    BY <1>1, FreshRests DEF PipelineInv, InspectPackage, uploads, queue
  <1>8. QueueFacts'
    BY <1>1 DEF PipelineInv, QueueFacts, InspectPackage, uploads, queue
  <1>9. WorkersDecide'
    BY <1>1, WorkersRest DEF PipelineInv, InspectPackage, uploads, queue
  <1>10. Lease'
    BY <1>1, LeaseRests DEF PipelineInv, InspectPackage, uploads, queue, Publishing
  <1>11. StagedAsDeclared'
    BY <1>1 DEF PipelineInv, StagedAsDeclared, InspectPackage, uploads, queue
  <1>12. PublishedAsDeclared'
    BY <1>1 DEF PipelineInv, PublishedAsDeclared, InspectPackage, uploads, queue
  <1>13. QED
    BY <1>2, <1>3, <1>4, <1>5, <1>6, <1>7, <1>8, <1>9, <1>10, <1>11, <1>12 DEF PipelineInv

\* The session takes the artifact, which no other session names.
LEMMA AttachSessionKeeps ==
  ASSUME PipelineInv, NEW p \in Procs, AttachSession(p)
  PROVE  PipelineInv'
  <1>0. CanUpdateSession(my[p].ses, "release-claimed", my[p].art)
    BY DEF PipelineInv, AttachSession, ClaimsHeld, Claiming, CanUpdateSession
  <1>1. /\ pc' \in [Procs -> PCs] /\ my' \in [Procs -> LocalVars]
        /\ OthersStand(p)
        /\ pc'[p] = "enqueue" /\ my'[p] = my[p]
        /\ attached' = [attached EXCEPT ![my[p].ses] = my[p].art]
    BY <1>0, WentOn DEF PipelineInv, AttachSession, GoOn, PCs, Claiming
  <1>2. TypeOK'
    BY <1>1
    DEF PipelineInv, TypeOK, Hands, AttachSession, uploads, queue, bounds, Uploading,
        WithArtifact
  <1>3. Hands'
    BY <1>1
    DEF PipelineInv, Hands, AttachSession, uploads, queue, OthersStand, Uploading, Claiming,
        WithSession, WithArtifact
  <1>4. SessionFacts'
    BY <1>1
    DEF PipelineInv, SessionFacts, ClaimsHeld, Fresh, AttachSession, uploads, queue, Claiming
  <1>5. UploadsAlone'
    BY <1>1, UploadsRest DEF PipelineInv, AttachSession, uploads, queue, Uploading
  <1>6. ClaimsHeld'
    BY <1>1 DEF PipelineInv, ClaimsHeld, AttachSession, uploads, queue, OthersStand, Claiming
  <1>7. Fresh'
    BY <1>1 DEF PipelineInv, Fresh, AttachSession, uploads, queue, OthersStand
  <1>8. QueueFacts'
    BY <1>1 DEF PipelineInv, QueueFacts, AttachSession, uploads, queue
  <1>9. WorkersDecide'
    BY <1>1, WorkersRest DEF PipelineInv, AttachSession, uploads, queue
  <1>10. Lease'
    BY <1>1
    DEF PipelineInv, Lease, Fresh, AttachSession, uploads, queue, OthersStand, Publishing
  <1>11. StagedAsDeclared'
    BY <1>1
    DEF PipelineInv, StagedAsDeclared, ClaimsHeld, AttachSession, uploads, queue, Claiming
  <1>12. PublishedAsDeclared'
    BY <1>1 DEF PipelineInv, PublishedAsDeclared, Fresh, AttachSession, uploads, queue
  <1>13. QED
    BY <1>2, <1>3, <1>4, <1>5, <1>6, <1>7, <1>8, <1>9, <1>10, <1>11, <1>12 DEF PipelineInv

\* A job is queued once for an artifact, with all its attempts ahead.
LEMMA EnqueueScanKeeps ==
  ASSUME PipelineInv, NEW p \in Procs, EnqueueScan(p)
  PROVE  PipelineInv'
  <1>1. /\ pc' \in [Procs -> PCs] /\ my' \in [Procs -> LocalVars]
        /\ OthersStand(p)
        /\ pc'[p] = "idle"
    BY Left DEF PipelineInv, EnqueueScan
  <1>2. TypeOK'
    BY <1>1
    DEF PipelineInv, TypeOK, SessionStatuses, RowStatuses, JobStatuses, MaxAttempts,
        EnqueueScan, uploads, queue, bounds
  <1>3. Hands'
    BY <1>1
    DEF PipelineInv, Hands, EnqueueScan, uploads, queue, OthersStand, Uploading, Claiming,
        Publishing, WithSession, WithArtifact
  <1>4. SessionFacts'
    BY <1>1 DEF PipelineInv, SessionFacts, EnqueueScan, uploads, queue
  <1>5. UploadsAlone'
    BY <1>1, UploadsRest DEF PipelineInv, EnqueueScan, uploads, queue, Uploading
  <1>6. ClaimsHeld'
    BY <1>1, ClaimsRest DEF PipelineInv, EnqueueScan, uploads, queue, Claiming
  <1>7. Fresh'
    BY <1>1 DEF PipelineInv, Fresh, EnqueueScan, uploads, queue, OthersStand
  <1>8. QueueFacts'
    <2>1. my[p].art \in Arts /\ job[my[p].art] = "none" /\ row[my[p].art].status = "staged"
      BY DEF PipelineInv, Hands, Fresh, EnqueueScan, WithArtifact
    <2>2. /\ job' = [job EXCEPT ![my[p].art] = "queued"]
          /\ UNCHANGED <<attempts, row>>
      BY DEF EnqueueScan
    <2>3. QED
      BY <2>1, <2>2 DEF PipelineInv, QueueFacts, MaxAttempts
  <1>9. WorkersDecide'
    BY <1>1, WorkersRest DEF PipelineInv, EnqueueScan, uploads, queue
  <1>10. Lease'
    BY <1>1, LeaseRests DEF PipelineInv, EnqueueScan, uploads, queue, Publishing
  <1>11. StagedAsDeclared'
    BY <1>1 DEF PipelineInv, StagedAsDeclared, EnqueueScan, uploads, queue
  <1>12. PublishedAsDeclared'
    BY <1>1 DEF PipelineInv, PublishedAsDeclared, EnqueueScan, uploads, queue
  <1>13. QED
    BY <1>2, <1>3, <1>4, <1>5, <1>6, <1>7, <1>8, <1>9, <1>10, <1>11, <1>12 DEF PipelineInv

\* A job reported done has decided its artifact; one that failed keeps an attempt or ends.
LEMMA CompleteJobKeeps ==
  ASSUME PipelineInv, NEW p \in Procs, CompleteJob(p)
  PROVE  PipelineInv'
  <1>1. /\ pc' \in [Procs -> PCs] /\ my' \in [Procs -> LocalVars]
        /\ OthersStand(p)
        /\ pc[p] = "complete" /\ pc'[p] = "idle"
        /\ UNCHANGED <<session, declared, attached, staged, row, blob>>
        /\ \A a \in Arts : job[a] # "none" => job'[a] # "none"
        /\ \A a \in Arts : a # my[p].art => job'[a] = job[a]
    BY Left DEF PipelineInv, CompleteJob, uploads, queue
  <1>2. TypeOK'
    BY <1>1
    DEF PipelineInv, TypeOK, SessionStatuses, RowStatuses, JobStatuses, MaxAttempts,
        CompleteJob, uploads, queue, bounds
  <1>3. Hands'
    BY <1>1
    DEF PipelineInv, Hands, CompleteJob, uploads, queue, OthersStand, Uploading, Claiming,
        Publishing, WithSession, WithArtifact
  <1>4. SessionFacts'
    BY <1>1 DEF PipelineInv, SessionFacts, CompleteJob, uploads, queue
  <1>5. UploadsAlone'
    BY <1>1, UploadsRest DEF PipelineInv, CompleteJob, uploads, queue, Uploading
  <1>6. ClaimsHeld'
    BY <1>1, ClaimsRest DEF PipelineInv, CompleteJob, uploads, queue, Claiming
  <1>7. Fresh'
    BY <1>1, FreshRests DEF PipelineInv, CompleteJob, uploads, queue, WorkersDecide
  <1>8. QueueFacts'
    BY <1>1 DEF PipelineInv, QueueFacts, WorkersDecide, CompleteJob, uploads, queue
  <1>9. WorkersDecide'
    BY <1>1, WorkersRest DEF PipelineInv, CompleteJob, uploads, queue
  <1>10. Lease'
    BY <1>1, LeaseRests DEF PipelineInv, CompleteJob, uploads, queue, Publishing
  <1>11. StagedAsDeclared'
    BY <1>1 DEF PipelineInv, StagedAsDeclared, CompleteJob, uploads, queue
  <1>12. PublishedAsDeclared'
    BY <1>1 DEF PipelineInv, PublishedAsDeclared, CompleteJob, uploads, queue
  <1>13. QED
    BY <1>2, <1>3, <1>4, <1>5, <1>6, <1>7, <1>8, <1>9, <1>10, <1>11, <1>12 DEF PipelineInv

\* The intent moves the row of the one approval under way.
LEMMA PersistIntentKeeps ==
  ASSUME PipelineInv, NEW p \in Procs, PersistIntent(p)
  PROVE  PipelineInv'
  <1>1. /\ pc' \in [Procs -> PCs] /\ my' \in [Procs -> LocalVars]
        /\ OthersStand(p)
        /\ pc[p] = "intend" /\ pc'[p] = "finalize" /\ my'[p] = my[p]
    BY WentOn DEF PipelineInv, PersistIntent, Step, PCs
  <1>2. TypeOK'
    BY <1>1 DEF PipelineInv, TypeOK, PersistIntent, RowStatuses, uploads, queue, bounds
  <1>3. Hands'
    BY <1>1
    DEF PipelineInv, Hands, PersistIntent, uploads, queue, OthersStand, Uploading, Claiming,
        Publishing, WithSession, WithArtifact
  <1>4. SessionFacts'
    BY <1>1 DEF PipelineInv, SessionFacts, PersistIntent, uploads, queue
  <1>5. UploadsAlone'
    BY <1>1, UploadsRest DEF PipelineInv, PersistIntent, uploads, queue, Uploading
  <1>6. ClaimsHeld'
    BY <1>1, ClaimsRest DEF PipelineInv, PersistIntent, uploads, queue, Claiming
  <1>7. Fresh'
    BY <1>1, FreshRests DEF PipelineInv, PersistIntent, uploads, queue, Lease, Publishing
  <1>8. QueueFacts'
    BY <1>1 DEF PipelineInv, QueueFacts, PersistIntent, uploads, queue
  <1>9. WorkersDecide'
    BY <1>1, WorkersRest DEF PipelineInv, PersistIntent, uploads, queue
  <1>10. Lease'
    BY <1>1
    DEF PipelineInv, Lease, TypeOK, Hands, PersistIntent, uploads, queue, OthersStand,
        Uploading, Publishing, WithArtifact
  <1>11. StagedAsDeclared'
    BY <1>1 DEF PipelineInv, StagedAsDeclared, Lease, PersistIntent, uploads, queue, Publishing
  <1>12. PublishedAsDeclared'
    BY <1>1
    DEF PipelineInv, PublishedAsDeclared, Lease, PersistIntent, uploads, queue, Publishing
  <1>13. QED
    BY <1>2, <1>3, <1>4, <1>5, <1>6, <1>7, <1>8, <1>9, <1>10, <1>11, <1>12 DEF PipelineInv

\* Only what was published loses its staging objects.
LEMMA FinalizeKeeps ==
  ASSUME PipelineInv, NEW p \in Procs, Finalize(p)
  PROVE  PipelineInv'
  <1>1. /\ pc' \in [Procs -> PCs] /\ my' \in [Procs -> LocalVars]
        /\ OthersStand(p)
        /\ pc'[p] = "idle"
    BY Left DEF PipelineInv, Finalize
  <1>2. TypeOK'
    BY <1>1
    DEF PipelineInv, TypeOK, SessionStatuses, RowStatuses, JobStatuses, MaxAttempts,
        Finalize, uploads, queue, bounds
  <1>3. Hands'
    BY <1>1
    DEF PipelineInv, Hands, Finalize, uploads, queue, OthersStand, Uploading, Claiming,
        Publishing, WithSession, WithArtifact
  <1>4. SessionFacts'
    BY <1>1 DEF PipelineInv, SessionFacts, Finalize, uploads, queue
  <1>5. UploadsAlone'
    <2>1. \A s \in Sessions : attached[s] # my[p].art => staged'[s] = staged[s]
      BY DEF PipelineInv, Finalize
    <2>2. \A q \in Procs : pc[q] = "judge" /\ my[q].ses \notin Overlap =>
             my[q].ses \in Sessions /\ attached[my[q].ses] # my[p].art
      <3>1. my[p].art \in Arts /\ my[p].art # None
        BY UploadAssumption
        DEF PipelineInv, Hands, Finalize, UploadAssumption, WithArtifact, Publishing
      <3>2. QED
        BY <3>1 DEF PipelineInv, Hands, UploadsAlone, SessionFacts, Uploading, WithSession
    <2>3. UNCHANGED session
      BY DEF Finalize, uploads
    <2>4. QED
      BY <1>1, <2>1, <2>2, <2>3 DEF PipelineInv, UploadsAlone, OthersStand, Uploading
  <1>6. ClaimsHeld'
    BY <1>1, ClaimsRest DEF PipelineInv, Finalize, uploads, queue, Claiming
  <1>7. Fresh'
    BY <1>1, FreshRests DEF PipelineInv, Finalize, uploads, queue, Lease, Publishing
  <1>8. QueueFacts'
    BY <1>1 DEF PipelineInv, QueueFacts, Finalize, uploads, queue
  <1>9. WorkersDecide'
    BY <1>1, WorkersRest DEF PipelineInv, Finalize, uploads, queue
  <1>10. Lease'
    BY <1>1 DEF PipelineInv, Lease, Finalize, uploads, queue, OthersStand, Publishing
  <1>11. StagedAsDeclared'
    <2>1. my[p].art \in Arts /\ row' = [row EXCEPT ![my[p].art].status = "published"]
      BY DEF PipelineInv, Hands, Finalize, WithArtifact, Publishing
    <2>2. \A s \in Sessions : attached[s] # my[p].art => staged'[s] = staged[s]
      BY DEF PipelineInv, Finalize
    <2>3. UNCHANGED uploads
      BY DEF Finalize
    <2>4. QED
      BY <2>1, <2>2, <2>3, UploadAssumption
      DEF PipelineInv, TypeOK, StagedAsDeclared, UploadAssumption, uploads
  <1>12. PublishedAsDeclared'
    BY <1>1 DEF PipelineInv, PublishedAsDeclared, Lease, Finalize, uploads, queue, Publishing
  <1>13. QED
    BY <1>2, <1>3, <1>4, <1>5, <1>6, <1>7, <1>8, <1>9, <1>10, <1>11, <1>12 DEF PipelineInv

\* A failing call ends the operation, or is reported by the scan as a failure.
LEMMA FailKeeps ==
  ASSUME PipelineInv, NEW p \in Procs, Fail(p)
  PROVE  PipelineInv'
  <1>1. /\ pc' \in [Procs -> PCs] /\ my' \in [Procs -> LocalVars]
        /\ OthersStand(p)
        /\ \/ pc'[p] = "idle"
           \/ pc[p] = "scan" /\ pc'[p] = "complete" /\ my'[p] = my[p]
    BY Left, WentOn DEF PipelineInv, Fail, GoOn, PCs
  <1>2. TypeOK'
    BY <1>1, UploadAssumption DEF PipelineInv, TypeOK, Fail, uploads, queue, UploadAssumption
  <1>3. Hands'
    BY <1>1
    DEF PipelineInv, Hands, Fail, uploads, queue, UploadAssumption, OthersStand, Uploading,
        Claiming, Publishing, WithSession, WithArtifact
  <1>4. SessionFacts'
    BY <1>1 DEF PipelineInv, SessionFacts, Fail, uploads, queue, UploadAssumption
  <1>5. UploadsAlone'
    BY <1>1, UploadsRest DEF PipelineInv, Fail, uploads, queue, UploadAssumption, Uploading
  <1>6. ClaimsHeld'
    BY <1>1, ClaimsRest DEF PipelineInv, Fail, uploads, queue, UploadAssumption, Claiming
  <1>7. Fresh'
    BY <1>1, FreshRests DEF PipelineInv, Fail, uploads, queue, UploadAssumption
  <1>8. QueueFacts'
    BY <1>1 DEF PipelineInv, QueueFacts, Fail, uploads, queue, UploadAssumption
  <1>9. WorkersDecide'
    BY <1>1
    DEF PipelineInv, WorkersDecide, Hands, QueueFacts, Fail, uploads, queue,
        UploadAssumption, OthersStand
  <1>10. Lease'
    BY <1>1, LeaseRests DEF PipelineInv, Fail, uploads, queue, UploadAssumption, Publishing
  <1>11. StagedAsDeclared'
    BY <1>1 DEF PipelineInv, StagedAsDeclared, Fail, uploads, queue, UploadAssumption
  <1>12. PublishedAsDeclared'
    BY <1>1 DEF PipelineInv, PublishedAsDeclared, Fail, uploads, queue, UploadAssumption
  <1>13. QED
    BY <1>2, <1>3, <1>4, <1>5, <1>6, <1>7, <1>8, <1>9, <1>10, <1>11, <1>12 DEF PipelineInv

\* A crash leaves the tables and objects as they are.
LEMMA CrashKeeps ==
  ASSUME PipelineInv, NEW p \in Procs, Crash(p)
  PROVE  PipelineInv'
  <1>1. /\ pc' \in [Procs -> PCs] /\ my' \in [Procs -> LocalVars]
        /\ OthersStand(p)
        /\ pc'[p] = "idle"
    BY Left DEF PipelineInv, Crash
  <1>2. TypeOK'
    BY <1>1, UploadAssumption DEF PipelineInv, TypeOK, Crash, uploads, queue, UploadAssumption
  <1>3. Hands'
    BY <1>1
    DEF PipelineInv, Hands, Crash, uploads, queue, UploadAssumption, OthersStand, Uploading,
        Claiming, Publishing, WithSession, WithArtifact
  <1>4. SessionFacts'
    BY <1>1 DEF PipelineInv, SessionFacts, Crash, uploads, queue, UploadAssumption
  <1>5. UploadsAlone'
    BY <1>1, UploadsRest DEF PipelineInv, Crash, uploads, queue, UploadAssumption, Uploading
  <1>6. ClaimsHeld'
    BY <1>1, ClaimsRest DEF PipelineInv, Crash, uploads, queue, UploadAssumption, Claiming
  <1>7. Fresh'
    BY <1>1, FreshRests DEF PipelineInv, Crash, uploads, queue, UploadAssumption
  <1>8. QueueFacts'
    BY <1>1 DEF PipelineInv, QueueFacts, Crash, uploads, queue, UploadAssumption
  <1>9. WorkersDecide'
    BY <1>1, WorkersRest DEF PipelineInv, Crash, uploads, queue, UploadAssumption
  <1>10. Lease'
    BY <1>1, LeaseRests DEF PipelineInv, Crash, uploads, queue, UploadAssumption, Publishing
  <1>11. StagedAsDeclared'
    BY <1>1 DEF PipelineInv, StagedAsDeclared, Crash, uploads, queue, UploadAssumption
  <1>12. PublishedAsDeclared'
    BY <1>1 DEF PipelineInv, PublishedAsDeclared, Crash, uploads, queue, UploadAssumption
  <1>13. QED
    BY <1>2, <1>3, <1>4, <1>5, <1>6, <1>7, <1>8, <1>9, <1>10, <1>11, <1>12 DEF PipelineInv

\* A new session is open under its declared digest, and nobody has it in hand.
LEMMA CreateUploadSessionKeeps ==
  ASSUME PipelineInv, NEW p \in Procs, NEW s \in Sessions, NEW c \in Contents,
         CreateUploadSession(p, s, c)
  PROVE  PipelineInv'
  <1>1. /\ pc' \in [Procs -> PCs] /\ my' \in [Procs -> LocalVars]
        /\ OthersStand(p)
        /\ UNCHANGED <<pc, my>>
    BY DEF PipelineInv, TypeOK, CreateUploadSession, OthersStand
  <1>2. TypeOK'
    BY <1>1
    DEF PipelineInv, TypeOK, SessionStatuses, RowStatuses, JobStatuses, MaxAttempts,
        CreateUploadSession, uploads, queue, bounds
  <1>3. Hands'
    BY <1>1 DEF PipelineInv, Hands, CreateUploadSession, uploads, queue
  <1>4. SessionFacts'
    BY <1>1 DEF PipelineInv, SessionFacts, TypeOK, CreateUploadSession, uploads, queue
  <1>5. UploadsAlone'
    BY <1>1 DEF PipelineInv, UploadsAlone, CreateUploadSession, uploads, queue
  <1>6. ClaimsHeld'
    BY <1>1 DEF PipelineInv, ClaimsHeld, CreateUploadSession, uploads, queue
  <1>7. Fresh'
    BY <1>1 DEF PipelineInv, Fresh, ClaimsHeld, CreateUploadSession, uploads, queue, Claiming
  <1>8. QueueFacts'
    BY <1>1 DEF PipelineInv, QueueFacts, CreateUploadSession, uploads, queue
  <1>9. WorkersDecide'
    BY <1>1 DEF PipelineInv, WorkersDecide, QueueFacts, CreateUploadSession, uploads, queue
  <1>10. Lease'
    <2>1. \A t \in Sessions : attached[t] # None => t # s /\ declared'[t] = declared[t]
      BY DEF PipelineInv, SessionFacts, CreateUploadSession
    <2>2. \A q \in Procs : pc[q] \in Publishing => my[q].art # None
      BY UploadAssumption DEF PipelineInv, Hands, UploadAssumption, WithArtifact
    <2>3. QED
      BY <1>1, <2>1, <2>2 DEF PipelineInv, Lease, CreateUploadSession
  <1>11. StagedAsDeclared'
    BY <1>1 DEF PipelineInv, StagedAsDeclared, CreateUploadSession, uploads, queue
  <1>12. PublishedAsDeclared'
    BY <1>1
    DEF PipelineInv, PublishedAsDeclared, SessionFacts, CreateUploadSession, uploads, queue
  <1>13. QED
    BY <1>2, <1>3, <1>4, <1>5, <1>6, <1>7, <1>8, <1>9, <1>10, <1>11, <1>12 DEF PipelineInv

\* An upload begins on an open session, alone unless overlapping ones are meant.
LEMMA ReceiveContentKeeps ==
  ASSUME PipelineInv, NEW p \in Procs, NEW s \in Sessions, ReceiveContent(p, s)
  PROVE  PipelineInv'
  <1>1. /\ pc' \in [Procs -> PCs] /\ my' \in [Procs -> LocalVars]
        /\ OthersStand(p)
        /\ pc'[p] = "put" /\ my'[p] = Locals(s, None, None)
        /\ pc[p] = "idle"
    BY LocalsTyped, Moved DEF PipelineInv, ReceiveContent, Begin, Step, PCs
  <1>2. TypeOK'
    BY <1>1, UploadAssumption
    DEF PipelineInv, TypeOK, UploadAssumption, ReceiveContent, uploads, queue, Begin, Locals
  <1>3. Hands'
    BY <1>1
    DEF PipelineInv, Hands, ReceiveContent, uploads, queue, Begin, Locals, OthersStand,
        Uploading, Publishing, WithArtifact
  <1>4. SessionFacts'
    BY <1>1 DEF PipelineInv, SessionFacts, ReceiveContent, uploads, queue, Begin, Locals
  <1>5. UploadsAlone'
    BY <1>1
    DEF PipelineInv, UploadsAlone, ReceiveContent, uploads, queue, Begin, Locals,
        OthersStand, Uploading
  <1>6. ClaimsHeld'
    BY <1>1, ClaimsRest DEF PipelineInv, ReceiveContent, uploads, queue, Begin, Locals, Claiming
  <1>7. Fresh'
    BY <1>1, FreshRests DEF PipelineInv, ReceiveContent, uploads, queue, Begin
  <1>8. QueueFacts'
    BY <1>1 DEF PipelineInv, QueueFacts, ReceiveContent, uploads, queue, Begin, Locals
  <1>9. WorkersDecide'
    BY <1>1, WorkersRest DEF PipelineInv, ReceiveContent, uploads, queue, Begin, Locals
  <1>10. Lease'
    BY <1>1, LeaseRests
    DEF PipelineInv, ReceiveContent, uploads, queue, Begin, Locals, Publishing
  <1>11. StagedAsDeclared'
    BY <1>1 DEF PipelineInv, StagedAsDeclared, ReceiveContent, uploads, queue, Begin, Locals
  <1>12. PublishedAsDeclared'
    BY <1>1 DEF PipelineInv, PublishedAsDeclared, ReceiveContent, uploads, queue, Begin, Locals
  <1>13. QED
    BY <1>2, <1>3, <1>4, <1>5, <1>6, <1>7, <1>8, <1>9, <1>10, <1>11, <1>12 DEF PipelineInv

\* A release begins by reading a session; it holds nothing yet.
LEMMA CreateReleaseKeeps ==
  ASSUME PipelineInv, NEW p \in Procs, NEW s \in Sessions, NEW i \in Ids, CreateRelease(p, s, i)
  PROVE  PipelineInv'
  <1>1. /\ pc' \in [Procs -> PCs] /\ my' \in [Procs -> LocalVars]
        /\ OthersStand(p)
        /\ pc'[p] = "claim" /\ my'[p] = Locals(s, None, i)
    BY LocalsTyped, Moved DEF PipelineInv, CreateRelease, Begin, Step, PCs
  <1>2. TypeOK'
    BY <1>1, UploadAssumption
    DEF PipelineInv, TypeOK, UploadAssumption, CreateRelease, uploads, queue, Begin, Locals
  <1>3. Hands'
    BY <1>1
    DEF PipelineInv, Hands, CreateRelease, uploads, queue, Begin, Locals, OthersStand,
        Uploading, Publishing, WithArtifact
  <1>4. SessionFacts'
    BY <1>1 DEF PipelineInv, SessionFacts, CreateRelease, uploads, queue, Begin, Locals
  <1>5. UploadsAlone'
    BY <1>1, UploadsRest
    DEF PipelineInv, CreateRelease, uploads, queue, Begin, Locals, Uploading
  <1>6. ClaimsHeld'
    BY <1>1, ClaimsRest DEF PipelineInv, CreateRelease, uploads, queue, Begin, Locals, Claiming
  <1>7. Fresh'
    BY <1>1, FreshRests DEF PipelineInv, CreateRelease, uploads, queue, Begin
  <1>8. QueueFacts'
    BY <1>1 DEF PipelineInv, QueueFacts, CreateRelease, uploads, queue, Begin, Locals
  <1>9. WorkersDecide'
    BY <1>1, WorkersRest DEF PipelineInv, CreateRelease, uploads, queue, Begin, Locals
  <1>10. Lease'
    BY <1>1, LeaseRests
    DEF PipelineInv, CreateRelease, uploads, queue, Begin, Locals, Publishing
  <1>11. StagedAsDeclared'
    BY <1>1 DEF PipelineInv, StagedAsDeclared, CreateRelease, uploads, queue, Begin, Locals
  <1>12. PublishedAsDeclared'
    BY <1>1 DEF PipelineInv, PublishedAsDeclared, CreateRelease, uploads, queue, Begin, Locals
  <1>13. QED
    BY <1>2, <1>3, <1>4, <1>5, <1>6, <1>7, <1>8, <1>9, <1>10, <1>11, <1>12 DEF PipelineInv

\* A worker takes a queued job, which has an attempt left.
LEMMA ClaimNextKeeps ==
  ASSUME PipelineInv, NEW p \in Procs, NEW a \in Arts, ClaimNext(p, a)
  PROVE  PipelineInv'
  <1>1. /\ pc' \in [Procs -> PCs] /\ my' \in [Procs -> LocalVars]
        /\ OthersStand(p)
        /\ pc'[p] = "scan" /\ my'[p] = Locals(None, a, None)
    BY LocalsTyped, Moved DEF PipelineInv, ClaimNext, Step, PCs
  <1>2. TypeOK'
    <2>1. attempts[a] \in 0..MaxAttempts /\ attempts[a] < MaxAttempts
      BY DEF PipelineInv, TypeOK, QueueFacts, ClaimNext
    <2>2. attempts' \in [Arts -> 0..MaxAttempts] /\ job' \in [Arts -> JobStatuses]
      BY <2>1 DEF PipelineInv, TypeOK, ClaimNext, JobStatuses, MaxAttempts
    <2>3. QED
      BY <1>1, <2>2 DEF PipelineInv, TypeOK, ClaimNext, uploads, bounds
  <1>3. Hands'
    BY <1>1
    DEF PipelineInv, Hands, ClaimNext, uploads, queue, Locals, OthersStand, Uploading,
        Claiming, WithSession
  <1>4. SessionFacts'
    BY <1>1 DEF PipelineInv, SessionFacts, ClaimNext, uploads, queue, Locals
  <1>5. UploadsAlone'
    BY <1>1, UploadsRest DEF PipelineInv, ClaimNext, uploads, queue, Locals, Uploading
  <1>6. ClaimsHeld'
    BY <1>1, ClaimsRest DEF PipelineInv, ClaimNext, uploads, queue, Locals, Claiming
  <1>7. Fresh'
    BY <1>1, FreshRests DEF PipelineInv, ClaimNext, uploads, queue
  <1>8. QueueFacts'
    BY <1>1 DEF PipelineInv, QueueFacts, TypeOK, ClaimNext, uploads, queue, Locals
  <1>9. WorkersDecide'
    BY <1>1
    DEF PipelineInv, WorkersDecide, QueueFacts, ClaimNext, uploads, queue, Locals,
        OthersStand
  <1>10. Lease'
    BY <1>1, LeaseRests DEF PipelineInv, ClaimNext, uploads, queue, Locals, Publishing
  <1>11. StagedAsDeclared'
    BY <1>1 DEF PipelineInv, StagedAsDeclared, ClaimNext, uploads, queue, Locals
  <1>12. PublishedAsDeclared'
    BY <1>1 DEF PipelineInv, PublishedAsDeclared, ClaimNext, uploads, queue, Locals
  <1>13. QED
    BY <1>2, <1>3, <1>4, <1>5, <1>6, <1>7, <1>8, <1>9, <1>10, <1>11, <1>12 DEF PipelineInv

\* An approval takes a scanned artifact under the publish lease.
LEMMA ApproveKeeps ==
  ASSUME PipelineInv, NEW p \in Procs, NEW a \in Arts, Approve(p, a)
  PROVE  PipelineInv'
  <1>1. /\ pc' \in [Procs -> PCs] /\ my' \in [Procs -> LocalVars]
        /\ OthersStand(p)
        /\ pc'[p] = "copy" /\ my'[p] = Locals(None, a, None)
    BY LocalsTyped, Moved DEF PipelineInv, Approve, Begin, Step, PCs
  <1>2. TypeOK'
    BY <1>1, UploadAssumption
    DEF PipelineInv, TypeOK, UploadAssumption, Approve, uploads, queue, Begin, Locals
  <1>3. Hands'
    BY <1>1
    DEF PipelineInv, Hands, Approve, uploads, queue, Begin, Locals, OthersStand, Uploading,
        Claiming, WithSession
  <1>4. SessionFacts'
    BY <1>1 DEF PipelineInv, SessionFacts, Approve, uploads, queue, Begin, Locals
  <1>5. UploadsAlone'
    BY <1>1, UploadsRest DEF PipelineInv, Approve, uploads, queue, Begin, Locals, Uploading
  <1>6. ClaimsHeld'
    BY <1>1, ClaimsRest DEF PipelineInv, Approve, uploads, queue, Begin, Locals, Claiming
  <1>7. Fresh'
    BY <1>1, FreshRests DEF PipelineInv, Approve, uploads, queue, Begin
  <1>8. QueueFacts'
    BY <1>1 DEF PipelineInv, QueueFacts, Approve, uploads, queue, Begin, Locals
  <1>9. WorkersDecide'
    BY <1>1, WorkersRest DEF PipelineInv, Approve, uploads, queue, Begin, Locals
  <1>10. Lease'
    BY <1>1
    DEF PipelineInv, Lease, Approve, uploads, queue, Begin, Locals, OthersStand, Publishing
  <1>11. StagedAsDeclared'
    BY <1>1 DEF PipelineInv, StagedAsDeclared, Approve, uploads, queue, Begin, Locals
  <1>12. PublishedAsDeclared'
    BY <1>1 DEF PipelineInv, PublishedAsDeclared, Approve, uploads, queue, Begin, Locals
  <1>13. QED
    BY <1>2, <1>3, <1>4, <1>5, <1>6, <1>7, <1>8, <1>9, <1>10, <1>11, <1>12 DEF PipelineInv

\* A new row takes the declared digest of the claimed session; nobody else has it in hand.
LEMMA CreateArtifactKeeps ==
  ASSUME PipelineInv, NEW p \in Procs, CreateArtifact(p)
  PROVE  PipelineInv'
  <1>1. CASE UNCHANGED row /\ Leave(p)
    <2>1. /\ pc' \in [Procs -> PCs] /\ my' \in [Procs -> LocalVars]
          /\ OthersStand(p) /\ pc'[p] = "idle"
      BY <1>1, Left DEF PipelineInv
    <2>2. UNCHANGED <<session, declared, attached, staged, row, job, attempts, blob, ops, crashes,
                      faults>>
      BY <1>1 DEF CreateArtifact, uploads, queue, bounds
    <2>3. QED
      BY <2>1, <2>2, Resting
  <1>2. CASE \E a \in Arts : /\ row[a] = NoRow
                            /\ row' = [row EXCEPT ![a] = [status |-> "staged",
                                    sha |-> declared[my[p].ses], id |-> my[p].id]]
                            /\ Keep(p, [my[p] EXCEPT !.art = a])
                            /\ Goto(p, "attach")
    <2>1. PICK a \in Arts : /\ row[a] = NoRow
                           /\ row' = [row EXCEPT ![a] = [status |-> "staged",
                                   sha |-> declared[my[p].ses], id |-> my[p].id]]
                           /\ Keep(p, [my[p] EXCEPT !.art = a])
                           /\ Goto(p, "attach")
      BY <1>2
    <2>2. /\ pc[p] = "create" /\ my[p].ses \in Sessions /\ my[p].id \in Ids
          /\ declared[my[p].ses] \in Contents
      BY DEF PipelineInv, CreateArtifact, Hands, SessionFacts, ClaimsHeld, Claiming, WithSession
    <2>3. UNCHANGED <<session, declared, attached, staged, job, attempts, blob, ops, crashes,
                      faults>>
      BY DEF CreateArtifact, uploads, queue, bounds
    <2>4. /\ [my[p] EXCEPT !.art = a] \in LocalVars
          /\ [my[p] EXCEPT !.art = a].ses = my[p].ses /\ [my[p] EXCEPT !.art = a].art = a
      BY Written DEF PipelineInv, TypeOK
    <2>5. /\ pc' \in [Procs -> PCs] /\ my' \in [Procs -> LocalVars]
          /\ OthersStand(p) /\ pc'[p] = "attach" /\ my'[p].ses = my[p].ses /\ my'[p].art = a
      BY <2>1, <2>4, Moved DEF PipelineInv, PCs, Claiming
    <2>6. /\ row[a].status = "absent" /\ row[a].sha = None /\ job[a] = "none"
          /\ row'[a].status = "staged" /\ row'[a].sha = declared[my[p].ses]
          /\ \A b \in Arts : b # a => row'[b] = row[b]
      BY <2>1 DEF PipelineInv, TypeOK, NoRow, QueueFacts
    <2>7. \A s \in Sessions : attached[s] # a
      BY <2>6, UploadAssumption DEF PipelineInv, SessionFacts, UploadAssumption
    <2>8. TypeOK'
      BY <2>1, <2>2, <2>3, <2>5 DEF PipelineInv, TypeOK, RowStatuses
    <2>9. Hands'
      BY <2>2, <2>5 DEF PipelineInv, Hands, OthersStand
    <2>10. SessionFacts'
      BY <2>3, <2>6, <2>7 DEF PipelineInv, TypeOK, SessionFacts
    <2>11. UploadsAlone'
      BY <2>3, <2>5, UploadsRest DEF Uploading
    <2>12. ClaimsHeld'
      BY <2>2, <2>3, <2>5 DEF PipelineInv, ClaimsHeld, OthersStand, Claiming
    <2>13. Fresh'
      <3>1. \A q \in Procs : pc[q] \in {"attach", "enqueue"} => my[q].art # a
        BY <2>6 DEF PipelineInv, Fresh
      <3>2. QED
        BY <2>3, <2>5, <2>6, <2>7, <3>1 DEF PipelineInv, Hands, Fresh, OthersStand, WithArtifact
    <2>14. QueueFacts'
      BY <2>3, <2>6 DEF PipelineInv, QueueFacts
    <2>15. WorkersDecide' /\ Lease'
      BY <2>3, <2>5, <2>6, WorkersRest, LeaseRests DEF Publishing
    <2>16. StagedAsDeclared' /\ PublishedAsDeclared'
      BY <2>3, <2>6, <2>7 DEF PipelineInv, TypeOK, StagedAsDeclared, PublishedAsDeclared
    <2>17. QED
      BY <2>8, <2>9, <2>10, <2>11, <2>12, <2>13, <2>14, <2>15, <2>16 DEF PipelineInv
  <1>3. QED
    BY <1>1, <1>2 DEF CreateArtifact

\* A scan decides a staged row when it reports success.
LEMMA RunScanKeeps ==
  ASSUME PipelineInv, NEW p \in Procs, RunScan(p)
  PROVE  PipelineInv'
  <1>a. PICK b \in BOOLEAN : /\ Keep(p, [my[p] EXCEPT !.ok = b])
                             /\ b => row'[my[p].art].status # "staged"
    <2>1. pc[p] = "scan" /\ my[p].art \in Arts
      BY DEF PipelineInv, Hands, RunScan, Step, WithArtifact
    <2>2. CASE row[my[p].art].status = "staged"
      <3> DEFINE readable == \E s \in SessionsOf(my[p].art) : IsPackage(staged[s])
      <3>1. CASE readable
        <4>1. /\ Keep(p, [my[p] EXCEPT !.ok = TRUE])
              /\ row' = [row EXCEPT ![my[p].art].status = "scanned"]
          BY <2>2, <3>1 DEF RunScan
        <4>2. QED
          BY <2>1, <4>1 DEF PipelineInv, TypeOK
      <3>2. CASE ~readable
        BY <2>2, <3>2 DEF RunScan
      <3>3. QED
        BY <3>1, <3>2
    <2>3. CASE row[my[p].art].status # "staged"
      BY <2>1, <2>3 DEF PipelineInv, RunScan
    <2>4. QED
      BY <2>2, <2>3
  <1>0. PICK l \in LocalVars : /\ Keep(p, l) /\ l.art = my[p].art
                               /\ l.ok => row'[my[p].art].status # "staged"
    <2>1. CASE b = TRUE
      <3>1. [my[p] EXCEPT !.ok = TRUE] \in LocalVars
        BY Written DEF PipelineInv, TypeOK
      <3>2. Keep(p, [my[p] EXCEPT !.ok = TRUE])
        BY <1>a, <2>1
      <3>3. QED
        BY <1>a, <2>1, <3>1, <3>2 DEF PipelineInv, LocalVars
    <2>2. CASE b = FALSE
      <3>1. [my[p] EXCEPT !.ok = FALSE] \in LocalVars
        BY Written DEF PipelineInv, TypeOK
      <3>2. Keep(p, [my[p] EXCEPT !.ok = FALSE])
        BY <1>a, <2>2
      <3>3. QED
        BY <3>1, <3>2 DEF PipelineInv, LocalVars
    <2>3. QED
      BY <2>1, <2>2
  <1>b. /\ row' = row \/ /\ row[my[p].art].status = "staged"
                         /\ row' = [row EXCEPT ![my[p].art].status = "scanned"]
        /\ my[p].art \in Arts /\ job[my[p].art] # "none"
        /\ UNCHANGED <<session, declared, attached, staged, job, attempts, blob, ops, crashes,
                       faults>>
    BY DEF PipelineInv, Hands, WorkersDecide, RunScan, Step, WithArtifact, uploads, queue,
           bounds
  <1>c. /\ pc' \in [Procs -> PCs] /\ my' \in [Procs -> LocalVars]
        /\ OthersStand(p) /\ pc'[p] = "complete" /\ my'[p] = l
    <2>1. Goto(p, "complete") /\ "complete" \in PCs
      BY DEF RunScan, Step, PCs
    <2>2. Keep(p, l)
      BY <1>0
    <2>3. QED
      BY <2>1, <2>2, Moved DEF PipelineInv
  <1>1. /\ pc' \in [Procs -> PCs] /\ my' \in [Procs -> LocalVars]
        /\ OthersStand(p)
        /\ pc'[p] = "complete"
        /\ my'[p].art = my[p].art
        /\ my'[p].ok => row'[my[p].art].status # "staged"
    BY <1>0, <1>c
  <1>2. TypeOK'
    <2>1. row' \in [Arts -> [status : RowStatuses,
                             sha : Contents \cup {None}, id : Ids \cup {None}]]
      BY <1>b DEF PipelineInv, TypeOK, RowStatuses
    <2>2. QED
      BY <1>1, <1>b, <2>1 DEF PipelineInv, TypeOK
  <1>3. Hands'
    BY <1>1, <1>b
    DEF PipelineInv, Hands, OthersStand, WithSession, WithArtifact, Uploading, Claiming
  <1>4. SessionFacts'
    BY <1>b DEF PipelineInv, TypeOK, SessionFacts
  <1>5. UploadsAlone'
    BY <1>1, <1>b, UploadsRest DEF PipelineInv, Uploading
  <1>6. ClaimsHeld'
    BY <1>1, <1>b, ClaimsRest DEF PipelineInv, Claiming
  <1>7. Fresh'
    BY <1>1, <1>b, FreshRests DEF PipelineInv, TypeOK
  <1>8. QueueFacts'
    BY <1>b DEF PipelineInv, TypeOK, QueueFacts
  <1>9. WorkersDecide'
    BY <1>1, <1>b
    DEF PipelineInv, TypeOK, Hands, WorkersDecide, QueueFacts, OthersStand, WithArtifact
  <1>10. Lease'
    BY <1>1, <1>b, LeaseRests DEF PipelineInv, TypeOK, Publishing
  <1>11. StagedAsDeclared'
    BY <1>b DEF PipelineInv, TypeOK, StagedAsDeclared
  <1>12. PublishedAsDeclared'
    BY <1>b DEF PipelineInv, TypeOK, PublishedAsDeclared
  <1>13. QED
    BY <1>2, <1>3, <1>4, <1>5, <1>6, <1>7, <1>8, <1>9, <1>10, <1>11, <1>12 DEF PipelineInv

\* The object of a session that was alone goes under its own digest, or was there.
LEMMA CopyToPublishedKeeps ==
  ASSUME PipelineInv, NEW p \in Procs, CopyToPublished(p)
  PROVE  PipelineInv'
  <1>1. /\ pc' \in [Procs -> PCs] /\ my' \in [Procs -> LocalVars]
        /\ OthersStand(p)
        /\ \/ pc'[p] = "idle" /\ UNCHANGED blob
           \/ pc'[p] = "intend" /\ my'[p] = my[p]
    BY Left, WentOn DEF PipelineInv, CopyToPublished, GoOn, PCs
  <1>a. /\ \A c \in Contents : blob[c] # None => blob'[c] = blob[c]
        /\ pc'[p] = "intend" =>
              \A t \in Sessions \ Overlap :
                  attached[t] = my[p].art => blob'[declared[t]] = declared[t]
    <2>1. /\ pc[p] = "copy" /\ my[p].art \in Arts /\ my[p].art # None
          /\ row[my[p].art].status = "scanned"
      BY UploadAssumption
      DEF PipelineInv, CopyToPublished, Hands, Lease, UploadAssumption, WithArtifact,
          Publishing
    <2>2. CASE UNCHANGED blob /\ pc'[p] = "idle"
      BY <2>2
    <2>3. CASE \E s \in SessionsOf(my[p].art) :
                  /\ staged[s] # None /\ blob[row[my[p].art].sha] \in {None, staged[s]}
                  /\ blob' = [blob EXCEPT ![row[my[p].art].sha] = staged[s]]
      <3>1. PICK s \in Sessions :
                  /\ attached[s] = my[p].art
                  /\ staged[s] # None /\ blob[row[my[p].art].sha] \in {None, staged[s]}
                  /\ blob' = [blob EXCEPT ![row[my[p].art].sha] = staged[s]]
        BY <2>3 DEF SessionsOf
      <3>2. /\ row[my[p].art].sha = declared[s] /\ declared[s] \in Contents
            /\ session[s] = "release-claimed"
            /\ \A t \in Sessions : attached[t] = my[p].art => t = s
        BY <2>1, <3>1 DEF PipelineInv, SessionFacts
      <3>3. s \notin Overlap => staged[s] = declared[s]
        BY <2>1, <3>1, <3>2 DEF PipelineInv, StagedAsDeclared
      <3>4. QED
        BY <3>1, <3>2, <3>3 DEF PipelineInv, TypeOK
    <2>4. QED
      <3>1. Leave(p) => pc'[p] = "idle"
        BY Left DEF PipelineInv
      <3>2. QED
        BY <2>2, <2>3, <3>1 DEF CopyToPublished
  <1>2. TypeOK'
    BY <1>1 DEF PipelineInv, TypeOK, CopyToPublished, uploads, queue, bounds, SessionsOf
  <1>3. Hands'
    BY <1>1
    DEF PipelineInv, Hands, CopyToPublished, uploads, queue, SessionsOf, OthersStand,
        Uploading, Claiming, Publishing, WithSession, WithArtifact
  <1>4. SessionFacts'
    BY <1>1 DEF PipelineInv, SessionFacts, CopyToPublished, uploads, queue, SessionsOf
  <1>5. UploadsAlone'
    BY <1>1, UploadsRest DEF PipelineInv, CopyToPublished, uploads, queue, SessionsOf, Uploading
  <1>6. ClaimsHeld'
    BY <1>1, ClaimsRest DEF PipelineInv, CopyToPublished, uploads, queue, SessionsOf, Claiming
  <1>7. Fresh'
    BY <1>1, FreshRests DEF PipelineInv, CopyToPublished, uploads, queue
  <1>8. QueueFacts'
    BY <1>1 DEF PipelineInv, QueueFacts, CopyToPublished, uploads, queue, SessionsOf
  <1>9. WorkersDecide'
    BY <1>1, WorkersRest DEF PipelineInv, CopyToPublished, uploads, queue, SessionsOf
  <1>10. Lease'
    <2>1. UNCHANGED <<declared, attached, row>>
      BY DEF CopyToPublished, uploads
    <2>2. pc[p] \in Publishing
      BY DEF CopyToPublished, Publishing
    <2>3. \A q \in Procs : pc'[q] \in Publishing => q = p /\ pc'[q] = "intend"
      BY <1>1, <2>2 DEF PipelineInv, Lease, OthersStand, Publishing
    <2>4. QED
      BY <1>1, <1>a, <2>1, <2>2, <2>3 DEF PipelineInv, Lease, CopyToPublished
  <1>11. StagedAsDeclared'
    BY <1>1 DEF PipelineInv, StagedAsDeclared, CopyToPublished, uploads, queue, SessionsOf
  <1>12. PublishedAsDeclared'
    <2>1. UNCHANGED <<declared, attached, row>>
      BY DEF CopyToPublished, uploads
    <2>2. \A s \in Sessions : attached[s] # None => declared[s] \in Contents
      BY DEF PipelineInv, SessionFacts
    <2>3. QED
      BY <1>a, <2>1, <2>2, UploadAssumption
      DEF PipelineInv, PublishedAsDeclared, UploadAssumption
  <1>13. QED
    BY <1>2, <1>3, <1>4, <1>5, <1>6, <1>7, <1>8, <1>9, <1>10, <1>11, <1>12 DEF PipelineInv

-----------------------------------------------------------------------------
(* The theorems.                                                            *)

\* Nothing is uploaded, claimed or queued at the start.
LEMMA PipelineInit == Init => PipelineInv
  <1> SUFFICES ASSUME Init PROVE PipelineInv
    OBVIOUS
  <1>1. TypeOK
    BY LocalsTyped, UploadAssumption
    DEF Init, TypeOK, NoRow, SessionStatuses, RowStatuses, JobStatuses, MaxAttempts, PCs,
        UploadAssumption
  <1>2. \A p \in Procs : pc[p] = "idle"
    BY DEF Init
  <1>3. Hands /\ UploadsAlone /\ ClaimsHeld /\ Fresh /\ WorkersDecide /\ Lease
    BY <1>2
    DEF Hands, UploadsAlone, ClaimsHeld, Fresh, WorkersDecide, Lease, WithSession,
        WithArtifact, Uploading, Claiming, Publishing
  <1>4. SessionFacts /\ QueueFacts /\ StagedAsDeclared /\ PublishedAsDeclared
    BY DEF Init, SessionFacts, QueueFacts, StagedAsDeclared, PublishedAsDeclared
  <1>5. QED
    BY <1>1, <1>3, <1>4 DEF PipelineInv

\* A step that changes nothing keeps the invariant.
LEMMA PipelineStutter ==
  ASSUME PipelineInv, UNCHANGED vars
  PROVE  PipelineInv'
  BY DEF vars, uploads, queue, bounds, PipelineInv, TypeOK, Hands, SessionFacts, UploadsAlone,
         ClaimsHeld, Fresh, QueueFacts, WorkersDecide, Lease, StagedAsDeclared,
         PublishedAsDeclared

\* Every step of every process keeps the invariant.
LEMMA PipelineStep == PipelineInv /\ [Next]_vars => PipelineInv'
  <1> SUFFICES ASSUME PipelineInv, [Next]_vars PROVE PipelineInv'
    OBVIOUS
  <1>1. ASSUME NEW p \in Procs, Continue(p) PROVE PipelineInv'
    BY <1>1, PutContentKeeps, PutRefusedKeeps, AcceptContentKeeps, RefuseContentKeeps,
       DropBadKeeps, ClaimCompletedKeeps, InspectPackageKeeps, CreateArtifactKeeps,
       AttachSessionKeeps, EnqueueScanKeeps, RunScanKeeps, CompleteJobKeeps,
       CopyToPublishedKeeps, PersistIntentKeeps, FinalizeKeeps
    DEF Continue
  <1>2. ASSUME NEW p \in Procs, Fail(p) \/ Crash(p) PROVE PipelineInv'
    BY <1>2, FailKeeps, CrashKeeps
  <1>3. ASSUME NEW p \in Procs, NEW s \in Sessions,
               \/ \E c \in Contents : CreateUploadSession(p, s, c)
               \/ ReceiveContent(p, s)
               \/ \E i \in Ids : CreateRelease(p, s, i)
        PROVE  PipelineInv'
    BY <1>3, CreateUploadSessionKeeps, ReceiveContentKeeps, CreateReleaseKeeps
  <1>4. ASSUME NEW p \in Procs, NEW a \in Arts, ClaimNext(p, a) \/ Approve(p, a)
        PROVE  PipelineInv'
    BY <1>4, ClaimNextKeeps, ApproveKeeps
  <1>5. CASE Quiescent \/ UNCHANGED vars
    BY <1>5, PipelineStutter DEF Quiescent
  <1>6. QED
    BY <1>1, <1>2, <1>3, <1>4, <1>5 DEF Next

\* The inductive invariant of uploads, releases, scans and approvals: what each operation
\* has read still stands when it uses it, and bytes are where the tables say.
THEOREM PipelineInvariance == Spec => []PipelineInv
  BY PipelineInit, PipelineStep, PTL DEF Spec

\* Types, the one-shot claim of CreateRelease, and jobs that are done only once their
\* artifact is decided (ClaimCompleted, Jobs.Complete).
THEOREM UploadSafe == Spec => []UploadInv
  <1>1. PipelineInv => UploadInv
    <2> SUFFICES ASSUME PipelineInv PROVE UploadInv
      OBVIOUS
    <2>1. ClaimIsExclusive
      BY DEF PipelineInv, ClaimsHeld, ClaimIsExclusive
    <2>2. DoneMeansDecided
      BY DEF PipelineInv, QueueFacts, DoneMeansDecided
    <2>3. QED
      BY <2>1, <2>2 DEF PipelineInv, UploadInv
  <1>2. QED
    BY <1>1, PipelineInvariance, PTL

\* A release whose session took one upload at a time is published with the bytes that
\* have its declared digest (ReceiveContent, CopyToPublished).
THEOREM PublishedDeclared == Spec => []PublishedAsDeclared
  <1>1. PipelineInv => PublishedAsDeclared
    BY DEF PipelineInv
  <1>2. QED
    BY <1>1, PipelineInvariance, PTL

\* What such a session accepted stays in staging until its artifact is published.
THEOREM AcceptedStays == Spec => []AcceptedUploadStays
  <1>1. PipelineInv => AcceptedUploadStays
    BY UploadAssumption
    DEF PipelineInv, SessionFacts, StagedAsDeclared, AcceptedUploadStays, UploadAssumption
  <1>2. QED
    BY <1>1, PipelineInvariance, PTL

\* What a step may do to a session: a failed or claimed one stays so, an attached
\* artifact stays, and only a new session gets a digest (uploadRepo.Update).
LEMMA SessionStep ==
  ASSUME PipelineInv, Next, NEW s \in Sessions
  PROVE  /\ session[s] \in {"failed", "release-claimed"} => session'[s] = session[s]
         /\ attached[s] # None => attached'[s] = attached[s]
         /\ session'[s] = "release-claimed" => declared'[s] = declared[s]
  <1> DEFINE Settled ==
         /\ session[s] \in {"failed", "release-claimed"} => session'[s] = session[s]
         /\ attached[s] # None => attached'[s] = attached[s]
         /\ session'[s] = "release-claimed" => declared'[s] = declared[s]
  <1>1. ASSUME NEW p \in Procs,
               PutRefused(p) \/ AcceptContent(p) \/ RefuseContent(p) \/ ClaimCompleted(p)
        PROVE  Settled
    <2>1. UNCHANGED <<declared, attached>>
      BY <1>1 DEF PutRefused, AcceptContent, RefuseContent, ClaimCompleted
    <2>2. session[s] \in {"failed", "release-claimed"} => session'[s] = session[s]
      BY <1>1
      DEF PipelineInv, TypeOK, PutRefused, AcceptContent, RefuseContent, ClaimCompleted,
          CanUpdateSession
    <2>3. QED
      BY <2>1, <2>2
  <1>2. ASSUME NEW p \in Procs, AttachSession(p) PROVE Settled
    <2>1. my[p].ses \in Sessions /\ attached[my[p].ses] = None
      BY <1>2 DEF PipelineInv, Hands, ClaimsHeld, AttachSession, WithSession, Claiming
    <2>2. UNCHANGED <<session, declared>>
      BY <1>2 DEF AttachSession
    <2>3. attached[s] # None => attached'[s] = attached[s]
      BY <1>2, <2>1 DEF PipelineInv, TypeOK, AttachSession
    <2>4. QED
      BY <2>2, <2>3
  <1>3. ASSUME NEW p \in Procs, NEW t \in Sessions, NEW c \in Contents,
               CreateUploadSession(p, t, c)
        PROVE  Settled
    BY <1>3 DEF PipelineInv, CreateUploadSession
  <1>4. ASSUME NEW p \in Procs,
               \/ Continue(p) /\ ~(PutRefused(p) \/ AcceptContent(p) \/ RefuseContent(p)
                                   \/ ClaimCompleted(p) \/ AttachSession(p))
               \/ Fail(p) \/ Crash(p)
               \/ \E t \in Sessions : \/ ReceiveContent(p, t)
                                      \/ \E i \in Ids : CreateRelease(p, t, i)
               \/ \E a \in Arts : ClaimNext(p, a) \/ Approve(p, a)
        PROVE  Settled
    <2>1. UNCHANGED uploads
      BY <1>4
      DEF Continue, PutContent, DropBad, InspectPackage, CreateArtifact, EnqueueScan,
          RunScan, CompleteJob, CopyToPublished, PersistIntent, Finalize, Fail, Crash,
          ReceiveContent, CreateRelease, ClaimNext, Approve
    <2>2. QED
      BY <2>1, SMTT(30) DEF uploads
  <1>5. CASE Quiescent
    BY <1>5 DEF Quiescent, vars, uploads
  <1>6. QED
    BY <1>1, <1>2, <1>3, <1>4, <1>5 DEF Next

\* Sessions settle: a failed or claimed session never comes back, and names at most one
\* artifact, of its own digest and for good, whatever stale rows uploads write back.
THEOREM SessionsSettleDown == Spec => SessionsSettle
  <1> DEFINE Settle ==
         \A s \in Sessions :
            /\ session[s] \in {"failed", "release-claimed"} => session'[s] = session[s]
            /\ attached[s] # None => attached'[s] = attached[s]
            /\ attached'[s] # None => row'[attached'[s]].sha = declared[s]
  <1>1. PipelineInv /\ PipelineInv' /\ [Next]_vars => [Settle]_vars
    <2> SUFFICES ASSUME PipelineInv, PipelineInv', Next PROVE Settle
      OBVIOUS
    <2>1. TAKE s \in Sessions
    <2>2. attached'[s] # None =>
             session'[s] = "release-claimed" /\ row'[attached'[s]].sha = declared'[s]
      BY DEF PipelineInv, SessionFacts
    <2>3. QED
      BY <2>2, SessionStep
  <1>2. QED
    BY <1>1, PipelineInvariance, PipelineStep, PTL DEF Spec, SessionsSettle
=============================================================================
