-------------------------- MODULE PublicationProof --------------------------
(***************************************************************************)
(* Theorems about Publication, for any processes, releases and bounds:     *)
(* type correctness; the inductive invariant IInv and what follows from it *)
(* while the publish lease keeps its database session; that the pipeline   *)
(* implements ReleaseRegister; and what holds even when the lease is lost. *)
(***************************************************************************)
EXTENDS Publication, TLAPS

\* The operations a process may have in hand.
OpNames == {"none", "scan", "reject", "approve", "withdraw", "boot"}

\* The locals an operation of the service starts with are well typed.
LEMMA LocalsTyped ==
  ASSUME NEW o \in OpNames, NEW a \in Arts \cup {None}
  PROVE  Locals(o, a) \in LocalVars
  BY DEF Locals, LocalVars, OpNames

\* Keep(p, l) sets the locals of p to l and nobody else's.
LEMMA Kept ==
  ASSUME my \in [Procs -> LocalVars], NEW p \in Procs, NEW l \in LocalVars, Keep(p, l)
  PROVE  /\ my' \in [Procs -> LocalVars]
         /\ my'[p] = l
         /\ \A q \in Procs : q # p => my'[q] = my[q]
  BY DEF Keep

\* Goto(p, there) moves p alone.
LEMMA Went ==
  ASSUME pc \in [Procs -> PCs], NEW p \in Procs, NEW there \in PCs, Goto(p, there)
  PROVE  /\ pc' \in [Procs -> PCs]
         /\ pc'[p] = there
         /\ \A q \in Procs : q # p => pc'[q] = pc[q]
  BY DEF Goto

\* SetStatus, the row update, leaves the table of statuses well typed.
LEMMA SetTyped ==
  ASSUME status \in [Arts -> Statuses], NEW a, NEW s \in Statuses, SetStatus(a, s)
  PROVE  /\ status' \in [Arts -> Statuses]
         /\ a \in Arts => status'[a] = s
         /\ \A b \in Arts : b # a => status'[b] = status[b]
  BY DEF SetStatus

\* A process that leaves its operation is idle with fresh locals.
LEMMA Left ==
  ASSUME TypeOK, NEW p \in Procs, NEW there \in PCs, Leave(p, there)
  PROVE  /\ my' \in [Procs -> LocalVars] /\ pc' \in [Procs -> PCs]
         /\ pc'[p] = there /\ my'[p] = Locals("none", None)
         /\ \A q \in Procs : q # p => pc'[q] = pc[q] /\ my'[q] = my[q]
  BY LocalsTyped, Kept, Went DEF Leave, OpNames, TypeOK

\* An operation that returns an error leaves the process well typed, and idle, or down
\* when it was booting.
LEMMA Aborted ==
  ASSUME TypeOK, NEW p \in Procs, Abort(p)
  PROVE  /\ my' \in [Procs -> LocalVars] /\ pc' \in [Procs -> PCs]
         /\ lease' \in Procs \cup {None}
         /\ pc'[p] \in {"idle", "down"} /\ my'[p] = Locals("none", None)
         /\ \A q \in Procs : q # p => pc'[q] = pc[q] /\ my'[q] = my[q]
         /\ \A q \in Procs : q # p /\ lease = q => lease' = q
  <1>1. {"idle", "down"} \subseteq PCs
    BY DEF PCs
  <1>2. lease' \in Procs \cup {None} /\ \A q \in Procs : q # p /\ lease = q => lease' = q
    BY DEF Abort, Release, TypeOK
  <1>3. PICK there \in {"idle", "down"} : Leave(p, there)
    BY DEF Abort
  <1>4. QED
    BY <1>1, <1>2, <1>3, Left

\* Each field of a process's locals has its type.
LEMMA FieldsTyped ==
  ASSUME NEW l \in LocalVars
  PROVE  /\ l.op \in OpNames /\ l.art \in Arts \cup {None}
         /\ l.want \subseteq Arts /\ l.publishing \subseteq Arts
         /\ l.retiring \subseteq Arts /\ l.ver \in Nat /\ l.tries \in Nat
  BY DEF LocalVars, OpNames

\* Each assignment an operation makes to one of its locals keeps them well typed.
LEMMA UpdatesTyped ==
  ASSUME NEW l \in LocalVars
  PROVE  /\ \A S \in SUBSET Arts :
              /\ [l EXCEPT !.want = S] \in LocalVars
              /\ [l EXCEPT !.publishing = S] \in LocalVars
              /\ [l EXCEPT !.retiring = S] \in LocalVars
              /\ [l EXCEPT !.publishing = S, !.want = @ \cup S] \in LocalVars
         /\ \A a \in Arts \cup {None} : [l EXCEPT !.art = a] \in LocalVars
         /\ \A n \in Nat : [l EXCEPT !.ver = n] \in LocalVars
         /\ [l EXCEPT !.tries = @ + 1] \in LocalVars
  <1>1. ASSUME NEW S \in SUBSET Arts PROVE [l EXCEPT !.want = S] \in LocalVars
    BY DEF LocalVars
  <1>2. ASSUME NEW S \in SUBSET Arts PROVE [l EXCEPT !.publishing = S] \in LocalVars
    BY DEF LocalVars
  <1>3. ASSUME NEW S \in SUBSET Arts PROVE [l EXCEPT !.retiring = S] \in LocalVars
    BY DEF LocalVars
  <1>4. ASSUME NEW S \in SUBSET Arts
        PROVE  [l EXCEPT !.publishing = S, !.want = @ \cup S] \in LocalVars
    <2> DEFINE k == [l EXCEPT !.publishing = S]
    <2>1. k \in LocalVars /\ k.want = l.want
      BY <1>2 DEF LocalVars
    <2>2. [k EXCEPT !.want = l.want \cup S] \in LocalVars
      BY <2>1, FieldsTyped DEF LocalVars
    <2>3. QED
      BY <2>1, <2>2
  <1>5. ASSUME NEW a \in Arts \cup {None} PROVE [l EXCEPT !.art = a] \in LocalVars
    BY DEF LocalVars
  <1>6. ASSUME NEW n \in Nat PROVE [l EXCEPT !.ver = n] \in LocalVars
    BY DEF LocalVars
  <1>7. [l EXCEPT !.tries = @ + 1] \in LocalVars
    BY DEF LocalVars
  <1>8. QED
    BY <1>1, <1>2, <1>3, <1>4, <1>5, <1>6, <1>7

\* The initial rows, objects and locals are well typed.
LEMMA TypeInit == Init => TypeOK
  BY PublicationAssumption
  DEF PublicationAssumption, Init, TypeOK, Locals, LocalVars, Statuses, PCs, Leased

\* Every step of the pipeline preserves the types.
LEMMA TypeStep == TypeOK /\ [Next]_vars => TypeOK'
  <1> SUFFICES ASSUME TypeOK, Next PROVE TypeOK'
    BY DEF TypeOK, vars, dbVars, storeVars, metadataVars, bounds
  <1> USE DEF dbVars, storeVars, metadataVars, bounds
  <1>a. /\ my \in [Procs -> LocalVars] /\ pc \in [Procs -> PCs]
        /\ status \in [Arts -> Statuses]
    BY DEF TypeOK
  <1>b. Statuses = {"staged", "scanned", "publish-pending", "published",
                    "withdraw-pending", "withdrawn", "rejected"}
    BY DEF Statuses
  <1>c. {"idle", "scanning", "dropStaging", "acquire", "down"} \cup Leased \subseteq PCs
    BY DEF PCs
  <1>d. \A p \in Procs : my[p] \in LocalVars
    BY <1>a
  <1>1. ASSUME NEW p \in Procs, Continue(p) PROVE TypeOK'
    <2>1. CASE ScanPasses(p)
      <3>1. my' \in [Procs -> LocalVars] /\ pc' \in [Procs -> PCs]
        <4>1. my[p].art \in Arts \cup {None}
          BY <1>d, FieldsTyped
        <4>2. Locals("approve", my[p].art) \in LocalVars
          BY <4>1, LocalsTyped DEF OpNames
        <4>3. CASE Goto(p, "acquire") /\ Keep(p, Locals("approve", my[p].art))
          BY <4>2, <4>3, <1>a, <1>c, Kept, Went
        <4>4. CASE Leave(p, "idle")
          BY <4>4, <1>c, Left
        <4>5. QED
          BY <2>1, <4>3, <4>4 DEF ScanPasses
      <3>2. status' \in [Arts -> Statuses]
        BY <2>1, <1>a, <1>b, SetTyped DEF ScanPasses
      <3>3. QED
        BY <2>1, <3>1, <3>2 DEF ScanPasses, TypeOK
    <2>2. CASE ScanRefuses(p)
      <3>1. status' \in [Arts -> Statuses]
        BY <2>2, <1>a, <1>b, SetTyped DEF ScanRefuses
      <3>2. faults' \in 0..MaxFaults
        BY <2>2, PublicationAssumption DEF ScanRefuses, TypeOK, PublicationAssumption
      <3>3. QED
        BY <2>2, <3>1, <3>2, <1>a, <1>c, Went DEF ScanRefuses, GoOn, TypeOK
    <2>3. CASE ScanFindsNothing(p)
      BY <2>3, <1>c, Left DEF ScanFindsNothing, TypeOK
    <2>4. CASE DropStaging(p)
      BY <2>4, <1>c, Left DEF DropStaging, TypeOK
    <2>5. CASE Acquire(p)
      BY <2>5, <1>a, <1>c, Went DEF Acquire, Step, TypeOK, Leased
    <2>6. CASE DecideApprove(p)
      BY <2>6, <1>a, <1>c, Went, Aborted DEF DecideApprove, GoOn, TypeOK, Leased
    <2>7. CASE DecideWithdraw(p)
      BY <2>7, <1>a, <1>c, Went, Aborted DEF DecideWithdraw, GoOn, TypeOK, Leased
    <2>8. CASE CopyToPublished(p)
      BY <2>8, <1>a, <1>c, Went, Aborted DEF CopyToPublished, GoOn, TypeOK, Leased
    <2>9. CASE PersistPublishIntent(p)
      <3>1. status' \in [Arts -> Statuses]
        BY <2>9, <1>a, <1>b, SetTyped DEF PersistPublishIntent
      <3>2. reviewed' \in [Arts -> BOOLEAN]
        BY <2>9 DEF PersistPublishIntent, TypeOK
      <3>3. QED
        BY <2>9, <3>1, <3>2, <1>a, <1>c, Went, Aborted
        DEF PersistPublishIntent, GoOn, TypeOK, Leased
    <2>10. CASE PersistWithdrawIntent(p)
      <3>1. status' \in [Arts -> Statuses]
        BY <2>10, <1>a, <1>b, SetTyped DEF PersistWithdrawIntent
      <3>2. QED
        BY <2>10, <3>1, <1>a, <1>c, Went, Aborted
        DEF PersistWithdrawIntent, GoOn, TypeOK, Leased
    <2>11. CASE ListPublished(p)
      <3>1. my' \in [Procs -> LocalVars]
        BY <2>11, <1>a, <1>d, UpdatesTyped, Kept DEF ListPublished, WithStatus
      <3>2. QED
        BY <2>11, <3>1, <1>a, <1>c, Went DEF ListPublished, Step, TypeOK, Leased
    <2>12. CASE ListPublishing(p)
      <3>1. my' \in [Procs -> LocalVars]
        BY <2>12, <1>a, <1>d, UpdatesTyped, Kept DEF ListPublishing, WithStatus
      <3>2. QED
        BY <2>12, <3>1, <1>a, <1>c, Went DEF ListPublishing, Step, TypeOK, Leased
    <2>13. CASE ListRetiring(p)
      <3>1. [my[p] EXCEPT !.retiring = WithStatus("withdraw-pending")] \in LocalVars
        BY <1>d, UpdatesTyped DEF WithStatus
      <3>2. my' \in [Procs -> LocalVars] /\ pc' \in [Procs -> PCs]
        BY <2>13, <3>1, <1>a, <1>c, Kept, Went, Aborted DEF ListRetiring, Leased
      <3>3. lease' \in Procs \cup {None}
        BY <2>13, Aborted DEF ListRetiring, TypeOK
      <3>4. QED
        BY <2>13, <3>2, <3>3 DEF ListRetiring, TypeOK
    <2>14. CASE NextVersion(p)
      <3>1. \A n \in Nat : [my[p] EXCEPT !.ver = n] \in LocalVars
        BY <1>d, UpdatesTyped
      <3>2. CASE lease = p
        <4>1. PICK candidate \in Candidates :
                /\ lastVersion' \in {candidate, lastVersion + 1}
                /\ Keep(p, [my[p] EXCEPT !.ver = lastVersion'])
                /\ Goto(p, "putTargets") /\ UNCHANGED lease
          BY <2>14, <3>2 DEF NextVersion
        <4>2. lastVersion' \in Nat \ {0}
          BY <4>1, PublicationAssumption DEF PublicationAssumption, TypeOK
        <4>3. my' \in [Procs -> LocalVars] /\ pc' \in [Procs -> PCs]
          BY <4>1, <4>2, <3>1, <1>a, <1>c, Kept, Went DEF Leased
        <4>4. QED
          BY <2>14, <4>1, <4>2, <4>3 DEF NextVersion, TypeOK
      <3>3. CASE lease # p
        BY <2>14, <3>3, Aborted DEF NextVersion, TypeOK
      <3>4. QED
        BY <3>2, <3>3
    <2>15. CASE PutTargets(p)
      <3>1. my' \in [Procs -> LocalVars] /\ pc' \in [Procs -> PCs]
              /\ lease' \in Procs \cup {None}
        BY <2>15, <1>a, <1>c, <1>d, UpdatesTyped, Kept, Went, Aborted
        DEF PutTargets, Conflict, GoOn, TypeOK, Leased
      <3>2. DOMAIN targetsAt' \subseteq Nat
        BY <2>15, <1>d, FieldsTyped DEF PutTargets, Added, TypeOK
      <3>3. QED
        BY <2>15, <3>1, <3>2 DEF PutTargets, TypeOK
    <2>16. CASE PutSnapshot(p)
      <3>1. my' \in [Procs -> LocalVars] /\ pc' \in [Procs -> PCs]
              /\ lease' \in Procs \cup {None}
        BY <2>16, <1>a, <1>c, <1>d, UpdatesTyped, Kept, Went, Aborted
        DEF PutSnapshot, Conflict, GoOn, TypeOK, Leased
      <3>2. DOMAIN snapshotAt' \subseteq Nat
        BY <2>16, <1>d, FieldsTyped DEF PutSnapshot, Added, TypeOK
      <3>3. QED
        BY <2>16, <3>1, <3>2 DEF PutSnapshot, TypeOK
    <2>18. CASE \E a \in Arts : ClearStaging(p, a) \/ ConfirmWithdrawn(p, a)
      <3> PICK a \in Arts : ClearStaging(p, a) \/ ConfirmWithdrawn(p, a)
        BY <2>18
      <3>1. CASE ClearStaging(p, a)
        <4>1. my' \in [Procs -> LocalVars]
          BY <3>1, <1>a, <1>d, UpdatesTyped, Kept DEF ClearStaging
        <4>2. QED
          BY <3>1, <4>1, <1>a, <1>c, Went DEF ClearStaging, Step, TypeOK, Leased
      <3>2. CASE ConfirmWithdrawn(p, a)
        <4>1. [my[p] EXCEPT !.retiring = my[p].retiring \ {a}] \in LocalVars
          BY <1>d, UpdatesTyped, FieldsTyped
        <4>2. my' \in [Procs -> LocalVars] /\ pc' \in [Procs -> PCs]
                /\ lease' \in Procs \cup {None}
          BY <3>2, <4>1, <1>a, Kept, Aborted DEF ConfirmWithdrawn, TypeOK
        <4>3. status' \in [Arts -> Statuses]
          BY <3>2, <1>a, <1>b, SetTyped DEF ConfirmWithdrawn
        <4>4. QED
          BY <3>2, <4>2, <4>3 DEF ConfirmWithdrawn, TypeOK
      <3>3. QED
        BY <3>1, <3>2
    <2>19. CASE ConfirmPublished(p)
      <3>1. [my[p] EXCEPT !.publishing = my[p].publishing \ {my[p].art}] \in LocalVars
        BY <1>d, UpdatesTyped, FieldsTyped
      <3>2. my' \in [Procs -> LocalVars] /\ pc' \in [Procs -> PCs]
              /\ lease' \in Procs \cup {None}
        BY <2>19, <3>1, <1>a, <1>c, Kept, Went, Aborted DEF ConfirmPublished, TypeOK, Leased
      <3>3. status' \in [Arts -> Statuses]
        BY <2>19, <1>a, <1>b, SetTyped DEF ConfirmPublished
      <3>4. QED
        BY <2>19, <3>2, <3>3 DEF ConfirmPublished, TypeOK
    <2>20. CASE Finish(p)
      BY <2>20, <1>c, Left DEF Finish, Release, TypeOK
    <2>21. CASE Boot(p)
      <3>1. Locals("boot", None) \in LocalVars
        BY LocalsTyped DEF OpNames
      <3>2. my' \in [Procs -> LocalVars] /\ pc' \in [Procs -> PCs]
        BY <2>21, <3>1, <1>a, <1>c, Kept, Went DEF Boot
      <3>3. QED
        BY <2>21, <3>2 DEF Boot, TypeOK
    <2>22. CASE PutTimestamp(p)
      <3>1. my[p].ver \in Nat /\ my[p].want \subseteq Arts
        BY <1>d, FieldsTyped
      <3>2. QED
        BY <2>22, <3>1, <1>a, <1>c, Went DEF PutTimestamp, Step, TypeOK, Leased
    <2>23. QED
      BY <1>1, <2>1, <2>2, <2>3, <2>4, <2>5, <2>6, <2>7, <2>8, <2>9, <2>10, <2>11, <2>12,
         <2>13, <2>14, <2>15, <2>16, <2>18, <2>19, <2>20, <2>21, <2>22 DEF Continue
  <1>2. ASSUME NEW p \in Procs, Fail(p) PROVE TypeOK'
    BY <1>2, Aborted, PublicationAssumption DEF Fail, TypeOK, PublicationAssumption
  <1>3. ASSUME NEW p \in Procs, Crash(p) PROVE TypeOK'
    BY <1>3, <1>c, Left, PublicationAssumption DEF Crash, Release, TypeOK, PublicationAssumption
  <1>4. ASSUME NEW p \in Procs, DropLease(p) PROVE TypeOK'
    BY <1>4 DEF DropLease, TypeOK
  <1>5. ASSUME NEW p \in Procs, NEW a \in Arts,
               StartScan(p, a) \/ Reject(p, a) \/ Approve(p, a) \/ Withdraw(p, a)
        PROVE TypeOK'
    <2>1. PICK o \in OpNames, there \in {"scanning", "dropStaging", "acquire"} :
            Begin(p, o, a, there)
      BY <1>5 DEF StartScan, Reject, Approve, Withdraw, OpNames
    <2>2. /\ my' \in [Procs -> LocalVars] /\ pc' \in [Procs -> PCs]
          /\ ops' \in 0..MaxOps
      BY <2>1, <1>a, <1>c, LocalsTyped, Kept, Went, PublicationAssumption
      DEF Begin, Step, TypeOK, PublicationAssumption
    <2>3. status' \in [Arts -> Statuses]
      BY <1>5, <1>a, <1>b, SetTyped DEF StartScan, Reject, Approve, Withdraw
    <2>4. QED
      BY <1>5, <2>1, <2>2, <2>3 DEF Begin, StartScan, Reject, Approve, Withdraw, TypeOK
  <1>6. CASE Quiescent
    BY <1>6 DEF Quiescent, vars, TypeOK
  <1>7. QED
    BY <1>1, <1>2, <1>3, <1>4, <1>5, <1>6 DEF Next

\* Type correctness of the whole pipeline: in every reachable state, rows, objects,
\* metadata and locals have their shape, whatever failed or crashed before.
THEOREM TypeCorrect == Spec => []TypeOK
  BY TypeInit, TypeStep, PTL DEF Spec

-----------------------------------------------------------------------------
(* The inductive invariant, for a lease that its holder keeps.              *)

Reached == {"publish-pending", "published", "withdraw-pending"}

\* What a step of process p leaves alone in the other processes.
OthersStand(p) == \A q \in Procs : q # p => pc'[q] = pc[q] /\ my'[q] = my[q]

\* Outside the leased section a process only relies on the artifact it has in hand.
LEMMA Outside ==
  ASSUME NEW q \in Procs, ProcessInv(q), pc[q] \notin Leased,
         pc'[q] = pc[q], my'[q] = my[q], lease' # q
  PROVE  ProcessInv(q)'
  BY DEF ProcessInv, Leased, Holding, InHand, ReadsAreCurrent, WritesAreNewer,
         FinalizesWhatIsListed

\* A step of the lease holder, or one taken while nobody holds the lease, only has
\* to establish the shared part and its own part.
LEMMA HolderStep ==
  ASSUME IInv, TypeOK', NEW p \in Procs, lease \in {p, None}, lease' \in {p, None},
         OthersStand(p), SharedInv', ProcessInv(p)'
  PROVE  IInv'
  <1>1. ASSUME NEW q \in Procs, q # p PROVE ProcessInv(q)'
    <2>1. pc[q] \notin Leased /\ lease' # q
      BY <1>1, PublicationAssumption DEF PublicationAssumption, IInv, ProcessInv, Holding
    <2>2. QED
      BY <1>1, <2>1, Outside DEF IInv, OthersStand
  <1>2. QED
    BY <1>1 DEF IInv

\* A step outside the leased section keeps what the lease holder has read.
LEMMA OutsiderStep ==
  ASSUME IInv, TypeOK', NEW p \in Procs, pc[p] \notin Leased, OthersStand(p),
         pc'[p] \notin Leased, InHand(p)',
         UNCHANGED <<lease, lastVersion, reviewed, blobs, metadataVars>>,
         \A s \in Reached : WithStatus(s)' = WithStatus(s)
  PROVE  IInv'
  <1> USE DEF metadataVars, Reached
  <1>1. SharedInv'
    <2>1. \A a \in Arts : status'[a] \in Reached <=> status[a] \in Reached
      BY DEF WithStatus
    <2>2. Listed \subseteq Arts
      BY DEF IInv, TypeOK, Listed
    <2>3. MetadataMatchesStatus'
      BY <2>1, <2>2 DEF IInv, SharedInv, MetadataMatchesStatus, Listed, WithStatus
    <2>4. IntentsAreServable'
      BY <2>1 DEF IInv, SharedInv, IntentsAreServable
    <2>5. QED
      BY <2>3, <2>4 DEF IInv, SharedInv, ConsistentSnapshot, Listed
  <1>2. ProcessInv(p)'
    BY DEF IInv, ProcessInv, Leased, Holding, ReadsAreCurrent, WritesAreNewer,
           FinalizesWhatIsListed
  <1>3. ASSUME NEW q \in Procs, q # p, pc[q] \in Leased PROVE ProcessInv(q)'
    <2>1. pc'[q] = pc[q] /\ my'[q] = my[q] /\ lease = q /\ lease' = q
      BY <1>3 DEF OthersStand, IInv, ProcessInv, Holding
    <2>2. ProcessInv(q)
      BY DEF IInv
    <2>3. ReadsAreCurrent(q)'
      BY <2>1, <2>2 DEF ProcessInv, ReadsAreCurrent
    <2>4. WritesAreNewer(q)' /\ Holding(q)' /\ InHand(q)'
      BY <2>1, <2>2 DEF ProcessInv, WritesAreNewer, Holding, InHand
    <2>5. FinalizesWhatIsListed(q)'
      BY <2>1, <2>2 DEF ProcessInv, FinalizesWhatIsListed, Listed
    <2>6. QED
      BY <2>3, <2>4, <2>5 DEF ProcessInv
  <1>4. ASSUME NEW q \in Procs, q # p, pc[q] \notin Leased PROVE ProcessInv(q)'
    BY <1>4, Outside DEF OthersStand, IInv, ProcessInv, Holding
  <1>5. QED
    BY <1>1, <1>2, <1>3, <1>4 DEF IInv

\* The shared part only reads the rows, the objects and the version counter.
LEMMA SharedStands ==
  ASSUME SharedInv, UNCHANGED <<dbVars, blobs, metadataVars>>
  PROVE  SharedInv'
  BY DEF SharedInv, MetadataMatchesStatus, IntentsAreServable, ConsistentSnapshot, Listed,
         WithStatus, dbVars, metadataVars

\* A process with nothing to do needs nothing.
LEMMA Resting ==
  ASSUME NEW p \in Procs, pc[p] \in {"idle", "down"}, lease # p
  PROVE  ProcessInv(p)
  BY DEF ProcessInv, Leased, Holding, InHand, ReadsAreCurrent, WritesAreNewer,
         FinalizesWhatIsListed

\* An operation that returns an error under the lease frees it and keeps the invariant.
LEMMA AbortStep ==
  ASSUME IInv, TypeOK', NEW p \in Procs, pc[p] \in Leased, Abort(p),
         UNCHANGED <<dbVars, blobs, metadataVars>>
  PROVE  IInv'
  <1>1. pc'[p] \in {"idle", "down"} /\ OthersStand(p)
    BY Aborted DEF IInv, OthersStand
  <1>2. lease = p /\ lease' = None
    BY DEF IInv, ProcessInv, Holding, Abort, Release
  <1>3. ProcessInv(p)'
    BY <1>1, <1>2, PublicationAssumption
    DEF PublicationAssumption, ProcessInv, Leased, Holding, InHand, ReadsAreCurrent,
        WritesAreNewer, FinalizesWhatIsListed
  <1>4. QED
    BY <1>1, <1>2, <1>3, HolderStep, SharedStands DEF IInv

\* The invariant holds when the servers start over staged and legacy rows.
LEMMA IInvInit == Init => IInv
  <1> SUFFICES ASSUME Init PROVE IInv
    OBVIOUS
  <1>1. TypeOK
    BY TypeInit
  <1>2. SharedInv
    <2>1. 1 \in DOMAIN targetsAt /\ targetsAt[1] = Legacy /\ snapshotAt = targetsAt
      BY PublicationAssumption DEF PublicationAssumption, Init
    <2>2. timestamp.ver = 1 /\ Listed = Legacy /\ lastVersion = 1
      BY DEF Init, Listed
    <2>3. \A a \in Arts : status[a] = IF a \in Legacy THEN "published" ELSE "staged"
      BY DEF Init
    <2>4. Legacy \subseteq Arts /\ \A a \in Legacy : a \in blobs /\ reviewed[a]
      BY PublicationAssumption DEF PublicationAssumption, Init
    <2>5. MetadataMatchesStatus /\ IntentsAreServable
      BY <2>2, <2>3, <2>4 DEF MetadataMatchesStatus, IntentsAreServable, WithStatus
    <2>6. QED
      BY <2>1, <2>2, <2>5 DEF SharedInv, ConsistentSnapshot
  <1>3. \A q \in Procs : ProcessInv(q)
    BY Resting, PublicationAssumption DEF PublicationAssumption, Init
  <1>4. QED
    BY <1>1, <1>2, <1>3 DEF IInv

\* A row that moves among the states before the intent leaves every intent alone.
LEMMA EarlyMove ==
  ASSUME status \in [Arts -> Statuses], NEW a \in Arts, NEW s \in {"scanned", "rejected"},
         SetStatus(a, s), CanTransitionArtifactStatus(status[a], s)
  PROVE  \A r \in Reached : WithStatus(r)' = WithStatus(r)
  <1>1. status[a] \in {"staged", "scanned", "rejected"}
    BY DEF CanTransitionArtifactStatus
  <1>2. status'[a] = s /\ \A b \in Arts : b # a => status'[b] = status[b]
    BY DEF SetStatus
  <1>3. QED
    BY <1>1, <1>2 DEF WithStatus, Reached

\* Scans, rejections, boots and the start of any operation: steps of a process that
\* does not hold the lease.
LEMMA OutsideSteps ==
  ASSUME IInv, TypeOK', NEW p \in Procs,
         \/ ScanPasses(p) \/ ScanRefuses(p) \/ ScanFindsNothing(p) \/ DropStaging(p) \/ Boot(p)
         \/ \E a \in Arts : StartScan(p, a) \/ Reject(p, a) \/ Approve(p, a) \/ Withdraw(p, a)
  PROVE  IInv'
  <1> USE DEF dbVars, storeVars, metadataVars
  <1>a. /\ status \in [Arts -> Statuses] /\ pc \in [Procs -> PCs] /\ my \in [Procs -> LocalVars]
        /\ TypeOK /\ InHand(p) /\ lease \in Procs \cup {None} /\ Holding(p)
    BY DEF IInv, TypeOK, ProcessInv
  <1>b. {"idle", "scanning", "dropStaging", "acquire", "down"} \cup Leased \subseteq PCs
    BY DEF PCs
  <1>c. \A o \in OpNames, a \in Arts \cup {None} :
          /\ Locals(o, a) \in LocalVars /\ Locals(o, a).art = a /\ Locals(o, a).op = o
    BY LocalsTyped DEF Locals
  <1>1. CASE ScanPasses(p)
    <2> DEFINE a == my[p].art
    <2>1. a \in Arts /\ pc[p] \notin Leased
      BY <1>1, <1>a DEF ScanPasses, InHand, Leased
    <2>2. \A s \in Reached : WithStatus(s)' = WithStatus(s)
      BY <1>1, <1>a, <2>1, EarlyMove DEF ScanPasses, WithStatus
    <2>3. /\ OthersStand(p) /\ pc'[p] \in {"idle", "acquire"}
          /\ pc'[p] = "acquire" => my'[p].art \in Arts
      <3>1. CASE Goto(p, "acquire") /\ Keep(p, Locals("approve", a))
        BY <3>1, <2>1, <1>a, <1>b, <1>c, Kept, Went DEF OpNames, OthersStand
      <3>2. CASE Leave(p, "idle")
        BY <3>2, <1>a, <1>b, Left DEF OthersStand
      <3>3. QED
        BY <1>1, <3>1, <3>2 DEF ScanPasses
    <2>4. InHand(p)' /\ pc'[p] \notin Leased
      BY <2>3 DEF InHand, Leased
    <2>6. QED
      BY <1>1, <2>1, <2>2, <2>3, <2>4, OutsiderStep DEF ScanPasses
  <1>2. CASE ScanRefuses(p)
    <2> DEFINE a == my[p].art
    <2>1. a \in Arts /\ pc[p] \notin Leased
      BY <1>2, <1>a DEF ScanRefuses, InHand, Leased
    <2>2. \A s \in Reached : WithStatus(s)' = WithStatus(s)
      BY <1>2, <1>a, <2>1, EarlyMove DEF ScanRefuses, WithStatus
    <2>3. OthersStand(p) /\ pc'[p] = "dropStaging" /\ my'[p].art \in Arts /\ UNCHANGED lease
      BY <1>2, <1>a, <1>b, <2>1, Went DEF ScanRefuses, GoOn, OthersStand
    <2>4. QED
      BY <1>2, <2>1, <2>2, <2>3, OutsiderStep DEF ScanRefuses, InHand, Leased
  <1>3. CASE ScanFindsNothing(p) \/ DropStaging(p)
    <2>1. OthersStand(p) /\ pc'[p] = "idle" /\ pc[p] \notin Leased
      BY <1>3, <1>a, <1>b, Left DEF ScanFindsNothing, DropStaging, Leased, OthersStand
    <2>2. QED
      BY <1>3, <2>1, OutsiderStep
      DEF ScanFindsNothing, DropStaging, InHand, Leased, WithStatus
  <1>4. CASE Boot(p)
    <2>1. OthersStand(p) /\ pc[p] \notin Leased
      BY <1>4, <1>a, <1>b, <1>c, Kept, Went DEF Boot, Leased, OthersStand, OpNames
    <2>2. pc'[p] \notin Leased /\ InHand(p)'
      BY <1>4, <1>a, <1>b, <1>c, Kept, Went DEF Boot, Leased, InHand, OpNames
    <2>3. QED
      BY <1>4, <2>1, <2>2, OutsiderStep DEF Boot, WithStatus
  <1>5. ASSUME NEW a \in Arts,
               StartScan(p, a) \/ Reject(p, a) \/ Approve(p, a) \/ Withdraw(p, a)
        PROVE  IInv'
    <2>1. PICK o \in OpNames, there \in {"scanning", "dropStaging", "acquire"} :
            Begin(p, o, a, there)
      BY <1>5 DEF StartScan, Reject, Approve, Withdraw, OpNames
    <2>2. /\ OthersStand(p) /\ pc[p] = "idle" /\ pc'[p] = there
          /\ my'[p].art \in Arts
      BY <2>1, <1>a, <1>b, <1>c, Kept, Went DEF Begin, Step, OthersStand
    <2>3. \A s \in Reached : WithStatus(s)' = WithStatus(s)
      BY <1>5, <1>a, EarlyMove DEF StartScan, Reject, Approve, Withdraw, WithStatus
    <2>4. QED
      BY <1>5, <2>2, <2>3, OutsiderStep
      DEF StartScan, Reject, Approve, Withdraw, InHand, Leased
  <1>6. QED
    BY <1>1, <1>2, <1>3, <1>4, <1>5

\* Under the lease: what the process must establish when it only moves on.
LEMMA DecideSteps ==
  ASSUME IInv, TypeOK', NEW p \in Procs,
         \/ Acquire(p) \/ DecideApprove(p) \/ DecideWithdraw(p)
         \/ CopyToPublished(p) \/ PersistPublishIntent(p) \/ PersistWithdrawIntent(p)
  PROVE  IInv'
  <1> USE DEF dbVars, storeVars, metadataVars
  <1>a. /\ status \in [Arts -> Statuses] /\ pc \in [Procs -> PCs] /\ my \in [Procs -> LocalVars]
        /\ TypeOK /\ InHand(p) /\ lease \in Procs \cup {None} /\ Holding(p) /\ SharedInv
        /\ staging \subseteq Arts /\ blobs \subseteq Arts /\ reviewed \in [Arts -> BOOLEAN]
    BY DEF IInv, TypeOK, ProcessInv
  <1>b. {"idle", "scanning", "dropStaging", "acquire", "down"} \cup Leased \subseteq PCs
    BY DEF PCs
  <1>1. CASE Acquire(p)
    <2>1. /\ OthersStand(p) /\ my'[p] = my[p] /\ lease' = p
          /\ pc'[p] = IF my[p].op = "boot" THEN "listPublished" ELSE "decide"
      BY <1>1, <1>a, <1>b, Went DEF Acquire, Step, OthersStand, Leased
    <2>2. ProcessInv(p)'
      BY <2>1, <1>1, <1>a DEF Acquire, Step, ProcessInv, Leased, Holding, InHand,
         ReadsAreCurrent, WritesAreNewer, FinalizesWhatIsListed
    <2>3. QED
      BY <1>1, <2>1, <2>2, <1>a, SharedStands, HolderStep DEF Acquire
  <1>2. CASE DecideApprove(p) \/ DecideWithdraw(p)
    <2>1. pc[p] = "decide" /\ pc[p] \in Leased /\ UNCHANGED <<dbVars, blobs, metadataVars>>
      BY <1>2 DEF DecideApprove, DecideWithdraw, Leased
    <2>2. CASE Abort(p)
      BY <2>1, <2>2, AbortStep
    <2>3. ASSUME NEW there \in {"copy", "retire", "listPublished"}, GoOn(p, there) PROVE IInv'
      <3>1. OthersStand(p) /\ my' = my /\ lease' = lease /\ lease = p /\ pc'[p] = there
        BY <2>1, <2>3, <1>a, <1>b, Went DEF GoOn, OthersStand, Leased, Holding
      <3>2. ProcessInv(p)'
        BY <2>1, <3>1, <1>a DEF ProcessInv, Leased, Holding, InHand,
           ReadsAreCurrent, WritesAreNewer, FinalizesWhatIsListed
      <3>3. QED
        BY <2>1, <3>1, <3>2, <1>a, SharedStands, HolderStep
    <2>4. QED
      BY <1>2, <2>2, <2>3 DEF DecideApprove, DecideWithdraw
  <1>3. CASE CopyToPublished(p)
    <2>1. pc[p] = "copy" /\ pc[p] \in Leased
      BY <1>3 DEF CopyToPublished, Leased
    <2>2. CASE UNCHANGED blobs /\ Abort(p)
      BY <1>3, <2>1, <2>2, AbortStep DEF CopyToPublished
    <2>3. CASE blobs' = blobs \cup {my[p].art} /\ GoOn(p, "intend") /\ my[p].art \in staging
      <3>1. OthersStand(p) /\ my' = my /\ lease' = lease /\ lease = p /\ pc'[p] = "intend"
        BY <2>1, <2>3, <1>a, <1>b, Went DEF GoOn, OthersStand, Leased, Holding
      <3>2. ProcessInv(p)'
        BY <2>3, <3>1, <1>a DEF ProcessInv, Leased, Holding, InHand,
           ReadsAreCurrent, WritesAreNewer, FinalizesWhatIsListed
      <3>3. SharedInv'
        BY <1>3, <2>3, <1>a DEF CopyToPublished, SharedInv, MetadataMatchesStatus,
           IntentsAreServable, ConsistentSnapshot, Listed, WithStatus
      <3>4. QED
        BY <3>1, <3>2, <3>3, HolderStep
    <2>4. QED
      BY <1>3, <2>2, <2>3 DEF CopyToPublished
  <1>4. CASE PersistPublishIntent(p)
    <2> DEFINE a == my[p].art
    <2>1. pc[p] = "intend" /\ pc[p] \in Leased /\ a \in Arts /\ a \in blobs
      BY <1>4, <1>a DEF PersistPublishIntent, Leased, InHand
    <2>2. CASE UNCHANGED <<status, reviewed>> /\ Abort(p)
      BY <1>4, <2>1, <2>2, AbortStep DEF PersistPublishIntent
    <2>3. CASE /\ CanTransitionArtifactStatus(status[a], "publish-pending")
               /\ SetStatus(a, "publish-pending")
               /\ reviewed' = [reviewed EXCEPT ![a] = TRUE]
               /\ GoOn(p, "listPublished")
      <3>1. OthersStand(p) /\ my' = my /\ lease' = lease /\ lease = p /\ pc'[p] = "listPublished"
        BY <2>1, <2>3, <1>a, <1>b, Went DEF GoOn, OthersStand, Leased, Holding
      <3>2. ProcessInv(p)'
        BY <3>1 DEF ProcessInv, Leased, Holding, InHand,
           ReadsAreCurrent, WritesAreNewer, FinalizesWhatIsListed
      <3>3. /\ status[a] \in {"scanned", "publish-pending"} /\ status'[a] = "publish-pending"
            /\ \A b \in Arts : b # a => status'[b] = status[b]
        BY <2>3, <1>a, <2>1 DEF CanTransitionArtifactStatus, SetStatus
      <3>4. MetadataMatchesStatus'
        BY <1>4, <3>3, <1>a DEF PersistPublishIntent, SharedInv, MetadataMatchesStatus,
           Listed, WithStatus, TypeOK
      <3>5. IntentsAreServable'
        BY <1>4, <2>1, <2>3, <3>3, <1>a DEF PersistPublishIntent, SharedInv, IntentsAreServable
      <3>6. SharedInv'
        BY <1>4, <3>4, <3>5, <1>a DEF PersistPublishIntent, SharedInv, ConsistentSnapshot, Listed
      <3>7. QED
        BY <3>1, <3>2, <3>6, HolderStep
    <2>4. QED
      BY <1>4, <2>2, <2>3 DEF PersistPublishIntent
  <1>5. CASE PersistWithdrawIntent(p)
    <2> DEFINE a == my[p].art
    <2>1. pc[p] = "retire" /\ pc[p] \in Leased /\ a \in Arts
      BY <1>5, <1>a DEF PersistWithdrawIntent, Leased, InHand
    <2>2. CASE UNCHANGED status /\ Abort(p)
      BY <1>5, <2>1, <2>2, AbortStep DEF PersistWithdrawIntent
    <2>3. CASE /\ CanTransitionArtifactStatus(status[a], "withdraw-pending")
               /\ SetStatus(a, "withdraw-pending")
               /\ GoOn(p, "listPublished")
      <3>1. OthersStand(p) /\ my' = my /\ lease' = lease /\ lease = p /\ pc'[p] = "listPublished"
        BY <2>1, <2>3, <1>a, <1>b, Went DEF GoOn, OthersStand, Leased, Holding
      <3>2. ProcessInv(p)'
        BY <3>1 DEF ProcessInv, Leased, Holding, InHand,
           ReadsAreCurrent, WritesAreNewer, FinalizesWhatIsListed
      <3>3. /\ status[a] \in {"published", "withdraw-pending"} /\ status'[a] = "withdraw-pending"
            /\ \A b \in Arts : b # a => status'[b] = status[b]
        BY <2>3, <1>a, <2>1 DEF CanTransitionArtifactStatus, SetStatus
      <3>4. MetadataMatchesStatus'
        BY <1>5, <3>3, <1>a DEF PersistWithdrawIntent, SharedInv, MetadataMatchesStatus,
           Listed, WithStatus, TypeOK
      <3>5. IntentsAreServable'
        BY <1>5, <2>1, <2>3, <3>3, <1>a DEF PersistWithdrawIntent, SharedInv, IntentsAreServable
      <3>6. SharedInv'
        BY <1>5, <3>4, <3>5, <1>a DEF PersistWithdrawIntent, SharedInv, ConsistentSnapshot, Listed
      <3>7. QED
        BY <3>1, <3>2, <3>6, HolderStep
    <2>4. QED
      BY <1>5, <2>2, <2>3 DEF PersistWithdrawIntent
  <1>6. QED
    BY <1>1, <1>2, <1>3, <1>4, <1>5

\* The three reads of publishMetadataLocked agree with the rows, because no other
\* process changes what they select.
LEMMA ListSteps ==
  ASSUME IInv, TypeOK', NEW p \in Procs,
         ListPublished(p) \/ ListPublishing(p) \/ ListRetiring(p)
  PROVE  IInv'
  <1> USE DEF dbVars, storeVars, metadataVars
  <1>a. /\ pc \in [Procs -> PCs] /\ my \in [Procs -> LocalVars] /\ my[p] \in LocalVars
        /\ SharedInv /\ Holding(p) /\ ReadsAreCurrent(p)
    BY DEF IInv, TypeOK, ProcessInv
  <1>b. {"listPublishing", "listRetiring", "version"} \subseteq PCs \cap Leased
    BY DEF PCs, Leased
  <1>c. \A s : WithStatus(s) \subseteq Arts
    BY DEF WithStatus
  <1>1. pc[p] \in Leased /\ lease = p
    BY <1>a DEF ListPublished, ListPublishing, ListRetiring, Step, Leased, Holding
  <1>2. CASE ListPublished(p)
    <2> DEFINE l == [my[p] EXCEPT !.want = WithStatus("published")]
    <2>1. l \in LocalVars /\ l.want = WithStatus("published")
      <3>1. l \in LocalVars
        BY <1>a, <1>c, UpdatesTyped
      <3>2. "want" \in DOMAIN my[p]
        BY <1>a DEF LocalVars
      <3>3. QED
        BY <3>1, <3>2
    <2>2. OthersStand(p) /\ pc'[p] = "listPublishing" /\ my'[p] = l /\ lease' = lease
      BY <1>2, <1>a, <1>b, <2>1, Kept, Went DEF ListPublished, Step, OthersStand
    <2>3. SharedInv' /\ WithStatus("published")' = WithStatus("published")
      BY <1>2, <1>a, SharedStands DEF ListPublished, WithStatus
    <2>4. ProcessInv(p)'
      BY <2>1, <2>2, <2>3, <1>1 DEF ProcessInv, Leased, Holding, InHand, ReadsAreCurrent,
         WritesAreNewer, FinalizesWhatIsListed
    <2>5. QED
      BY <2>2, <2>3, <2>4, <1>1, HolderStep
  <1>3. CASE ListPublishing(p)
    <2> DEFINE S == WithStatus("publish-pending")
               l == [my[p] EXCEPT !.publishing = S, !.want = @ \cup S]
    <2>1. l \in LocalVars /\ l.want = my[p].want \cup S /\ l.publishing = S
      <3>1. l \in LocalVars
        BY <1>a, <1>c, UpdatesTyped
      <3>2. "want" \in DOMAIN my[p] /\ "publishing" \in DOMAIN my[p]
        BY <1>a DEF LocalVars
      <3>3. QED
        BY <3>1, <3>2
    <2>2. OthersStand(p) /\ pc'[p] = "listRetiring" /\ my'[p] = l /\ lease' = lease
      BY <1>3, <1>a, <1>b, <2>1, Kept, Went DEF ListPublishing, Step, OthersStand
    <2>3. SharedInv' /\ WithStatus("published")' = WithStatus("published") /\ S' = S
      BY <1>3, <1>a, SharedStands DEF ListPublishing, WithStatus
    <2>4. my[p].want = WithStatus("published")
      BY <1>3, <1>a DEF ListPublishing, Step, ReadsAreCurrent
    <2>5. ProcessInv(p)'
      BY <2>1, <2>2, <2>3, <2>4, <1>1 DEF ProcessInv, Leased, Holding, InHand, ReadsAreCurrent,
         WritesAreNewer, FinalizesWhatIsListed
    <2>6. QED
      BY <2>2, <2>3, <2>5, <1>1, HolderStep
  <1>4. CASE ListRetiring(p)
    <2> DEFINE S == WithStatus("withdraw-pending")
               l == [my[p] EXCEPT !.retiring = S]
    <2>1. CASE Abort(p)
      BY <1>4, <2>1, <1>1, AbortStep DEF ListRetiring
    <2>2. CASE Goto(p, "version") /\ Keep(p, l) /\ UNCHANGED lease
      <3>1. /\ l \in LocalVars /\ l.want = my[p].want /\ l.publishing = my[p].publishing
            /\ l.retiring = S
        <4>1. l \in LocalVars
          BY <1>a, <1>c, UpdatesTyped
        <4>2. "retiring" \in DOMAIN my[p]
          BY <1>a DEF LocalVars
        <4>3. QED
          BY <4>1, <4>2
      <3>2. OthersStand(p) /\ pc'[p] = "version" /\ my'[p] = l /\ lease' = lease
        BY <2>2, <1>a, <1>b, <3>1, Kept, Went DEF OthersStand
      <3>3. /\ SharedInv' /\ WithStatus("published")' = WithStatus("published")
            /\ WithStatus("publish-pending")' = WithStatus("publish-pending") /\ S' = S
        BY <1>4, <1>a, SharedStands DEF ListRetiring, WithStatus
      <3>4. /\ my[p].want = WithStatus("published") \cup WithStatus("publish-pending")
            /\ my[p].publishing = WithStatus("publish-pending")
        BY <1>4, <1>a DEF ListRetiring, ReadsAreCurrent
      <3>5. ProcessInv(p)'
        BY <3>1, <3>2, <3>3, <3>4, <1>1 DEF ProcessInv, Leased, Holding, InHand,
           ReadsAreCurrent, WritesAreNewer, FinalizesWhatIsListed
      <3>6. QED
        BY <3>2, <3>3, <3>5, <1>1, HolderStep
    <2>3. QED
      BY <1>4, <2>1, <2>2 DEF ListRetiring
  <1>5. QED
    BY <1>2, <1>3, <1>4

\* A version allocated under the lease is newer than any timestamp.json has named.
LEMMA VersionStep ==
  ASSUME IInv, TypeOK', NEW p \in Procs, NextVersion(p)
  PROVE  IInv'
  <1> USE DEF dbVars, storeVars, metadataVars
  <1>a. /\ pc \in [Procs -> PCs] /\ my \in [Procs -> LocalVars] /\ my[p] \in LocalVars
        /\ SharedInv /\ Holding(p) /\ ReadsAreCurrent(p) /\ lastVersion \in Nat
        /\ timestamp.ver \in Nat
    BY DEF IInv, TypeOK, ProcessInv
  <1>1. pc[p] = "version" /\ pc[p] \in Leased /\ lease = p
    BY <1>a DEF NextVersion, Leased, Holding
  <1>2. PICK candidate \in Candidates :
          /\ lastVersion' = IF my[p].tries = 0 /\ candidate > lastVersion
                            THEN candidate ELSE lastVersion + 1
          /\ Keep(p, [my[p] EXCEPT !.ver = lastVersion'])
          /\ Goto(p, "putTargets") /\ UNCHANGED lease
    BY <1>1 DEF NextVersion
  <1>3. candidate \in Nat
    BY PublicationAssumption DEF PublicationAssumption
  <1>4. lastVersion' > lastVersion /\ lastVersion' \in Nat
    BY <1>2, <1>3, <1>a
  <1> DEFINE l == [my[p] EXCEPT !.ver = lastVersion']
  <1>5. /\ l \in LocalVars /\ l.want = my[p].want /\ l.publishing = my[p].publishing
        /\ l.retiring = my[p].retiring /\ l.ver = lastVersion'
    BY <1>4, <1>a, UpdatesTyped DEF LocalVars
  <1>6. OthersStand(p) /\ pc'[p] = "putTargets" /\ my'[p] = l
    BY <1>2, <1>5, <1>a, Kept, Went DEF OthersStand, PCs, Leased
  <1>7. \A s : WithStatus(s)' = WithStatus(s)
    BY DEF NextVersion, WithStatus
  <1>8. SharedInv'
    BY <1>a, <1>4, <1>7 DEF NextVersion, SharedInv, MetadataMatchesStatus, IntentsAreServable,
       ConsistentSnapshot, Listed
  <1>9. l.ver > timestamp'.ver
    BY <1>4, <1>5, <1>a DEF SharedInv, NextVersion
  <1>10. ProcessInv(p)'
    BY <1>1, <1>2, <1>5, <1>6, <1>7, <1>9, <1>a DEF ProcessInv, Leased, Holding, InHand,
       ReadsAreCurrent, WritesAreNewer, FinalizesWhatIsListed
  <1>11. QED
    BY <1>1, <1>2, <1>6, <1>8, <1>10, HolderStep

\* A conflict at a taken version sends the publisher back for a newer one.
LEMMA ConflictStep ==
  ASSUME IInv, TypeOK', NEW p \in Procs, Conflict(p),
         pc[p] \in {"putTargets", "putSnapshot"},
         UNCHANGED <<dbVars, blobs, metadataVars>>
  PROVE  IInv'
  <1>a. /\ pc \in [Procs -> PCs] /\ my \in [Procs -> LocalVars] /\ my[p] \in LocalVars
        /\ SharedInv /\ Holding(p) /\ ReadsAreCurrent(p) /\ pc[p] \in Leased /\ lease = p
    BY DEF IInv, TypeOK, ProcessInv, Leased, Holding
  <1>1. CASE Abort(p)
    BY <1>1, <1>a, AbortStep
  <1>2. CASE /\ Goto(p, "version") /\ UNCHANGED lease
             /\ Keep(p, [my[p] EXCEPT !.tries = @ + 1])
    <2> DEFINE l == [my[p] EXCEPT !.tries = @ + 1]
    <2>1. /\ l \in LocalVars /\ l.want = my[p].want /\ l.publishing = my[p].publishing
          /\ l.retiring = my[p].retiring
      <3>1. l \in LocalVars
        BY <1>a, UpdatesTyped
      <3>2. QED
        BY <3>1
    <2>2. OthersStand(p) /\ pc'[p] = "version" /\ my'[p] = l
      BY <1>2, <2>1, <1>a, Kept, Went DEF OthersStand, PCs, Leased
    <2>3. SharedInv' /\ \A s : WithStatus(s)' = WithStatus(s)
      BY <1>a, SharedStands DEF WithStatus, dbVars
    <2>4. ProcessInv(p)'
      BY <1>2, <2>1, <2>2, <2>3, <1>a DEF ProcessInv, Leased, Holding, InHand,
         ReadsAreCurrent, WritesAreNewer, FinalizesWhatIsListed
    <2>5. QED
      BY <1>2, <1>a, <2>2, <2>3, <2>4, HolderStep
  <1>3. QED
    BY <1>1, <1>2 DEF Conflict

\* The immutable objects are written first, under the new version alone; the switch
\* of timestamp.json then names objects that are already there.
LEMMA PutSteps ==
  ASSUME IInv, TypeOK', NEW p \in Procs,
         PutTargets(p) \/ PutSnapshot(p) \/ PutTimestamp(p)
  PROVE  IInv'
  <1> USE DEF dbVars, storeVars, metadataVars
  <1>a. /\ pc \in [Procs -> PCs] /\ SharedInv /\ ProcessInv(p) /\ Holding(p)
        /\ timestamp.ver \in Nat /\ my[p].ver \in Nat /\ my[p].want \subseteq Arts
    BY FieldsTyped DEF IInv, TypeOK, ProcessInv
  <1>b. pc[p] \in Leased /\ lease = p /\ my[p].ver > timestamp.ver /\ my[p].ver = lastVersion
    BY <1>a DEF PutTargets, PutSnapshot, PutTimestamp, Step, Leased, Holding, ProcessInv,
       WritesAreNewer
  <1>c. {"putSnapshot", "putTimestamp", "finish"} \subseteq PCs \cap Leased
    BY DEF PCs, Leased
  <1>d. \A s : WithStatus(s)' = WithStatus(s)
    BY DEF PutTargets, PutSnapshot, PutTimestamp, WithStatus
  <1>e. ReadsAreCurrent(p) /\ WritesAreNewer(p)
    BY <1>a DEF ProcessInv
  <1>f. ASSUME NEW there \in {"putSnapshot", "putTimestamp"}, GoOn(p, there)
        PROVE  /\ OthersStand(p) /\ pc'[p] = there /\ my' = my /\ lease' = lease
    BY <1>f, <1>a, <1>c, Went DEF GoOn, OthersStand
  <1>1. CASE PutTargets(p)
    <2>1. CASE Conflict(p) /\ UNCHANGED targetsAt
      BY <1>1, <2>1, ConflictStep DEF PutTargets
    <2>2. CASE targetsAt' = Added(targetsAt, my[p].ver, my[p].want) /\ GoOn(p, "putSnapshot")
      <3>1. /\ my[p].ver \in DOMAIN targetsAt' /\ targetsAt'[my[p].ver] = my[p].want
            /\ \A v \in DOMAIN targetsAt : v # my[p].ver =>
                 v \in DOMAIN targetsAt' /\ targetsAt'[v] = targetsAt[v]
        BY <2>2 DEF Added
      <3>2. SharedInv'
        BY <1>1, <3>1, <1>a, <1>b, <1>d DEF PutTargets, SharedInv, MetadataMatchesStatus,
           IntentsAreServable, ConsistentSnapshot, Listed
      <3>3. ProcessInv(p)'
        BY <1>1, <2>2, <3>1, <1>b, <1>d, <1>e, <1>f DEF PutTargets, ProcessInv, Leased,
           Holding, InHand, ReadsAreCurrent, WritesAreNewer, FinalizesWhatIsListed
      <3>4. QED
        BY <2>2, <3>2, <3>3, <1>b, <1>f, HolderStep
    <2>3. QED
      BY <1>1, <2>1, <2>2 DEF PutTargets
  <1>2. CASE PutSnapshot(p)
    <2>1. CASE Conflict(p) /\ UNCHANGED snapshotAt
      BY <1>2, <2>1, ConflictStep DEF PutSnapshot
    <2>2. CASE snapshotAt' = Added(snapshotAt, my[p].ver, my[p].want) /\ GoOn(p, "putTimestamp")
      <3>1. /\ my[p].ver \in DOMAIN snapshotAt' /\ snapshotAt'[my[p].ver] = my[p].want
            /\ \A v \in DOMAIN snapshotAt : v # my[p].ver =>
                 v \in DOMAIN snapshotAt' /\ snapshotAt'[v] = snapshotAt[v]
        BY <2>2 DEF Added
      <3>2. SharedInv'
        BY <1>2, <3>1, <1>a, <1>b, <1>d DEF PutSnapshot, SharedInv, MetadataMatchesStatus,
           IntentsAreServable, ConsistentSnapshot, Listed
      <3>3. ProcessInv(p)'
        BY <1>2, <2>2, <3>1, <1>b, <1>d, <1>e, <1>f DEF PutSnapshot, ProcessInv, Leased,
           Holding, InHand, ReadsAreCurrent, WritesAreNewer, FinalizesWhatIsListed
      <3>4. QED
        BY <2>2, <3>2, <3>3, <1>b, <1>f, HolderStep
    <2>3. QED
      BY <1>2, <2>1, <2>2 DEF PutSnapshot
  <1>3. CASE PutTimestamp(p)
    <2>1. OthersStand(p) /\ pc'[p] = "finish" /\ my' = my /\ lease' = lease
      BY <1>3, <1>a, <1>c, Went DEF PutTimestamp, Step, OthersStand
    <2>2. /\ my[p].want = WithStatus("published") \cup WithStatus("publish-pending")
          /\ my[p].publishing = WithStatus("publish-pending")
          /\ my[p].retiring = WithStatus("withdraw-pending")
      BY <1>3, <1>e DEF PutTimestamp, Step, ReadsAreCurrent
    <2>3. Listed' = my[p].want /\ timestamp'.ver = my[p].ver
      BY <1>3 DEF PutTimestamp, Listed
    <2>4. MetadataMatchesStatus'
      BY <1>3, <2>2, <2>3 DEF PutTimestamp, MetadataMatchesStatus, WithStatus
    <2>5. ConsistentSnapshot'
      BY <1>3, <1>e, <2>3 DEF PutTimestamp, Step, WritesAreNewer, ConsistentSnapshot
    <2>6. IntentsAreServable' /\ timestamp'.ver <= lastVersion'
      BY <1>3, <1>a, <1>b, <2>3 DEF PutTimestamp, SharedInv, IntentsAreServable
    <2>7. ProcessInv(p)'
      BY <2>1, <2>2, <2>3, <1>b, <1>d DEF ProcessInv, Leased, Holding, InHand, WithStatus,
         ReadsAreCurrent, WritesAreNewer, FinalizesWhatIsListed
    <2>8. QED
      BY <2>1, <2>4, <2>5, <2>6, <2>7, <1>b, HolderStep DEF SharedInv
  <1>4. QED
    BY <1>1, <1>2, <1>3

\* Finalization only confirms what the switch has listed, or dropped.
LEMMA FinishSteps ==
  ASSUME IInv, TypeOK', NEW p \in Procs,
         \/ \E a \in Arts : ClearStaging(p, a) \/ ConfirmWithdrawn(p, a)
         \/ ConfirmPublished(p) \/ Finish(p)
  PROVE  IInv'
  <1> USE DEF dbVars, storeVars, metadataVars
  <1>a. /\ pc \in [Procs -> PCs] /\ my \in [Procs -> LocalVars] /\ my[p] \in LocalVars
        /\ status \in [Arts -> Statuses] /\ SharedInv /\ Holding(p) /\ FinalizesWhatIsListed(p)
        /\ my[p].publishing \subseteq Arts /\ Listed \subseteq Arts
    BY FieldsTyped DEF IInv, TypeOK, ProcessInv, Listed
  <1>b. pc[p] \in {"finish", "confirm"} /\ pc[p] \in Leased /\ lease = p
    BY <1>a DEF ClearStaging, ConfirmWithdrawn, ConfirmPublished, Finish, Step, Leased, Holding
  <1>c. {"finish", "confirm", "idle"} \subseteq PCs /\ {"finish", "confirm"} \subseteq Leased
    BY DEF PCs, Leased
  <1>d. /\ my[p].publishing \subseteq Listed \cap WithStatus("publish-pending")
        /\ my[p].retiring \subseteq WithStatus("withdraw-pending") \ Listed
    BY <1>a, <1>b DEF FinalizesWhatIsListed
  <1>1. ASSUME NEW a \in Arts, ClearStaging(p, a) PROVE IInv'
    <2> DEFINE l == [my[p] EXCEPT !.art = a]
    <2>1. /\ l \in LocalVars /\ l.publishing = my[p].publishing /\ l.retiring = my[p].retiring
          /\ l.art = a
      <3>1. l \in LocalVars
        BY <1>a, UpdatesTyped
      <3>2. "art" \in DOMAIN my[p]
        BY <1>a DEF LocalVars
      <3>3. QED
        BY <3>1, <3>2
    <2>2. OthersStand(p) /\ pc'[p] = "confirm" /\ my'[p] = l /\ lease' = lease
      BY <1>1, <1>a, <1>c, <2>1, Kept, Went DEF ClearStaging, Step, OthersStand
    <2>3. /\ SharedInv' /\ Listed' = Listed /\ \A s : WithStatus(s)' = WithStatus(s)
          /\ a \in my[p].publishing
      BY <1>1, <1>a, SharedStands DEF ClearStaging, WithStatus, Listed
    <2>4. ProcessInv(p)'
      BY <2>1, <2>2, <2>3, <1>b, <1>d DEF ProcessInv, Leased, Holding, InHand,
         ReadsAreCurrent, WritesAreNewer, FinalizesWhatIsListed
    <2>5. QED
      BY <2>2, <2>3, <2>4, <1>b, HolderStep
  <1>2. CASE ConfirmPublished(p)
    <2> DEFINE a == my[p].art
               l == [my[p] EXCEPT !.publishing = @ \ {a}]
    <2>1. /\ pc[p] = "confirm" /\ a \in my[p].publishing /\ a \in Arts
          /\ status[a] = "publish-pending" /\ a \in Listed
      BY <1>2, <1>a, <1>d DEF ConfirmPublished, FinalizesWhatIsListed, WithStatus
    <2>2. SetStatus(a, "published") /\ Keep(p, l) /\ Goto(p, "finish") /\ UNCHANGED lease
      BY <1>2, <2>1 DEF ConfirmPublished, CanTransitionArtifactStatus
    <2>3. IInv'
      <3>1. /\ l \in LocalVars /\ l.publishing = my[p].publishing \ {a}
            /\ l.retiring = my[p].retiring
        <4>1. l \in LocalVars
          BY <1>a, UpdatesTyped
        <4>2. "publishing" \in DOMAIN my[p]
          BY <1>a DEF LocalVars
        <4>3. QED
          BY <4>1, <4>2
      <3>2. OthersStand(p) /\ pc'[p] = "finish" /\ my'[p] = l /\ lease' = lease
        BY <2>2, <1>a, <1>c, <3>1, Kept, Went DEF OthersStand
      <3>3. status'[a] = "published" /\ \A b \in Arts : b # a => status'[b] = status[b]
        BY <2>1, <2>2, <1>a DEF SetStatus
      <3>4. Listed' = Listed /\ UNCHANGED <<reviewed, lastVersion, blobs, metadataVars>>
        BY <1>2 DEF ConfirmPublished, Listed
      <3>5. SharedInv'
        BY <2>1, <3>3, <3>4, <1>a DEF SharedInv, MetadataMatchesStatus, IntentsAreServable,
           ConsistentSnapshot, WithStatus
      <3>6. /\ (my[p].publishing \ {a}) \subseteq Listed' \cap WithStatus("publish-pending")'
            /\ my[p].retiring \subseteq WithStatus("withdraw-pending")' \ Listed'
        BY <2>1, <3>3, <3>4, <1>d DEF WithStatus
      <3>7. ProcessInv(p)'
        BY <3>1, <3>2, <3>6, <1>b DEF ProcessInv, Leased, Holding, InHand,
           ReadsAreCurrent, WritesAreNewer, FinalizesWhatIsListed
      <3>8. QED
        BY <3>2, <3>5, <3>7, <1>b, HolderStep
    <2>4. QED
      BY <2>3
  <1>3. ASSUME NEW a \in Arts, ConfirmWithdrawn(p, a) PROVE IInv'
    <2> DEFINE l == [my[p] EXCEPT !.retiring = @ \ {a}]
    <2>1. /\ pc[p] = "finish" /\ a \in my[p].retiring
          /\ status[a] = "withdraw-pending" /\ a \notin Listed
      BY <1>3, <1>d DEF ConfirmWithdrawn, WithStatus
    <2>2. SetStatus(a, "withdrawn") /\ Keep(p, l) /\ UNCHANGED <<pc, lease>>
      BY <1>3, <2>1 DEF ConfirmWithdrawn, CanTransitionArtifactStatus
    <2>3. IInv'
      <3>1. /\ l \in LocalVars /\ l.publishing = my[p].publishing
            /\ l.retiring = my[p].retiring \ {a}
        <4>1. l \in LocalVars
          BY <1>a, UpdatesTyped, FieldsTyped
        <4>2. "retiring" \in DOMAIN my[p]
          BY <1>a DEF LocalVars
        <4>3. QED
          BY <4>1, <4>2
      <3>2. OthersStand(p) /\ pc'[p] = "finish" /\ my'[p] = l /\ lease' = lease
        BY <2>1, <2>2, <1>a, <3>1, Kept DEF OthersStand
      <3>3. status'[a] = "withdrawn" /\ \A b \in Arts : b # a => status'[b] = status[b]
        BY <2>2, <1>a DEF SetStatus
      <3>4. Listed' = Listed /\ UNCHANGED <<reviewed, lastVersion, blobs, metadataVars>>
        BY <1>3 DEF ConfirmWithdrawn, Listed
      <3>5. SharedInv'
        BY <2>1, <3>3, <3>4, <1>a DEF SharedInv, MetadataMatchesStatus, IntentsAreServable,
           ConsistentSnapshot, WithStatus
      <3>6. /\ my[p].publishing \subseteq Listed' \cap WithStatus("publish-pending")'
            /\ (my[p].retiring \ {a}) \subseteq WithStatus("withdraw-pending")' \ Listed'
        BY <2>1, <3>3, <3>4, <1>d DEF WithStatus
      <3>7. ProcessInv(p)'
        BY <3>1, <3>2, <3>6, <1>b DEF ProcessInv, Leased, Holding, InHand,
           ReadsAreCurrent, WritesAreNewer, FinalizesWhatIsListed
      <3>8. QED
        BY <3>2, <3>5, <3>7, <1>b, HolderStep
    <2>4. QED
      BY <2>3
  <1>4. CASE Finish(p)
    <2>1. OthersStand(p) /\ pc'[p] = "idle" /\ lease' = None
      BY <1>4, <1>b, <1>c, Left DEF Finish, Release, OthersStand, IInv
    <2>2. ProcessInv(p)'
      BY <2>1, PublicationAssumption DEF PublicationAssumption, ProcessInv, Leased, Holding,
         InHand, ReadsAreCurrent, WritesAreNewer, FinalizesWhatIsListed
    <2>3. SharedInv'
      BY <1>4, <1>a, SharedStands DEF Finish
    <2>4. QED
      BY <2>1, <2>2, <2>3, <1>b, HolderStep
  <1>5. QED
    BY <1>1, <1>2, <1>3, <1>4

\* Every step of every process keeps the invariant while the lease cannot be lost.
LEMMA IInvStep ==
  ASSUME LeaseMayDrop = FALSE
  PROVE  IInv /\ [Next]_vars => IInv'
  <1> SUFFICES ASSUME IInv, [Next]_vars PROVE IInv'
    OBVIOUS
  <1>1. TypeOK'
    BY TypeStep DEF IInv
  <1>2. ASSUME UNCHANGED vars PROVE IInv'
    <2>1. UNCHANGED <<status, reviewed, lastVersion, lease, staging, blobs, targetsAt, snapshotAt,
                      timestamp, pc, my>>
      BY <1>2 DEF vars, dbVars, storeVars, metadataVars
    <2>2. SharedInv'
      BY <2>1, SharedStands DEF IInv, dbVars, metadataVars
    <2>3. ASSUME NEW p \in Procs PROVE ProcessInv(p)'
      BY <2>1 DEF IInv, ProcessInv, Holding, InHand, ReadsAreCurrent, WritesAreNewer,
                  FinalizesWhatIsListed, WithStatus, Listed
    <2>4. QED
      BY <1>1, <2>2, <2>3 DEF IInv
  <1>3. ASSUME NEW p \in Procs, Continue(p) PROVE IInv'
    BY <1>1, <1>3, OutsideSteps, DecideSteps, ListSteps, VersionStep, PutSteps, FinishSteps
    DEF Continue
  <1>4. ASSUME NEW p \in Procs, Fail(p) PROVE IInv'
    <2>1. UNCHANGED <<dbVars, blobs, metadataVars>> /\ Abort(p)
      BY <1>4 DEF Fail, storeVars
    <2>2. CASE pc[p] \in Leased
      BY <1>1, <2>1, <2>2, AbortStep
    <2>3. CASE pc[p] \notin Leased
      <3>1. OthersStand(p) /\ pc'[p] \in {"idle", "down"}
        BY <2>1, Aborted DEF IInv, OthersStand
      <3>2. UNCHANGED lease
        BY <2>1, <2>3 DEF IInv, ProcessInv, Holding, Abort, Release
      <3>3. QED
        BY <1>1, <2>1, <2>3, <3>1, <3>2, OutsiderStep DEF Leased, InHand, WithStatus, dbVars
    <2>4. QED
      BY <2>2, <2>3
  <1>5. ASSUME NEW p \in Procs, Crash(p) PROVE IInv'
    <2>1. UNCHANGED <<dbVars, blobs, metadataVars>> /\ Release(p) /\ Leave(p, "down")
      BY <1>5 DEF Crash, storeVars
    <2>2. OthersStand(p) /\ pc'[p] = "down"
      BY <2>1, Left DEF IInv, OthersStand, PCs
    <2>3. CASE pc[p] \in Leased
      <3>1. lease = p /\ lease' = None
        BY <2>1, <2>3 DEF IInv, ProcessInv, Holding, Release
      <3>2. ProcessInv(p)'
        BY <2>2, <3>1, PublicationAssumption
        DEF PublicationAssumption, ProcessInv, Leased, Holding, InHand, ReadsAreCurrent,
            WritesAreNewer, FinalizesWhatIsListed
      <3>3. QED
        BY <1>1, <2>1, <2>2, <3>1, <3>2, SharedStands, HolderStep DEF IInv
    <2>4. CASE pc[p] \notin Leased
      <3>1. UNCHANGED lease
        BY <2>1, <2>4 DEF IInv, ProcessInv, Holding, Release
      <3>2. QED
        BY <1>1, <2>1, <2>2, <2>4, <3>1, OutsiderStep DEF Leased, InHand, WithStatus, dbVars
    <2>5. QED
      BY <2>3, <2>4
  <1>6. ASSUME NEW p \in Procs, NEW a \in Arts,
               StartScan(p, a) \/ Reject(p, a) \/ Approve(p, a) \/ Withdraw(p, a)
        PROVE  IInv'
    BY <1>1, <1>6, OutsideSteps
  <1>7. \A p \in Procs : ~DropLease(p)
    BY DEF DropLease
  <1>8. QED
    BY <1>2, <1>3, <1>4, <1>5, <1>6, <1>7 DEF Next, Quiescent

\* While the publish lease keeps its session, the inductive invariant holds.
THEOREM Invariance ==
  ASSUME LeaseMayDrop = FALSE
  PROVE  Spec => []IInv
  BY IInvInit, IInvStep, PTL DEF Spec

\* The signed listing and the rows of the artifact table never disagree: Approve,
\* Withdraw, and the reconciliation at boot, interleaved and interrupted anyhow.
THEOREM MetadataTruthful ==
  ASSUME LeaseMayDrop = FALSE
  PROVE  Spec => []MetadataMatchesStatus
  <1>1. IInv => MetadataMatchesStatus
    BY DEF IInv, SharedInv
  <1>2. QED
    BY <1>1, Invariance, PTL

\* Whatever the metadata lists was copied to published/ and reviewed before.
THEOREM ListedServable ==
  ASSUME LeaseMayDrop = FALSE
  PROVE  Spec => []ListedIsServable
  <1>1. IInv => ListedIsServable
    BY DEF IInv, SharedInv, TypeOK, MetadataMatchesStatus, IntentsAreServable,
           ListedIsServable, Listed
  <1>2. QED
    BY <1>1, Invariance, PTL

\* timestamp.json only moves to newer versions, across processes, conflicts with
\* versions already taken and crashes.
THEOREM TimestampsAdvance ==
  ASSUME LeaseMayDrop = FALSE
  PROVE  Spec => TimestampAdvances
  <1>1. IInv /\ [Next]_vars => [timestamp' # timestamp => timestamp'.ver > timestamp.ver]_vars
    <2> SUFFICES ASSUME IInv, Next, timestamp' # timestamp PROVE timestamp'.ver > timestamp.ver
      BY SMTT(30)
    <2>1. PICK p \in Procs : PutTimestamp(p)
      BY ZenonT(60) DEF Next, Continue, ScanPasses, ScanRefuses, ScanFindsNothing, DropStaging,
          Acquire,
         DecideApprove, DecideWithdraw, CopyToPublished, PersistPublishIntent,
         PersistWithdrawIntent, ListPublished, ListPublishing, ListRetiring, NextVersion,
         PutTargets, PutSnapshot, ClearStaging, ConfirmWithdrawn, ConfirmPublished, Finish,
         Boot, Fail, Crash, DropLease, StartScan, Reject, Approve, Withdraw, Quiescent,
         storeVars, metadataVars, vars
    <2>2. my[p].ver > timestamp.ver
      BY <2>1 DEF IInv, ProcessInv, WritesAreNewer, PutTimestamp, Step
    <2>3. QED
      BY <2>1, <2>2 DEF PutTimestamp
  <1>2. QED
    BY <1>1, Invariance, PTL DEF Spec, TimestampAdvances

-----------------------------------------------------------------------------
(* The refinement of ReleaseRegister.                                       *)

\* A step that touches neither rows nor timestamp.json is a stutter of the register.
LEMMA Stutters ==
  ASSUME UNCHANGED <<status, timestamp>>
  PROVE  UNCHANGED Register!vars
  BY DEF Register!vars, Phase, Listed

\* A row that changes its status is a move of its release.
LEMMA Moves ==
  ASSUME status \in [Arts -> Statuses], NEW a \in Arts, NEW s \in Statuses,
         SetStatus(a, s), UNCHANGED timestamp
  PROVE  /\ PhaseOf(status[a]) # PhaseOf(s) =>
              Register!Move(a, PhaseOf(status[a]), PhaseOf(s))
         /\ PhaseOf(status[a]) = PhaseOf(s) => UNCHANGED Register!vars
  <1>1. Phase[a] = PhaseOf(status[a])
    BY DEF Phase
  <1>2. status' = [status EXCEPT ![a] = s]
    BY DEF SetStatus
  <1>3. Phase' = [Phase EXCEPT ![a] = PhaseOf(s)]
    <2>1. \A b \in Arts : PhaseOf(status[b])' = IF b = a THEN PhaseOf(s) ELSE PhaseOf(status[b])
      BY <1>2
    <2>2. QED
      BY <2>1 DEF Phase
  <1>4. UNCHANGED <<Listed, timestamp.ver>>
    BY DEF Listed
  <1>5. PhaseOf(status[a]) = PhaseOf(s) => Phase' = Phase
    BY <1>1, <1>3 DEF Phase
  <1>6. QED
    BY <1>1, <1>3, <1>4, <1>5 DEF Register!Move, Register!vars

\* How the phase of a release in the register follows from the status of its row.
LEMMA Phases ==
  /\ PhaseOf("staged") = "undecided" /\ PhaseOf("scanned") = "undecided"
  /\ PhaseOf("rejected") = "refused" /\ PhaseOf("publish-pending") = "intended"
  /\ PhaseOf("published") = "live" /\ PhaseOf("withdraw-pending") = "retiring"
  /\ PhaseOf("withdrawn") = "gone"
  BY DEF PhaseOf

\* The initial rows and metadata are an initial state of the register.
LEMMA RegisterInit == Init => Register!Init
  <1> SUFFICES ASSUME Init PROVE Register!Init
    OBVIOUS
  <1>1. \A a \in Arts : Phase[a] = IF a \in Legacy THEN "live" ELSE "undecided"
    BY Phases DEF Init, Phase
  <1>2. Phase \in [Arts -> {"undecided", "live"}]
    BY <1>1 DEF Phase
  <1>3. Listed = Legacy /\ timestamp.ver = 1 /\ Legacy \subseteq Arts
    BY PublicationAssumption DEF PublicationAssumption, Init, Listed
  <1>4. QED
    BY <1>1, <1>2, <1>3 DEF Register!Init

\* Every step of the pipeline is a step of the register or a stutter.
LEMMA RegisterStep ==
  ASSUME LeaseMayDrop = FALSE, IInv, Next
  PROVE  [Register!Next]_(Register!vars)
  <1>a. status \in [Arts -> Statuses]
    BY DEF IInv, TypeOK
  <1>b. {"scanned", "rejected", "publish-pending", "published", "withdraw-pending",
         "withdrawn"} \subseteq Statuses
    BY DEF Statuses
  <1>1. CASE UNCHANGED <<status, timestamp>>
    BY <1>1, Stutters
  <1>2. ASSUME NEW a \in Arts, NEW s \in {"scanned", "rejected"}, SetStatus(a, s),
               CanTransitionArtifactStatus(status[a], s), UNCHANGED timestamp
        PROVE  [Register!Next]_(Register!vars)
    <2>1. \/ PhaseOf(status[a]) = PhaseOf(s)
          \/ PhaseOf(status[a]) = "undecided" /\ PhaseOf(s) = "refused"
      BY <1>2, Phases DEF CanTransitionArtifactStatus
    <2>2. CASE PhaseOf(status[a]) = PhaseOf(s)
      BY <2>2, <1>2, <1>a, <1>b, Moves
    <2>3. CASE PhaseOf(status[a]) = "undecided" /\ PhaseOf(s) = "refused"
      <3>1. Register!Move(a, "undecided", "refused")
        BY <2>3, <1>2, <1>a, <1>b, Moves
      <3>2. QED
        BY <3>1 DEF Register!Next, Register!Refuse
    <2>4. QED
      BY <2>1, <2>2, <2>3
  <1>3. ASSUME NEW p \in Procs, ScanPasses(p) PROVE [Register!Next]_(Register!vars)
    <2>1. my[p].art \in Arts
      BY <1>3 DEF ScanPasses, IInv, ProcessInv, InHand
    <2>2. QED
      BY <1>1, <1>2, <1>3, <2>1 DEF ScanPasses, storeVars, metadataVars
  <1>4. ASSUME NEW p \in Procs, ScanRefuses(p) PROVE [Register!Next]_(Register!vars)
    <2>1. my[p].art \in Arts
      BY <1>4 DEF ScanRefuses, IInv, ProcessInv, InHand
    <2>2. QED
      BY <1>1, <1>2, <1>4, <2>1 DEF ScanRefuses, storeVars, metadataVars
  <1>5. ASSUME NEW p \in Procs, NEW a \in Arts, Reject(p, a)
        PROVE  [Register!Next]_(Register!vars)
    BY <1>2, <1>5 DEF Reject, storeVars, metadataVars
  <1>6. ASSUME NEW p \in Procs, PersistPublishIntent(p) PROVE [Register!Next]_(Register!vars)
    <2>1. my[p].art \in Arts
      BY <1>6 DEF PersistPublishIntent, IInv, ProcessInv, InHand
    <2>2. CASE /\ CanTransitionArtifactStatus(status[my[p].art], "publish-pending")
               /\ SetStatus(my[p].art, "publish-pending")
      <3>1. status[my[p].art] \in {"scanned", "publish-pending"}
        BY <2>2 DEF CanTransitionArtifactStatus
      <3>2. UNCHANGED timestamp
        BY <1>6 DEF PersistPublishIntent, storeVars, metadataVars
      <3>3. QED
        BY <2>1, <2>2, <3>1, <3>2, <1>a, <1>b, Moves, Phases DEF Register!Next, Register!Intend
    <2>3. QED
      BY <1>1, <1>6, <2>2 DEF PersistPublishIntent, storeVars, metadataVars
  <1>7. ASSUME NEW p \in Procs, PersistWithdrawIntent(p) PROVE [Register!Next]_(Register!vars)
    <2>1. my[p].art \in Arts
      BY <1>7 DEF PersistWithdrawIntent, IInv, ProcessInv, InHand
    <2>2. CASE /\ CanTransitionArtifactStatus(status[my[p].art], "withdraw-pending")
               /\ SetStatus(my[p].art, "withdraw-pending")
      <3>1. status[my[p].art] \in {"published", "withdraw-pending"}
        BY <2>2 DEF CanTransitionArtifactStatus
      <3>2. UNCHANGED timestamp
        BY <1>7 DEF PersistWithdrawIntent, storeVars, metadataVars
      <3>3. QED
        BY <2>1, <2>2, <3>1, <3>2, <1>a, <1>b, Moves, Phases DEF Register!Next, Register!Retire
    <2>3. QED
      BY <1>1, <1>7, <2>2 DEF PersistWithdrawIntent, storeVars, metadataVars
  <1>8. ASSUME NEW p \in Procs, ConfirmPublished(p) PROVE [Register!Next]_(Register!vars)
    <2> DEFINE a == my[p].art
    <2>1. a \in Arts /\ status[a] = "publish-pending" /\ a \in Listed
      BY <1>8, FieldsTyped
      DEF ConfirmPublished, IInv, TypeOK, ProcessInv, FinalizesWhatIsListed, WithStatus
    <2>2. SetStatus(a, "published") /\ UNCHANGED timestamp
      BY <1>8, <2>1
      DEF ConfirmPublished, CanTransitionArtifactStatus, storeVars, metadataVars
    <2>3. Register!Move(a, "intended", "live")
      BY <2>1, <2>2, <1>a, <1>b, Moves, Phases
    <2>4. QED
      BY <2>1, <2>3 DEF Register!Next, Register!GoLive
  <1>9. ASSUME NEW p \in Procs, NEW a \in Arts, ConfirmWithdrawn(p, a)
        PROVE  [Register!Next]_(Register!vars)
    <2>1. status[a] = "withdraw-pending" /\ a \notin Listed
      BY <1>9 DEF ConfirmWithdrawn, IInv, ProcessInv, FinalizesWhatIsListed, WithStatus
    <2>2. SetStatus(a, "withdrawn") /\ UNCHANGED timestamp
      BY <1>9, <2>1
      DEF ConfirmWithdrawn, CanTransitionArtifactStatus, storeVars, metadataVars
    <2>3. Register!Move(a, "retiring", "gone")
      BY <2>1, <2>2, <1>a, <1>b, Moves, Phases
    <2>4. QED
      BY <2>1, <2>3 DEF Register!Next, Register!Vanish
  <1>10. ASSUME NEW p \in Procs, PutTimestamp(p) PROVE [Register!Next]_(Register!vars)
    <2>1. /\ my[p].want = WithStatus("published") \cup WithStatus("publish-pending")
          /\ my[p].ver > timestamp.ver /\ my[p].ver \in Nat
      BY <1>10, FieldsTyped
      DEF PutTimestamp, Step, IInv, TypeOK, ProcessInv, ReadsAreCurrent, WritesAreNewer
    <2>2. \A b \in Arts : Phase[b] = PhaseOf(status[b])
      BY DEF Phase
    <2>3. \A b \in Arts : PhaseOf(status[b]) \in {"live", "intended"}
                            <=> status[b] \in {"published", "publish-pending"}
      BY <1>a, Phases DEF Statuses
    <2>4. my[p].want = {b \in Arts : Phase[b] \in {"live", "intended"}}
      BY <2>1, <2>2, <2>3 DEF WithStatus
    <2>5. timestamp'.ver = my[p].ver /\ Listed' = my[p].want
      BY <1>10 DEF PutTimestamp, Listed
    <2>6. UNCHANGED Phase
      BY <1>10 DEF PutTimestamp, Phase, dbVars
    <2>7. QED
      BY <2>1, <2>4, <2>5, <2>6 DEF Register!Next, Register!Switch
  <1>11. CASE \E p \in Procs :
           \/ ScanFindsNothing(p) \/ DropStaging(p) \/ Acquire(p) \/ DecideApprove(p)
           \/ DecideWithdraw(p) \/ CopyToPublished(p) \/ ListPublished(p) \/ ListPublishing(p)
           \/ ListRetiring(p) \/ NextVersion(p) \/ PutTargets(p) \/ PutSnapshot(p)
           \/ \E a \in Arts : ClearStaging(p, a) \/ StartScan(p, a) \/ Approve(p, a)
                                \/ Withdraw(p, a)
           \/ Finish(p) \/ Boot(p) \/ Fail(p) \/ Crash(p) \/ DropLease(p)
    BY <1>1, <1>11
    DEF ScanFindsNothing, DropStaging, Acquire, DecideApprove, DecideWithdraw,
        CopyToPublished, ListPublished, ListPublishing, ListRetiring, NextVersion, PutTargets,
        PutSnapshot, ClearStaging, Finish, Boot, Fail, Crash, DropLease, StartScan, Approve,
        Withdraw, dbVars, storeVars, metadataVars
  <1>12. CASE Quiescent
    BY <1>1, <1>12 DEF Quiescent, vars, dbVars, storeVars, metadataVars
  <1>13. QED
    BY <1>3, <1>4, <1>5, <1>6, <1>7, <1>8, <1>9, <1>10, <1>11, <1>12 DEF Next, Continue

\* The pipeline implements the register of releases: its listing is replaced in one
\* step by exactly what is live or intended, under a newer version.
THEOREM Implements ==
  ASSUME LeaseMayDrop = FALSE
  PROVE  Spec => ImplementsRegister
  <1>1. IInv /\ [Next]_vars => [Register!Next]_(Register!vars)
    <2>1. ASSUME UNCHANGED vars PROVE UNCHANGED Register!vars
      BY <2>1, Stutters DEF vars, dbVars, storeVars, metadataVars
    <2>2. QED
      BY <2>1, RegisterStep
  <1>2. QED
    BY <1>1, RegisterInit, Invariance, PTL DEF Spec, ImplementsRegister, Register!Spec

-----------------------------------------------------------------------------
(* What holds even when the publish lease is lost under its holder, so     *)
(* that two processes may be inside the leased section at once, each with  *)
(* stale reads: rows only move forward, objects are only added and never   *)
(* rewritten, and what a process has read stays good enough for what it    *)
(* does with it.                                                           *)

Undecided == {"staged", "scanned"}

\* The refused packages whose rejection a failing call may lose: RunScan drops the error
\* of the row update and deletes the upload all the same.
Lossy == IF MaxFaults = 0 THEN {} ELSE Failing

\* A published object that was reviewed and whose package passed its scan.
Sound(a) == a \in blobs /\ reviewed[a] /\ a \notin Failing

\* What a process has read keeps its worth however stale it is.
StaleReadsAreSound(p) ==
    /\ \A a \in my[p].want : Sound(a)
    /\ \A a \in my[p].publishing : status[a] \notin Undecided
    /\ pc[p] = "confirm" => my[p].art \in my[p].publishing
WrittenStays(p) ==
    /\ pc[p] \in {"putSnapshot", "putTimestamp"} =>
         my[p].ver \in DOMAIN targetsAt /\ targetsAt[my[p].ver] = my[p].want
    /\ pc[p] = "putTimestamp" =>
         my[p].ver \in DOMAIN snapshotAt /\ snapshotAt[my[p].ver] = my[p].want
RejectedBeforeDrop(p) ==
    pc[p] = "dropStaging" => status[my[p].art] = "rejected" \/ my[p].art \in Lossy
LocalInv(p) ==
    InHand(p) /\ StaleReadsAreSound(p) /\ WrittenStays(p) /\ RejectedBeforeDrop(p)

RowsInv ==
    /\ \A a \in Failing : status[a] \in {"staged", "rejected"}
    /\ \A a \in Arts : status[a] \in Reached => Sound(a)
    /\ \A a \in Arts : status[a] \in Undecided => a \in staging \cup Lossy
ListingInv == ConsistentSnapshot /\ \A a \in Listed : Sound(a)

FaultInv == TypeOK /\ RowsInv /\ ListingInv /\ \A p \in Procs : LocalInv(p)

-----------------------------------------------------------------------------
(* What every step of every process does to rows and objects.               *)

\* Statuses move as CanTransitionArtifactStatus permits; objects are added, never changed.
RowsMove == \A a \in Arts : CanTransitionArtifactStatus(status[a], status'[a])
ObjectsStay ==
    /\ blobs \subseteq blobs' /\ \A a \in Arts : reviewed[a] => reviewed'[a]
    /\ \A v \in DOMAIN targetsAt : v \in DOMAIN targetsAt' /\ targetsAt'[v] = targetsAt[v]
    /\ \A v \in DOMAIN snapshotAt : v \in DOMAIN snapshotAt' /\ snapshotAt'[v] = snapshotAt[v]

\* A row update keeps to the permitted moves.
LEMMA SetMoves ==
  ASSUME status \in [Arts -> Statuses], NEW a, NEW s,
         SetStatus(a, s), CanTransitionArtifactStatus(status[a], s)
  PROVE  RowsMove
  BY DEF SetStatus, RowsMove, CanTransitionArtifactStatus

\* No row update at all keeps to them as well.
LEMMA StillMoves ==
  ASSUME UNCHANGED status
  PROVE  RowsMove
  BY DEF RowsMove, CanTransitionArtifactStatus

\* PutIfAbsentOrSame adds an object and changes none.
LEMMA AddedStays ==
  ASSUME NEW objects, NEW v, NEW content, Free(objects, v, content)
  PROVE  /\ v \in DOMAIN Added(objects, v, content) /\ Added(objects, v, content)[v] = content
         /\ \A x \in DOMAIN objects : /\ x \in DOMAIN Added(objects, v, content)
                                      /\ Added(objects, v, content)[x] = objects[x]
  BY DEF Free, Added

\* What the other processes rely on survives such a step.
LEMMA OthersKeep ==
  ASSUME FaultInv, NEW p \in Procs, OthersStand(p), RowsMove, ObjectsStay, TypeOK'
  PROVE  \A q \in Procs : q # p => LocalInv(q)'
  <1> SUFFICES ASSUME NEW q \in Procs, q # p PROVE LocalInv(q)'
    OBVIOUS
  <1>1. pc'[q] = pc[q] /\ my'[q] = my[q] /\ LocalInv(q) /\ my[q] \in LocalVars
    BY DEF OthersStand, FaultInv, TypeOK
  <1>2. /\ my[q].want \subseteq Arts /\ my[q].publishing \subseteq Arts
        /\ my[q].art \in Arts \cup {None}
    BY <1>1, FieldsTyped
  <1>3. InHand(q)'
    BY <1>1 DEF LocalInv, InHand, ObjectsStay
  <1>4. StaleReadsAreSound(q)'
    <2>1. \A a \in my[q].want : Sound(a)'
      BY <1>1, <1>2 DEF LocalInv, StaleReadsAreSound, Sound, ObjectsStay
    <2>2. \A a \in my[q].publishing : status'[a] \notin Undecided
      BY <1>1, <1>2 DEF LocalInv, StaleReadsAreSound, RowsMove, CanTransitionArtifactStatus,
                        Undecided
    <2>3. QED
      BY <1>1, <2>1, <2>2 DEF LocalInv, StaleReadsAreSound
  <1>5. WrittenStays(q)'
    BY <1>1 DEF LocalInv, WrittenStays, ObjectsStay
  <1>6. RejectedBeforeDrop(q)'
    BY <1>1 DEF LocalInv, InHand, RejectedBeforeDrop, RowsMove, CanTransitionArtifactStatus
  <1>7. QED
    BY <1>3, <1>4, <1>5, <1>6 DEF LocalInv

\* A step that keeps the rows' status, their uploads and the listing only has to establish
\* its own part.
LEMMA LocalStep ==
  ASSUME FaultInv, NEW p \in Procs, OthersStand(p), TypeOK', ObjectsStay,
         UNCHANGED <<status, staging, timestamp>>, LocalInv(p)'
  PROVE  FaultInv'
  <1>1. \A q \in Procs : q # p => LocalInv(q)'
    BY StillMoves, OthersKeep
  <1>2. RowsInv'
    BY DEF FaultInv, RowsInv, Sound, ObjectsStay
  <1>3. ListingInv'
    <2>1. Listed \subseteq Arts /\ Listed' = Listed /\ timestamp' = timestamp
      BY DEF FaultInv, TypeOK, Listed
    <2>2. ConsistentSnapshot'
      BY <2>1 DEF FaultInv, ListingInv, ConsistentSnapshot, ObjectsStay
    <2>3. QED
      BY <2>1, <2>2 DEF FaultInv, ListingInv, Sound, ObjectsStay
  <1>4. QED
    BY <1>1, <1>2, <1>3 DEF FaultInv

\* A process that is idle, down or waiting for the lease has read nothing.
LEMMA Rests ==
  ASSUME NEW p \in Procs, pc[p] \in {"idle", "down"}, my[p] = Locals("none", None)
  PROVE  LocalInv(p)
  BY DEF LocalInv, InHand, StaleReadsAreSound, WrittenStays, RejectedBeforeDrop, Locals

\* An operation that leaves, in a step that changes no row and no listing.
LEMMA LeavingStep ==
  ASSUME FaultInv, NEW p \in Procs, OthersStand(p), TypeOK', ObjectsStay,
         UNCHANGED <<status, staging, timestamp>>,
         pc'[p] \in {"idle", "down"}, my'[p] = Locals("none", None)
  PROVE  FaultInv'
  <1>1. LocalInv(p)'
    BY DEF LocalInv, InHand, StaleReadsAreSound, WrittenStays, RejectedBeforeDrop, Locals
  <1>2. QED
    BY <1>1, LocalStep

\* A step that writes a row, or drops an upload, and leaves the listing alone.
LEMMA RowStep ==
  ASSUME FaultInv, NEW p \in Procs, OthersStand(p), TypeOK', ObjectsStay, RowsMove,
         UNCHANGED timestamp, RowsInv', LocalInv(p)'
  PROVE  FaultInv'
  <1>1. \A q \in Procs : q # p => LocalInv(q)'
    BY OthersKeep
  <1>2. ListingInv'
    <2>1. Listed \subseteq Arts /\ Listed' = Listed
      BY DEF FaultInv, TypeOK, Listed
    <2>2. ConsistentSnapshot'
      BY <2>1 DEF FaultInv, ListingInv, ConsistentSnapshot, ObjectsStay
    <2>3. QED
      BY <2>1, <2>2 DEF FaultInv, ListingInv, Sound, ObjectsStay
  <1>3. QED
    BY <1>1, <1>2 DEF FaultInv

\* What a row update has to show of the row it writes.
LEMMA SetRows ==
  ASSUME FaultInv, NEW a \in Arts, NEW s \in Statuses, SetStatus(a, s), ObjectsStay,
         UNCHANGED staging,
         a \in Failing => s \in {"staged", "rejected"},
         s \in Reached => Sound(a)',
         s \in Undecided => a \in staging \cup Lossy
  PROVE  RowsInv'
  <1>1. /\ status'[a] = s /\ \A b \in Arts : b # a => status'[b] = status[b]
        /\ Failing \subseteq Arts
    BY SetTyped, PublicationAssumption DEF FaultInv, TypeOK, PublicationAssumption
  <1>2. \A b \in Arts : Sound(b) => Sound(b)'
    BY DEF Sound, ObjectsStay
  <1>3. QED
    BY <1>1, <1>2 DEF FaultInv, RowsInv

-----------------------------------------------------------------------------
(* Every step keeps the invariant.                                          *)

\* A step that puts no object and reviews nothing leaves the objects there.
LEMMA Untouched ==
  ASSUME UNCHANGED <<reviewed, blobs, targetsAt, snapshotAt>>
  PROVE  ObjectsStay
  BY DEF ObjectsStay

\* The administrator's calls and the scanner begin an operation on a row.
LEMMA BeginKeeps ==
  ASSUME FaultInv, TypeOK', NEW p \in Procs, NEW a \in Arts,
         StartScan(p, a) \/ Reject(p, a) \/ Approve(p, a) \/ Withdraw(p, a)
  PROVE  FaultInv'
  <1>1. PICK o \in OpNames, there \in {"scanning", "dropStaging", "acquire"} :
            /\ Begin(p, o, a, there) /\ o # "boot"
            /\ there = "dropStaging" => Reject(p, a)
    BY DEF StartScan, Reject, Approve, Withdraw, OpNames
  <1>2. /\ OthersStand(p) /\ pc'[p] = there /\ my'[p] = Locals(o, a)
    BY <1>1 DEF Begin, Step, Goto, Keep, FaultInv, TypeOK, OthersStand
  <1>3. ObjectsStay /\ UNCHANGED <<staging, timestamp>>
    BY Untouched DEF StartScan, Reject, Approve, Withdraw, dbVars, storeVars, metadataVars
  <1>4. my'[p].want = {} /\ my'[p].publishing = {} /\ my'[p].art = a
    BY <1>2 DEF Locals
  <1>5. CASE Reject(p, a)
    <2>1. CanTransitionArtifactStatus(status[a], "rejected") /\ SetStatus(a, "rejected")
      BY <1>5 DEF Reject
    <2>2. RowsMove /\ status'[a] = "rejected" /\ "rejected" \in Statuses
      BY <2>1, SetMoves, SetTyped DEF FaultInv, TypeOK, Statuses
    <2>3. RowsInv'
      BY <1>3, <2>1, <2>2, SetRows DEF Reached, Undecided
    <2>4. LocalInv(p)'
      BY <1>2, <1>4, <2>2 DEF LocalInv, InHand, StaleReadsAreSound, WrittenStays,
                              RejectedBeforeDrop
    <2>5. QED
      BY <1>2, <1>3, <2>2, <2>3, <2>4, RowStep
  <1>6. CASE ~Reject(p, a)
    <2>1. UNCHANGED status
      BY <1>6 DEF StartScan, Approve, Withdraw, dbVars
    <2>2. LocalInv(p)'
      BY <1>1, <1>2, <1>4, <1>6 DEF LocalInv, InHand, StaleReadsAreSound, WrittenStays,
                              RejectedBeforeDrop
    <2>3. QED
      BY <1>2, <1>3, <2>1, <2>2, LocalStep
  <1>7. QED
    BY <1>5, <1>6

\* A passed scan moves the row on; the upload it read is there.
LEMMA ScanPassesKeeps ==
  ASSUME FaultInv, TypeOK', NEW p \in Procs, ScanPasses(p)
  PROVE  FaultInv'
  <1> DEFINE a == my[p].art
  <1>1. a \in Arts /\ a \in staging /\ a \notin Failing
    BY DEF ScanPasses, FaultInv, LocalInv, InHand
  <1>2. ObjectsStay /\ UNCHANGED <<staging, timestamp>>
    BY Untouched DEF ScanPasses, storeVars, metadataVars
  <1>3. OthersStand(p) /\ LocalInv(p)'
    <2>1. CASE Leave(p, "idle")
      <3>1. OthersStand(p) /\ pc'[p] = "idle" /\ my'[p] = Locals("none", None)
        BY <2>1, Left DEF FaultInv, PCs, OthersStand
      <3>2. QED
        BY <3>1 DEF LocalInv, InHand, StaleReadsAreSound, WrittenStays, RejectedBeforeDrop,
                    Locals
    <2>2. CASE Goto(p, "acquire") /\ Keep(p, Locals("approve", a))
      <3>1. OthersStand(p) /\ pc'[p] = "acquire" /\ my'[p] = Locals("approve", a)
        BY <2>2 DEF Goto, Keep, FaultInv, TypeOK, OthersStand
      <3>2. my'[p].want = {} /\ my'[p].publishing = {} /\ my'[p].art = a
        BY <3>1 DEF Locals
      <3>3. QED
        BY <1>1, <3>1, <3>2 DEF LocalInv, InHand, StaleReadsAreSound, WrittenStays,
                                RejectedBeforeDrop
    <2>3. QED
      BY <2>1, <2>2 DEF ScanPasses
  <1>4. CASE CanTransitionArtifactStatus(status[a], "scanned") /\ SetStatus(a, "scanned")
    <2>1. RowsMove /\ "scanned" \in Statuses
      BY <1>4, SetMoves DEF FaultInv, TypeOK, Statuses
    <2>2. RowsInv'
      BY <1>1, <1>2, <1>4, <2>1, SetRows DEF Reached
    <2>3. QED
      BY <1>2, <1>3, <2>1, <2>2, RowStep
  <1>5. CASE UNCHANGED status
    BY <1>2, <1>3, <1>5, LocalStep
  <1>6. QED
    BY <1>4, <1>5 DEF ScanPasses

\* A refused package is rejected before its upload is dropped, unless the row update fails.
LEMMA ScanRefusesKeeps ==
  ASSUME FaultInv, TypeOK', NEW p \in Procs, ScanRefuses(p)
  PROVE  FaultInv'
  <1> DEFINE a == my[p].art
  <1>1. a \in Arts /\ a \in Failing /\ status[a] \in {"staged", "rejected"}
    BY DEF ScanRefuses, FaultInv, LocalInv, InHand, RowsInv
  <1>2. ObjectsStay /\ UNCHANGED <<staging, timestamp>>
    BY Untouched DEF ScanRefuses, storeVars, metadataVars
  <1>3. OthersStand(p) /\ pc'[p] = "dropStaging" /\ my'[p] = my[p]
    BY DEF ScanRefuses, GoOn, Goto, FaultInv, TypeOK, OthersStand
  <1>4. LocalInv(p)' <=> StaleReadsAreSound(p)' /\ RejectedBeforeDrop(p)'
    BY <1>1, <1>3 DEF LocalInv, InHand, WrittenStays
  <1>5. CASE SetStatus(a, "rejected") /\ CanTransitionArtifactStatus(status[a], "rejected")
    <2>1. RowsMove /\ status'[a] = "rejected" /\ "rejected" \in Statuses
      BY <1>1, <1>5, SetMoves, SetTyped DEF FaultInv, TypeOK, Statuses
    <2>2. RowsInv'
      BY <1>1, <1>2, <1>5, <2>1, SetRows DEF Reached, Undecided
    <2>3. StaleReadsAreSound(p)'
      <3>1. my[p].want \subseteq Arts /\ my[p].publishing \subseteq Arts
        BY FieldsTyped DEF FaultInv, TypeOK
      <3>2. QED
        BY <1>2, <1>3, <2>1, <3>1
        DEF FaultInv, LocalInv, StaleReadsAreSound, Sound, ObjectsStay, RowsMove,
            CanTransitionArtifactStatus, Undecided
    <2>4. QED
      BY <1>2, <1>3, <1>4, <2>1, <2>2, <2>3, RowStep DEF RejectedBeforeDrop
  <1>6. CASE UNCHANGED status /\ faults < MaxFaults
    <2>1. a \in Lossy
      BY <1>1, <1>6 DEF FaultInv, TypeOK, Lossy
    <2>2. StaleReadsAreSound(p)'
      <3>1. my[p].want \subseteq Arts
        BY FieldsTyped DEF FaultInv, TypeOK
      <3>2. QED
        BY <1>2, <1>3, <1>6, <3>1 DEF FaultInv, LocalInv, StaleReadsAreSound, Sound, ObjectsStay
    <2>3. QED
      BY <1>2, <1>3, <1>4, <1>6, <2>1, <2>2, LocalStep DEF RejectedBeforeDrop
  <1>7. QED
    BY <1>1, <1>5, <1>6 DEF ScanRefuses, CanTransitionArtifactStatus

\* Dropping an upload: its row is decided, or its rejection was lost.
LEMMA DropStagingKeeps ==
  ASSUME FaultInv, TypeOK', NEW p \in Procs, DropStaging(p)
  PROVE  FaultInv'
  <1>1. OthersStand(p) /\ pc'[p] = "idle" /\ my'[p] = Locals("none", None)
    BY Left DEF DropStaging, FaultInv, PCs, OthersStand
  <1>2. ObjectsStay /\ UNCHANGED <<status, timestamp>>
    BY Untouched DEF DropStaging, dbVars, metadataVars
  <1>3. RowsInv'
    BY <1>2 DEF DropStaging, FaultInv, RowsInv, LocalInv, RejectedBeforeDrop, Undecided, Sound,
                ObjectsStay
  <1>4. LocalInv(p)'
    BY <1>1 DEF LocalInv, InHand, StaleReadsAreSound, WrittenStays, RejectedBeforeDrop, Locals
  <1>5. QED
    BY <1>1, <1>2, <1>3, <1>4, StillMoves, RowStep

\* An operation that gives up, fails, is killed or is done.
LEMMA EndKeeps ==
  ASSUME FaultInv, TypeOK', NEW p \in Procs,
         Abort(p) \/ \E there \in {"idle", "down"} : Leave(p, there),
         ObjectsStay, UNCHANGED <<status, staging, timestamp>>
  PROVE  FaultInv'
  <1>1. PICK there \in {"idle", "down"} : Leave(p, there)
    BY DEF Abort
  <1>2. OthersStand(p) /\ pc'[p] = there /\ my'[p] = Locals("none", None)
    BY <1>1, Left DEF FaultInv, PCs, OthersStand
  <1>3. QED
    BY <1>2, LeavingStep

\* An operation that goes on with what it has read.
LEMMA GoOnKeeps ==
  ASSUME FaultInv, TypeOK', NEW p \in Procs, NEW there \in PCs, Goto(p, there), UNCHANGED my,
         ObjectsStay, UNCHANGED <<status, staging, timestamp>>,
         InHand(p)', WrittenStays(p)', there \notin {"confirm", "dropStaging"}
  PROVE  FaultInv'
  <1>1. OthersStand(p) /\ pc'[p] = there /\ my'[p] = my[p]
    BY DEF Goto, FaultInv, TypeOK, OthersStand
  <1>2. my[p].want \subseteq Arts
    BY FieldsTyped DEF FaultInv, TypeOK
  <1>3. StaleReadsAreSound(p)' /\ RejectedBeforeDrop(p)'
    BY <1>1, <1>2 DEF FaultInv, LocalInv, StaleReadsAreSound, RejectedBeforeDrop, Sound,
                      ObjectsStay
  <1>4. QED
    BY <1>1, <1>3, LocalStep DEF LocalInv

\* Taking the lease, and the switch on the status read under it.
LEMMA DecideKeeps ==
  ASSUME FaultInv, TypeOK', NEW p \in Procs, Acquire(p) \/ DecideApprove(p) \/ DecideWithdraw(p)
  PROVE  FaultInv'
  <1>1. ObjectsStay /\ UNCHANGED <<status, staging, timestamp>>
    BY Untouched DEF Acquire, DecideApprove, DecideWithdraw, dbVars, storeVars, metadataVars
  <1>2. CASE Abort(p)
    BY <1>1, <1>2, EndKeeps
  <1>3. ASSUME NEW there \in {"decide", "copy", "retire", "listPublished"},
               Goto(p, there), UNCHANGED my
        PROVE  FaultInv'
    <2>1. pc'[p] = there /\ there \in PCs
      BY <1>3 DEF Goto, FaultInv, TypeOK, PCs, Leased
    <2>2. there # "listPublished" => my[p].art \in Arts
      BY <1>3, <2>1 DEF Acquire, DecideApprove, DecideWithdraw, Step, Goto, GoOn, FaultInv,
                        LocalInv, InHand
    <2>3. InHand(p)' /\ WrittenStays(p)'
      BY <1>3, <2>1, <2>2 DEF InHand, WrittenStays
    <2>4. QED
      BY <1>1, <1>3, <2>1, <2>3, GoOnKeeps
  <1>4. QED
    BY <1>2, <1>3 DEF Acquire, DecideApprove, DecideWithdraw, Step, GoOn

\* The copy to published/ adds an object.
LEMMA CopyKeeps ==
  ASSUME FaultInv, TypeOK', NEW p \in Procs, CopyToPublished(p)
  PROVE  FaultInv'
  <1>1. ObjectsStay /\ UNCHANGED <<status, staging, timestamp>>
    BY DEF CopyToPublished, ObjectsStay, dbVars, metadataVars
  <1>2. CASE Abort(p)
    BY <1>1, <1>2, EndKeeps
  <1>3. CASE blobs' = blobs \cup {my[p].art} /\ GoOn(p, "intend")
    <2>1. my[p].art \in Arts
      BY DEF CopyToPublished, FaultInv, LocalInv, InHand
    <2>2. pc'[p] = "intend" /\ "intend" \in PCs /\ UNCHANGED my /\ Goto(p, "intend")
      BY <1>3 DEF GoOn, Goto, FaultInv, TypeOK, PCs, Leased
    <2>3. InHand(p)' /\ WrittenStays(p)'
      BY <1>3, <2>1, <2>2 DEF InHand, WrittenStays
    <2>4. QED
      BY <1>1, <2>2, <2>3, GoOnKeeps
  <1>4. QED
    BY <1>2, <1>3 DEF CopyToPublished

\* A row written under the lease, with what the process goes on with.
LEMMA IntentKeeps ==
  ASSUME FaultInv, TypeOK', NEW p \in Procs, PersistPublishIntent(p) \/ PersistWithdrawIntent(p)
  PROVE  FaultInv'
  <1>1. ObjectsStay /\ UNCHANGED <<staging, timestamp>>
    BY DEF PersistPublishIntent, PersistWithdrawIntent, ObjectsStay, storeVars, metadataVars,
           FaultInv, TypeOK
  <1>2. PICK a \in Arts : a = my[p].art /\ (pc[p] = "intend" => a \in blobs)
    BY DEF PersistPublishIntent, PersistWithdrawIntent, FaultInv, LocalInv, InHand
  <1>3. CASE Abort(p) /\ UNCHANGED status
    BY <1>1, <1>3, EndKeeps
  <1>4. ASSUME NEW s \in {"publish-pending", "withdraw-pending"},
               CanTransitionArtifactStatus(status[a], s), SetStatus(a, s), Sound(a)',
               GoOn(p, "listPublished")
        PROVE  FaultInv'
    <2>1. RowsMove /\ s \in Statuses /\ s \notin Undecided /\ a \notin Failing
      BY <1>4, SetMoves DEF FaultInv, TypeOK, Statuses, Undecided, Sound
    <2>2. RowsInv'
      BY <1>1, <1>2, <1>4, <2>1, SetRows
    <2>3. OthersStand(p) /\ pc'[p] = "listPublished" /\ my'[p] = my[p]
      BY <1>4 DEF GoOn, Goto, FaultInv, TypeOK, OthersStand
    <2>4. my[p].want \subseteq Arts /\ my[p].publishing \subseteq Arts
      BY FieldsTyped DEF FaultInv, TypeOK
    <2>5. LocalInv(p)'
      BY <1>1, <2>1, <2>3, <2>4
      DEF FaultInv, LocalInv, InHand, StaleReadsAreSound, WrittenStays, RejectedBeforeDrop,
          Sound, ObjectsStay, RowsMove, CanTransitionArtifactStatus, Undecided
    <2>6. QED
      BY <1>1, <2>1, <2>2, <2>3, <2>5, RowStep
  <1>5. CASE PersistPublishIntent(p) /\ SetStatus(a, "publish-pending")
    <2>1. CASE CanTransitionArtifactStatus(status[a], "publish-pending")
      <3>1. status[a] \notin {"staged", "rejected"}
        BY <2>1 DEF CanTransitionArtifactStatus
      <3>2. a \in blobs' /\ reviewed'[a] /\ a \notin Failing /\ GoOn(p, "listPublished")
        <4>1. reviewed' = [reviewed EXCEPT ![a] = TRUE] /\ GoOn(p, "listPublished")
          BY <1>2, <1>5, <2>1 DEF PersistPublishIntent
        <4>2. a \in blobs'
          BY <1>1, <1>2, <1>5 DEF PersistPublishIntent, ObjectsStay
        <4>3. reviewed'[a] /\ a \notin Failing
          BY <3>1, <4>1 DEF FaultInv, TypeOK, RowsInv
        <4>4. QED
          BY <4>1, <4>2, <4>3
      <3>3. QED
        BY <1>4, <1>5, <2>1, <3>2 DEF Sound
    <2>2. CASE ~CanTransitionArtifactStatus(status[a], "publish-pending")
      BY <1>2, <1>3, <1>5, <2>2 DEF PersistPublishIntent
    <2>3. QED
      BY <2>1, <2>2
  <1>6. CASE PersistWithdrawIntent(p) /\ SetStatus(a, "withdraw-pending")
    <2>1. CASE CanTransitionArtifactStatus(status[a], "withdraw-pending")
      <3>1. status[a] \in Reached
        BY <2>1 DEF CanTransitionArtifactStatus, Reached
      <3>2. Sound(a)' /\ GoOn(p, "listPublished")
        BY <1>1, <1>2, <1>6, <2>1, <3>1
        DEF PersistWithdrawIntent, FaultInv, RowsInv, Sound, ObjectsStay
      <3>3. QED
        BY <1>4, <1>6, <2>1, <3>2
    <2>2. CASE ~CanTransitionArtifactStatus(status[a], "withdraw-pending")
      BY <1>2, <1>3, <1>6, <2>2 DEF PersistWithdrawIntent
    <2>3. QED
      BY <2>1, <2>2
  <1>7. QED
    BY <1>2, <1>3, <1>5, <1>6 DEF PersistPublishIntent, PersistWithdrawIntent

\* What the three reads of publishMetadataLocked put together is sound at their times.
LEMMA ListKeeps ==
  ASSUME FaultInv, TypeOK', NEW p \in Procs,
         ListPublished(p) \/ ListPublishing(p) \/ ListRetiring(p)
  PROVE  FaultInv'
  <1>1. ObjectsStay /\ UNCHANGED <<status, staging, timestamp, reviewed, blobs>>
    BY Untouched DEF ListPublished, ListPublishing, ListRetiring, dbVars, storeVars, metadataVars
  <1>2. CASE Abort(p)
    BY <1>1, <1>2, EndKeeps
  <1>3. ASSUME NEW l \in LocalVars, NEW there \in {"listPublishing", "listRetiring", "version"},
               Goto(p, there), Keep(p, l),
               \A a \in l.want : Sound(a), \A a \in l.publishing : status[a] \notin Undecided
        PROVE  FaultInv'
    <2>1. OthersStand(p) /\ pc'[p] = there /\ my'[p] = l
      BY <1>3 DEF Goto, Keep, FaultInv, TypeOK, OthersStand
    <2>2. LocalInv(p)'
      BY <1>1, <1>3, <2>1 DEF LocalInv, InHand, StaleReadsAreSound, WrittenStays,
                              RejectedBeforeDrop, Sound
    <2>3. QED
      BY <1>1, <2>1, <2>2, LocalStep
  <1>4. my[p] \in LocalVars /\ StaleReadsAreSound(p)
    BY DEF FaultInv, TypeOK, LocalInv
  <1>5. \A s \in Reached : /\ WithStatus(s) \in SUBSET Arts /\ \A a \in WithStatus(s) : Sound(a)
                           /\ \A a \in WithStatus(s) : status[a] \notin Undecided
    BY DEF FaultInv, RowsInv, WithStatus, Undecided, Reached
  <1>6. CASE ListPublished(p)
    <2> DEFINE l == [my[p] EXCEPT !.want = WithStatus("published")]
    <2>1. l \in LocalVars
      BY <1>4, <1>5, UpdatesTyped DEF Reached
    <2>2. l.want = WithStatus("published") /\ l.publishing = my[p].publishing
      BY <1>4 DEF LocalVars
    <2>3. Goto(p, "listPublishing") /\ Keep(p, l)
      BY <1>6 DEF ListPublished, Step
    <2> HIDE DEF l
    <2>4. QED
      BY <1>3, <1>4, <1>5, <2>1, <2>2, <2>3 DEF StaleReadsAreSound, Reached
  <1>7. CASE ListPublishing(p)
    <2> DEFINE l == [my[p] EXCEPT !.publishing = WithStatus("publish-pending"),
                                  !.want = @ \cup WithStatus("publish-pending")]
    <2>1. l \in LocalVars
      BY <1>4, <1>5, UpdatesTyped DEF Reached
    <2>2. /\ l.want = my[p].want \cup WithStatus("publish-pending")
          /\ l.publishing = WithStatus("publish-pending")
      BY <1>4 DEF LocalVars
    <2>3. Goto(p, "listRetiring") /\ Keep(p, l)
      BY <1>7 DEF ListPublishing, Step
    <2> HIDE DEF l
    <2>4. QED
      BY <1>3, <1>4, <1>5, <2>1, <2>2, <2>3 DEF StaleReadsAreSound, Reached
  <1>8. CASE ListRetiring(p) /\ ~Abort(p)
    <2> DEFINE l == [my[p] EXCEPT !.retiring = WithStatus("withdraw-pending")]
    <2>1. l \in LocalVars
      BY <1>4, <1>5, UpdatesTyped DEF Reached
    <2>2. l.want = my[p].want /\ l.publishing = my[p].publishing
      BY <1>4 DEF LocalVars
    <2>3. Goto(p, "version") /\ Keep(p, l)
      BY <1>8 DEF ListRetiring
    <2> HIDE DEF l
    <2>4. QED
      BY <1>3, <1>4, <2>1, <2>2, <2>3 DEF StaleReadsAreSound
  <1>9. QED
    BY <1>2, <1>6, <1>7, <1>8

\* An allocated version, and a conflict that asks for another one.
LEMMA VersionKeeps ==
  ASSUME FaultInv, TypeOK', NEW p \in Procs, ObjectsStay, UNCHANGED <<status, staging, timestamp>>,
         NEW l \in LocalVars, NEW there \in {"version", "putTargets"}, Goto(p, there), Keep(p, l),
         l.want = my[p].want, l.publishing = my[p].publishing
  PROVE  FaultInv'
  <1>1. OthersStand(p) /\ pc'[p] = there /\ my'[p] = l
    BY DEF Goto, Keep, FaultInv, TypeOK, OthersStand
  <1>2. l.want \subseteq Arts
    BY FieldsTyped
  <1>3. LocalInv(p)'
    BY <1>1, <1>2 DEF FaultInv, LocalInv, InHand, StaleReadsAreSound, WrittenStays,
                      RejectedBeforeDrop, Sound, ObjectsStay
  <1>4. QED
    BY <1>1, <1>3, LocalStep

\* MetadataPublishLease.NextVersion fails in a process that lost the lease.
LEMMA NextVersionKeeps ==
  ASSUME FaultInv, TypeOK', NEW p \in Procs, NextVersion(p)
  PROVE  FaultInv'
  <1>1. ObjectsStay /\ UNCHANGED <<status, staging, timestamp>>
    BY Untouched DEF NextVersion, storeVars, metadataVars
  <1>2. CASE lease = p
    <2>1. PICK n : Keep(p, [my[p] EXCEPT !.ver = n]) /\ Goto(p, "putTargets") /\ n = lastVersion'
      BY <1>2 DEF NextVersion
    <2>2. n \in Nat /\ my[p] \in LocalVars
      BY <2>1 DEF FaultInv, TypeOK
    <2> DEFINE l == [my[p] EXCEPT !.ver = n]
    <2>3. l \in LocalVars /\ l.want = my[p].want /\ l.publishing = my[p].publishing
      BY <2>2, UpdatesTyped DEF LocalVars
    <2>4. Keep(p, l) /\ Goto(p, "putTargets")
      BY <2>1
    <2> HIDE DEF l
    <2>5. QED
      BY <1>1, <2>3, <2>4, VersionKeeps
  <1>3. CASE lease # p
    BY <1>1, <1>3, EndKeeps DEF NextVersion
  <1>4. QED
    BY <1>2, <1>3

\* ErrObjectConflict touches nothing.
LEMMA ConflictKeeps ==
  ASSUME FaultInv, TypeOK', NEW p \in Procs, Conflict(p), ObjectsStay,
         UNCHANGED <<status, staging, timestamp>>
  PROVE  FaultInv'
  <1> DEFINE l == [my[p] EXCEPT !.tries = @ + 1]
  <1>1. l \in LocalVars /\ l.want = my[p].want /\ l.publishing = my[p].publishing
    <2>1. my[p] \in LocalVars
      BY DEF FaultInv, TypeOK
    <2>2. QED
      BY <2>1, UpdatesTyped DEF LocalVars
  <1>2. CASE Goto(p, "version") /\ Keep(p, l)
    <2> HIDE DEF l
    <2>1. QED
      BY <1>1, <1>2, VersionKeeps
  <1>3. CASE Abort(p)
    BY <1>3, EndKeeps
  <1>4. QED
    BY <1>2, <1>3 DEF Conflict

\* Two processes may write under one version only what is the same.
LEMMA PutKeeps ==
  ASSUME FaultInv, TypeOK', NEW p \in Procs, PutTargets(p) \/ PutSnapshot(p)
  PROVE  FaultInv'
  <1>1. UNCHANGED <<status, reviewed, staging, blobs, timestamp>>
    BY DEF PutTargets, PutSnapshot, dbVars
  <1>2. CASE Conflict(p) /\ UNCHANGED <<targetsAt, snapshotAt>>
    BY <1>1, <1>2, Untouched, ConflictKeeps
  <1>3. CASE PutTargets(p) /\ Free(targetsAt, my[p].ver, my[p].want)
    <2>1. targetsAt' = Added(targetsAt, my[p].ver, my[p].want) /\ UNCHANGED <<snapshotAt, my>>
          /\ Goto(p, "putSnapshot")
      BY <1>3 DEF PutTargets, GoOn
    <2>2. ObjectsStay /\ my[p].ver \in DOMAIN targetsAt' /\ targetsAt'[my[p].ver] = my[p].want
      BY <1>1, <1>3, <2>1, AddedStays DEF ObjectsStay
    <2>3. pc'[p] = "putSnapshot" /\ "putSnapshot" \in PCs
      BY <2>1 DEF Goto, FaultInv, TypeOK, PCs, Leased
    <2>4. InHand(p)' /\ WrittenStays(p)'
      BY <2>1, <2>2, <2>3 DEF InHand, WrittenStays
    <2>5. QED
      BY <1>1, <2>1, <2>2, <2>3, <2>4, GoOnKeeps
  <1>4. CASE PutSnapshot(p) /\ Free(snapshotAt, my[p].ver, my[p].want)
    <2>1. snapshotAt' = Added(snapshotAt, my[p].ver, my[p].want) /\ UNCHANGED <<targetsAt, my>>
          /\ Goto(p, "putTimestamp") /\ pc[p] = "putSnapshot"
      BY <1>4 DEF PutSnapshot, GoOn
    <2>2. ObjectsStay /\ my[p].ver \in DOMAIN snapshotAt' /\ snapshotAt'[my[p].ver] = my[p].want
      BY <1>1, <1>4, <2>1, AddedStays DEF ObjectsStay
    <2>3. pc'[p] = "putTimestamp" /\ "putTimestamp" \in PCs
      BY <2>1 DEF Goto, FaultInv, TypeOK, PCs, Leased
    <2>4. InHand(p)' /\ WrittenStays(p)'
      BY <2>1, <2>2, <2>3 DEF FaultInv, LocalInv, InHand, WrittenStays
    <2>5. QED
      BY <1>1, <2>1, <2>2, <2>3, <2>4, GoOnKeeps
  <1>5. QED
    BY <1>2, <1>3, <1>4 DEF PutTargets, PutSnapshot

\* timestamp.json then points to a snapshot and targets that are there, of sound releases.
LEMMA PutTimestampKeeps ==
  ASSUME FaultInv, TypeOK', NEW p \in Procs, PutTimestamp(p)
  PROVE  FaultInv'
  <1>1. /\ UNCHANGED <<status, reviewed, staging, blobs, targetsAt, snapshotAt>> /\ UNCHANGED my
        /\ timestamp' = [ver |-> my[p].ver, targets |-> my[p].want] /\ pc[p] = "putTimestamp"
    BY DEF PutTimestamp, Step, dbVars
  <1>2. OthersStand(p) /\ pc'[p] = "finish" /\ my'[p] = my[p]
    BY <1>1 DEF PutTimestamp, Step, Goto, FaultInv, TypeOK, OthersStand
  <1>3. RowsMove /\ ObjectsStay
    BY <1>1, StillMoves, Untouched
  <1>4. LocalInv(p)'
    BY <1>1, <1>2 DEF FaultInv, LocalInv, InHand, StaleReadsAreSound, WrittenStays,
                      RejectedBeforeDrop, Sound
  <1>5. RowsInv'
    BY <1>1 DEF FaultInv, RowsInv, Sound
  <1>6. ListingInv'
    <2>1. WrittenStays(p) /\ StaleReadsAreSound(p)
      BY DEF FaultInv, LocalInv
    <2>2. Listed' = my[p].want /\ timestamp'.ver = my[p].ver
      BY <1>1 DEF Listed
    <2>3. QED
      BY <1>1, <2>1, <2>2 DEF ListingInv, ConsistentSnapshot, WrittenStays, StaleReadsAreSound,
                              Sound
  <1>7. QED
    BY <1>2, <1>3, <1>4, <1>5, <1>6, OthersKeep DEF FaultInv

\* Finalization drops an upload of an intent and writes the row it read as one.
LEMMA ClearStagingKeeps ==
  ASSUME FaultInv, TypeOK', NEW p \in Procs, NEW a \in Arts, ClearStaging(p, a)
  PROVE  FaultInv'
  <1> DEFINE l == [my[p] EXCEPT !.art = a]
  <1>1. /\ ObjectsStay /\ UNCHANGED <<status, timestamp>> /\ staging' = staging \ {a}
        /\ a \in my[p].publishing
    BY Untouched DEF ClearStaging, dbVars, metadataVars
  <1>2. my[p] \in LocalVars /\ my[p].want \subseteq Arts
    BY FieldsTyped DEF FaultInv, TypeOK
  <1>3. l.art = a /\ l.want = my[p].want /\ l.publishing = my[p].publishing
    BY <1>2 DEF LocalVars
  <1>4. OthersStand(p) /\ pc'[p] = "confirm" /\ my'[p] = l
    BY DEF ClearStaging, Step, Goto, Keep, FaultInv, TypeOK, OthersStand
  <1> HIDE DEF l
  <1>5. status[a] \notin Undecided
    BY <1>1 DEF FaultInv, LocalInv, StaleReadsAreSound
  <1>6. RowsInv'
    BY <1>1, <1>5 DEF FaultInv, RowsInv, Sound, ObjectsStay
  <1>7. LocalInv(p)'
    BY <1>1, <1>2, <1>3, <1>4 DEF FaultInv, LocalInv, InHand, StaleReadsAreSound, WrittenStays,
                                  RejectedBeforeDrop, Sound, ObjectsStay
  <1>8. QED
    BY <1>1, <1>4, <1>6, <1>7, StillMoves, RowStep

\* Finalization writes the rows of the intents, published first, then withdrawn.
LEMMA ConfirmKeeps ==
  ASSUME FaultInv, TypeOK', NEW p \in Procs,
         ConfirmPublished(p) \/ \E a \in Arts : ConfirmWithdrawn(p, a)
  PROVE  FaultInv'
  <1>1. ObjectsStay /\ UNCHANGED <<staging, timestamp>>
    BY Untouched DEF ConfirmPublished, ConfirmWithdrawn, storeVars, metadataVars
  <1>2. CASE Abort(p) /\ UNCHANGED status
    BY <1>1, <1>2, EndKeeps
  <1>3. my[p] \in LocalVars /\ my[p].want \subseteq Arts /\ my[p].publishing \subseteq Arts
    BY FieldsTyped DEF FaultInv, TypeOK
  <1>4. ASSUME NEW a \in Arts, NEW s \in {"published", "withdrawn"}, NEW l \in LocalVars,
               CanTransitionArtifactStatus(status[a], s), SetStatus(a, s),
               s = "published" => status[a] \in Reached,
               a \notin Failing, pc'[p] = "finish", my'[p] = l, OthersStand(p),
               l.want = my[p].want, l.publishing \subseteq my[p].publishing
        PROVE  FaultInv'
    <2>1. RowsMove /\ s \in Statuses /\ s \notin Undecided
      BY <1>4, SetMoves DEF FaultInv, TypeOK, Statuses, Undecided
    <2>2. s \in Reached => Sound(a)'
      BY <1>1, <1>4 DEF FaultInv, RowsInv, Reached, Sound, ObjectsStay
    <2>3. RowsInv'
      BY <1>1, <1>4, <2>1, <2>2, SetRows
    <2>4. LocalInv(p)'
      BY <1>1, <1>3, <1>4, <2>1
      DEF FaultInv, LocalInv, InHand, StaleReadsAreSound, WrittenStays, RejectedBeforeDrop,
          Sound, ObjectsStay, RowsMove, CanTransitionArtifactStatus, Undecided
    <2>5. QED
      BY <1>1, <1>4, <2>1, <2>3, <2>4, RowStep
  <1>5. CASE ConfirmPublished(p)
    <2> DEFINE l == [my[p] EXCEPT !.publishing = @ \ {my[p].art}]
    <2>1. PICK a \in Arts : a = my[p].art
      BY <1>3, <1>5 DEF ConfirmPublished, FaultInv, LocalInv, StaleReadsAreSound
    <2>2. CASE CanTransitionArtifactStatus(status[a], "published")
      <3>1. /\ SetStatus(a, "published") /\ Goto(p, "finish") /\ Keep(p, l)
            /\ pc[p] = "confirm"
        BY <1>5, <2>1, <2>2 DEF ConfirmPublished
      <3>2. OthersStand(p) /\ pc'[p] = "finish" /\ my'[p] = l
        BY <3>1 DEF Goto, Keep, FaultInv, TypeOK, OthersStand
      <3>3. l \in LocalVars /\ l.want = my[p].want /\ l.publishing \subseteq my[p].publishing
        BY <1>3, UpdatesTyped DEF LocalVars
      <3>4. status[a] \in Reached
        BY <2>2 DEF CanTransitionArtifactStatus, Reached
      <3>5. a \notin Failing
        BY <3>4 DEF FaultInv, RowsInv, Reached
      <3> HIDE DEF l
      <3>6. QED
        BY <1>4, <2>2, <3>1, <3>2, <3>3, <3>4, <3>5
    <2>3. CASE ~CanTransitionArtifactStatus(status[a], "published")
      BY <1>2, <1>5, <2>1, <2>3 DEF ConfirmPublished
    <2>4. QED
      BY <2>2, <2>3
  <1>6. ASSUME NEW a \in Arts, ConfirmWithdrawn(p, a) PROVE FaultInv'
    <2> DEFINE l == [my[p] EXCEPT !.retiring = @ \ {a}]
    <2>1. CASE CanTransitionArtifactStatus(status[a], "withdrawn")
      <3>1. SetStatus(a, "withdrawn") /\ UNCHANGED pc /\ Keep(p, l) /\ pc[p] = "finish"
        BY <1>6, <2>1 DEF ConfirmWithdrawn
      <3>2. OthersStand(p) /\ pc'[p] = "finish" /\ my'[p] = l
        BY <3>1 DEF Keep, FaultInv, TypeOK, OthersStand
      <3>3. l \in LocalVars /\ l.want = my[p].want /\ l.publishing \subseteq my[p].publishing
        BY <1>3, UpdatesTyped DEF LocalVars
      <3>4. a \notin Failing
        BY <2>1 DEF FaultInv, RowsInv, CanTransitionArtifactStatus
      <3> HIDE DEF l
      <3>5. QED
        BY <1>4, <2>1, <3>1, <3>2, <3>3, <3>4
    <2>2. CASE ~CanTransitionArtifactStatus(status[a], "withdrawn")
      BY <1>2, <1>6, <2>2 DEF ConfirmWithdrawn
    <2>3. QED
      BY <2>1, <2>2
  <1>7. QED
    BY <1>5, <1>6

\* Boot starts idle or with nothing read.
LEMMA BootKeeps ==
  ASSUME FaultInv, TypeOK', NEW p \in Procs, Boot(p)
  PROVE  FaultInv'
  <1>1. ObjectsStay /\ UNCHANGED <<status, staging, timestamp>>
    BY Untouched DEF Boot, dbVars, storeVars, metadataVars
  <1>2. CASE Goto(p, "idle") /\ UNCHANGED my
    <2>1. pc'[p] = "idle" /\ "idle" \in PCs
      BY <1>2 DEF Goto, FaultInv, TypeOK, PCs
    <2>2. InHand(p)' /\ WrittenStays(p)'
      BY <2>1 DEF InHand, WrittenStays
    <2>3. QED
      BY <1>1, <1>2, <2>1, <2>2, GoOnKeeps
  <1>3. CASE Goto(p, "acquire") /\ Keep(p, Locals("boot", None))
    <2>1. OthersStand(p) /\ pc'[p] = "acquire" /\ my'[p] = Locals("boot", None)
      BY <1>3 DEF Goto, Keep, FaultInv, TypeOK, OthersStand
    <2>2. LocalInv(p)'
      BY <2>1 DEF LocalInv, InHand, StaleReadsAreSound, WrittenStays, RejectedBeforeDrop, Locals
    <2>3. QED
      BY <1>1, <2>1, <2>2, LocalStep
  <1>4. QED
    BY <1>2, <1>3 DEF Boot

\* Nothing read is touched when the lease goes, or nothing at all happens.
LEMMA StandingKeeps ==
  ASSUME FaultInv, TypeOK', UNCHANGED <<dbVars, storeVars, pc, my>>
  PROVE  FaultInv'
  <1>1. UNCHANGED <<status, reviewed, staging, blobs, targetsAt, snapshotAt, timestamp>>
    BY DEF dbVars, storeVars, metadataVars
  <1>2. RowsInv' /\ ListingInv'
    BY <1>1 DEF FaultInv, RowsInv, ListingInv, Sound, ConsistentSnapshot, Listed
  <1>3. \A p \in Procs : LocalInv(p)'
    BY <1>1 DEF FaultInv, LocalInv, InHand, StaleReadsAreSound, WrittenStays,
                RejectedBeforeDrop, Sound
  <1>4. QED
    BY <1>2, <1>3 DEF FaultInv

\* Every step of the pipeline, lease lost or not, keeps the invariant.
LEMMA FaultInvStep == FaultInv /\ [Next]_vars => FaultInv'
  <1> SUFFICES ASSUME FaultInv, [Next]_vars PROVE FaultInv'
    OBVIOUS
  <1>1. TypeOK'
    BY TypeStep DEF FaultInv
  <1>2. CASE UNCHANGED vars
    BY <1>1, <1>2, StandingKeeps DEF vars
  <1>3. ASSUME NEW p \in Procs, Continue(p) PROVE FaultInv'
    <2>1. CASE ScanPasses(p) \/ ScanRefuses(p) \/ DropStaging(p)
      BY <1>1, <2>1, ScanPassesKeeps, ScanRefusesKeeps, DropStagingKeeps
    <2>2. CASE ScanFindsNothing(p) \/ Finish(p)
      <3>1. Leave(p, "idle") /\ ObjectsStay /\ UNCHANGED <<status, staging, timestamp>>
        BY <2>2, Untouched DEF ScanFindsNothing, Finish, dbVars, storeVars, metadataVars
      <3>2. QED
        BY <1>1, <3>1, EndKeeps
    <2>3. CASE Acquire(p) \/ DecideApprove(p) \/ DecideWithdraw(p) \/ CopyToPublished(p)
      BY <1>1, <2>3, DecideKeeps, CopyKeeps
    <2>4. CASE PersistPublishIntent(p) \/ PersistWithdrawIntent(p)
      BY <1>1, <2>4, IntentKeeps
    <2>5. CASE ListPublished(p) \/ ListPublishing(p) \/ ListRetiring(p) \/ NextVersion(p)
      BY <1>1, <2>5, ListKeeps, NextVersionKeeps
    <2>6. CASE PutTargets(p) \/ PutSnapshot(p) \/ PutTimestamp(p)
      BY <1>1, <2>6, PutKeeps, PutTimestampKeeps
    <2>7. CASE \E a \in Arts : ClearStaging(p, a) \/ ConfirmWithdrawn(p, a)
      BY <1>1, <2>7, ClearStagingKeeps, ConfirmKeeps
    <2>8. CASE ConfirmPublished(p) \/ Boot(p)
      BY <1>1, <2>8, ConfirmKeeps, BootKeeps
    <2>9. QED
      BY <1>3, <2>1, <2>2, <2>3, <2>4, <2>5, <2>6, <2>7, <2>8 DEF Continue
  <1>4. ASSUME NEW p \in Procs, Fail(p) \/ Crash(p) PROVE FaultInv'
    <2>1. ObjectsStay /\ UNCHANGED <<status, staging, timestamp>>
      BY <1>4, Untouched DEF Fail, Crash, dbVars, storeVars, metadataVars
    <2>2. QED
      BY <1>1, <1>4, <2>1, EndKeeps DEF Fail, Crash
  <1>5. ASSUME NEW p \in Procs, DropLease(p) PROVE FaultInv'
    BY <1>1, <1>5, StandingKeeps DEF DropLease
  <1>6. ASSUME NEW p \in Procs, NEW a \in Arts,
               StartScan(p, a) \/ Reject(p, a) \/ Approve(p, a) \/ Withdraw(p, a)
        PROVE  FaultInv'
    BY <1>1, <1>6, BeginKeeps
  <1>7. QED
    BY <1>2, <1>3, <1>4, <1>5, <1>6 DEF Next, Quiescent

\* The servers start over staged and legacy rows; a legacy row passed its scan.
LEMMA FaultInvInit ==
  ASSUME Failing \cap Legacy = {}
  PROVE  Init => FaultInv
  <1> SUFFICES ASSUME Init PROVE FaultInv
    OBVIOUS
  <1>1. TypeOK /\ Failing \subseteq Arts /\ Legacy \subseteq Arts
    BY TypeInit, PublicationAssumption DEF PublicationAssumption
  <1>2. RowsInv
    BY <1>1 DEF Init, RowsInv, Sound, Reached, Undecided
  <1>3. ListingInv
    BY <1>1 DEF Init, ListingInv, Sound, ConsistentSnapshot, Listed
  <1>4. \A p \in Procs : LocalInv(p)
    BY Rests DEF Init
  <1>5. QED
    BY <1>1, <1>2, <1>3, <1>4 DEF FaultInv

-----------------------------------------------------------------------------
(* The theorems.  A legacy row was published, so its package passed.        *)

\* With the lease lost or kept, the invariant holds.
THEOREM FaultInvariance ==
  ASSUME Failing \cap Legacy = {}
  PROVE  Spec => []FaultInv
  BY FaultInvInit, FaultInvStep, PTL DEF Spec

\* A client that follows timestamp.json finds the snapshot and the targets of that very
\* version, even when two processes publish at once (PutIfAbsentOrSame).
THEOREM SnapshotConsistent ==
  ASSUME Failing \cap Legacy = {}
  PROVE  Spec => []ConsistentSnapshot
  <1>1. FaultInv => ConsistentSnapshot
    BY DEF FaultInv, ListingInv
  <1>2. QED
    BY <1>1, FaultInvariance, PTL

\* What is listed can be downloaded and was reviewed, with the lease lost as well.
THEOREM ListedServableAnyway ==
  ASSUME Failing \cap Legacy = {}
  PROVE  Spec => []ListedIsServable
  <1>1. FaultInv => ListedIsServable
    BY DEF FaultInv, ListingInv, Sound, ListedIsServable
  <1>2. QED
    BY <1>1, FaultInvariance, PTL

\* A refused package is rejected before its upload is dropped and is never listed, as long
\* as no call fails: RunScan drops the error of the row update.
THEOREM RefusedRejected ==
  ASSUME Failing \cap Legacy = {}, MaxFaults = 0
  PROVE  Spec => []RefusedStaysRefused
  <1>1. FaultInv => RefusedStaysRefused
    BY DEF FaultInv, LocalInv, RejectedBeforeDrop, Lossy, ListingInv, Sound, RefusedStaysRefused
  <1>2. QED
    BY <1>1, FaultInvariance, PTL

\* An undecided release keeps its upload, unless a call fails and its package is one the
\* scan refuses.
THEOREM UndecidedKept ==
  ASSUME Failing \cap Legacy = {}, MaxFaults = 0 \/ Failing = {}
  PROVE  Spec => []UndecidedKeepsUpload
  <1>1. FaultInv => UndecidedKeepsUpload
    BY DEF FaultInv, RowsInv, Lossy, Undecided, UndecidedKeepsUpload, WithStatus
  <1>2. QED
    BY <1>1, FaultInvariance, PTL
=============================================================================
