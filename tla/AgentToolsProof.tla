-------------------------- MODULE AgentToolsProof ---------------------------
(***************************************************************************)
(* Theorems about the tools an agent drives on the user's machine, for any *)
(* acquisitions, raw objects, failed closes, steps, operations, documents  *)
(* and closes: the resources behind a browser session (BrowserResources),  *)
(* the session itself (ComputerUse), and the destinations its policy lets  *)
(* it report (DestinationPolicy); and about the builders that make the     *)
(* Agent Kit those tools come in (AgentKit).                               *)
(***************************************************************************)
EXTENDS ComputerUse, BrowserResources, DestinationPolicy, AgentKit, TLAPS

-----------------------------------------------------------------------------
(***************************************************************************)
(* The resources: no guard is closed before the browser behind it, an open *)
(* session keeps its resources, and an object that started to close takes  *)
(* no new claim, objects used as guard and as driver at once included.     *)
(***************************************************************************)

-----------------------------------------------------------------------------
(* The inductive invariant, per acquisition.                                *)

Before == {"idle", "guard", "late guard", "dropped"}
AtContext == {"context", "late context"}
Given == {"ready", "shut", "failed"}
Places == Before \union AtContext \union Given

Resource == [claims : SUBSET Claims, requested : SUBSET Claims, accepting : BOOLEAN,
             closing : BOOLEAN, closed : BOOLEAN, failures : 0..MaxFailures]
Acquisition == [pc : Places, guard : Guards \union {NoResource},
                driver : Drivers \union {NoResource}, rejected : Drivers \union {NoResource},
                dependency : {"pending", "satisfied"} \union Drivers, quarantined : BOOLEAN,
                advance : {None, "start", "driver", "guard"}, completed : BOOLEAN]

\* What createSession has come to know at each place, and where a close may be under way.
Stage(a) ==
    /\ acq[a].pc \in Before => acq[a].guard = NoResource
    /\ acq[a].pc \in Before \union {"context", "ready"} =>
         acq[a].advance = None /\ ~acq[a].quarantined
    /\ acq[a].pc \in Before \union AtContext =>
         /\ acq[a].driver = NoResource /\ acq[a].rejected = NoResource
         /\ acq[a].dependency = "pending"
    /\ acq[a].pc \notin Before => acq[a].guard # NoResource
    /\ acq[a].pc = "late context" => acq[a].advance \in {None, "start"}
    /\ acq[a].pc \in Given => acq[a].dependency # "pending"
    /\ acq[a].pc = "ready" => acq[a].driver # NoResource
    /\ acq[a].advance = "driver" => acq[a].driver # NoResource

\* At most one context came of it, taken or rejected; the guard waits for that one, and is
\* let go when it has closed.
Settled(a) ==
    /\ acq[a].driver = NoResource \/ acq[a].rejected = NoResource
    /\ acq[a].dependency \in Drivers => acq[a].dependency \in {acq[a].driver, acq[a].rejected}
    /\ acq[a].dependency = "satisfied" =>
         /\ acq[a].driver # NoResource => res[acq[a].driver].closed
         /\ acq[a].rejected # NoResource => res[acq[a].rejected].closed

\* What an acquisition holds it has claimed, and it has asked for the close of nothing else.
Claimed(a) ==
    /\ acq[a].guard # NoResource => <<a, "guard">> \in res[acq[a].guard].claims
    /\ acq[a].driver # NoResource => <<a, "driver">> \in res[acq[a].driver].claims
AskedFor(a) ==
    \A r \in Raws :
        /\ <<a, "guard">> \in res[r].requested =>
             acq[a].guard = r /\ acq[a].pc \in {"late context", "shut", "failed"}
        /\ <<a, "driver">> \in res[r].requested =>
             acq[a].driver = r /\ acq[a].pc \in {"shut", "failed"}

\* GuardOutlivesDriver and OpenSessionsKeepResources, of one acquisition.
GuardKept(a) ==
    acq[a].guard # NoResource /\ (res[acq[a].guard].closing \/ res[acq[a].guard].closed)
        => ~DriverMayRun(a)
OpenKept(a) ==
    acq[a].pc = "ready" =>
        /\ ~res[acq[a].guard].closing /\ ~res[acq[a].guard].closed
        /\ ~res[acq[a].driver].closing /\ ~res[acq[a].driver].closed

AcqInv(a) ==
    /\ Stage(a) /\ Settled(a) /\ Claimed(a) /\ AskedFor(a)
    /\ GuardKept(a) /\ OpenKept(a)

IndLease == LeaseTypeOK /\ \A a \in Acquisitions : AcqInv(a)

-----------------------------------------------------------------------------
(* Types.                                                                   *)

\* The type invariant in terms of the two record sets.
LEMMA TypesOfRecords ==
  LeaseTypeOK <=> res \in [Raws -> Resource] /\ acq \in [Acquisitions -> Acquisition]
  BY DEF LeaseTypeOK, Resource, Acquisition, Places, Before, AtContext, Given

\* The same of the next state.
LEMMA TypesKept ==
  ASSUME res' \in [Raws -> Resource], acq' \in [Acquisitions -> Acquisition]
  PROVE  LeaseTypeOK'
  BY DEF LeaseTypeOK, Resource, Acquisition, Places, Before, AtContext, Given

\* The fields of an acquisition that name objects, and of an object.
LEMMA FieldsTyped ==
  ASSUME LeaseTypeOK
  PROVE  /\ \A a \in Acquisitions :
              /\ acq[a].guard # NoResource => acq[a].guard \in Guards /\ acq[a].guard \in Raws
              /\ acq[a].driver # NoResource => acq[a].driver \in Drivers /\ acq[a].driver \in Raws
              /\ acq[a].rejected # NoResource => acq[a].rejected \in Drivers
                                                  /\ acq[a].rejected \in Raws
              /\ acq[a].dependency \in {"pending", "satisfied"} \union Drivers
              /\ acq[a].pc \in Places
         /\ \A r \in Raws : res[r].closing \in BOOLEAN /\ res[r].closed \in BOOLEAN
  BY DEF LeaseTypeOK, Raws, Places, Before, AtContext, Given

-----------------------------------------------------------------------------
(* What the other acquisitions rely on.                                     *)

\* A step for acquisition a starts no close, and asks for nothing in another's name.
QuietFor(a) ==
    \A r \in Raws :
        /\ res[r].claims \subseteq res'[r].claims
        /\ \A b \in Acquisitions, role \in Roles :
             b # a /\ <<b, role>> \in res'[r].requested => <<b, role>> \in res[r].requested
        /\ res'[r].closing = res[r].closing /\ res'[r].closed = res[r].closed

\* Such a step keeps the invariant of everyone else.
LEMMA OthersKeep ==
  ASSUME IndLease, NEW a \in Acquisitions, QuietFor(a),
         \A b \in Acquisitions : b # a => acq'[b] = acq[b]
  PROVE  \A b \in Acquisitions : b # a => AcqInv(b)'
  <1> SUFFICES ASSUME NEW b \in Acquisitions, b # a PROVE AcqInv(b)'
    OBVIOUS
  <1>1. AcqInv(b) /\ acq'[b] = acq[b]
    BY DEF IndLease
  <1>2. Stage(b)'
    BY <1>1 DEF AcqInv, Stage
  <1>3. Settled(b)'
    BY <1>1, FieldsTyped DEF IndLease, AcqInv, Settled, QuietFor
  <1>4. Claimed(b)'
    BY <1>1, FieldsTyped DEF IndLease, AcqInv, Claimed, QuietFor
  <1>5. AskedFor(b)'
    BY <1>1 DEF AcqInv, AskedFor, QuietFor, Roles
  <1>6. GuardKept(b)'
    <2>1. \A x \in Raws : res'[x].closing = res[x].closing /\ res'[x].closed = res[x].closed
      BY DEF QuietFor
    <2>2. /\ acq[b].guard # NoResource => acq[b].guard \in Raws
          /\ acq[b].driver # NoResource => acq[b].driver \in Raws
          /\ acq[b].rejected # NoResource => acq[b].rejected \in Raws
      BY FieldsTyped DEF IndLease
    <2>3. QED
      BY <1>1, <2>1, <2>2 DEF AcqInv, GuardKept, DriverMayRun
  <1>7. OpenKept(b)'
    <2>1. acq[b].pc = "ready" => acq[b].guard \in Raws /\ acq[b].driver \in Raws
      BY <1>1, FieldsTyped DEF IndLease, AcqInv, Stage, Before
    <2>2. QED
      BY <1>1, <2>1 DEF AcqInv, OpenKept, QuietFor
  <1>8. QED
    BY <1>2, <1>3, <1>4, <1>5, <1>6, <1>7 DEF AcqInv

\* What a step for acquisition a has to show.
LEMMA OwnStep ==
  ASSUME IndLease, NEW a \in Acquisitions, QuietFor(a),
         \A b \in Acquisitions : b # a => acq'[b] = acq[b],
         LeaseTypeOK', AcqInv(a)'
  PROVE  IndLease'
  BY OthersKeep DEF IndLease

\* A claim and a request change no close.
LEMMA ClaimIsQuiet ==
  ASSUME LeaseTypeOK, NEW a \in Acquisitions, NEW r \in Raws, NEW role \in Roles,
         res' = WithClaim(res, r, a, role)
  PROVE  /\ QuietFor(a) /\ res' \in [Raws -> Resource]
         /\ <<a, role>> \in res'[r].claims
         /\ \A x \in Raws : res'[x].requested = res[x].requested
  <1>1. res \in [Raws -> Resource] /\ <<a, role>> \in Claims
    BY TypesOfRecords DEF Claims
  <1>2. res' = [res EXCEPT ![r].claims = @ \union {<<a, role>>}]
    BY DEF WithClaim
  <1>3. res' \in [Raws -> Resource]
    BY <1>1, <1>2 DEF Resource
  <1>4. QED
    BY <1>1, <1>2, <1>3 DEF QuietFor, Resource
LEMMA RequestIsQuiet ==
  ASSUME NEW rs \in [Raws -> Resource], NEW a \in Acquisitions, NEW r \in Raws, NEW role \in Roles
  PROVE  /\ Requested(rs, r, a, role) \in [Raws -> Resource]
         /\ \A x \in Raws :
              /\ Requested(rs, r, a, role)[x].claims = rs[x].claims
              /\ Requested(rs, r, a, role)[x].closing = rs[x].closing
              /\ Requested(rs, r, a, role)[x].closed = rs[x].closed
              /\ rs[x].requested \subseteq Requested(rs, r, a, role)[x].requested
              /\ \A b \in Acquisitions, other \in Roles :
                   <<b, other>> \in Requested(rs, r, a, role)[x].requested =>
                     <<b, other>> \in rs[x].requested \/ (b = a /\ other = role /\ x = r)
  <1>1. <<a, role>> \in Claims
    BY DEF Claims
  <1> DEFINE asked == rs[r].requested \union {<<a, role>>}
             one == [rs[r] EXCEPT !.requested = asked,
                                  !.accepting = @ /\ ~(rs[r].claims \subseteq asked)]
  <1>2. Requested(rs, r, a, role) = [rs EXCEPT ![r] = one]
    BY DEF Requested
  <1>3. one \in Resource /\ one.claims = rs[r].claims /\ one.closing = rs[r].closing
        /\ one.closed = rs[r].closed /\ one.requested = asked
    BY <1>1 DEF Resource
  <1> HIDE DEF one
  <1>4. /\ [rs EXCEPT ![r] = one] \in [Raws -> Resource]
        /\ \A x \in Raws : [rs EXCEPT ![r] = one][x] = IF x = r THEN one ELSE rs[x]
    BY <1>3
  <1>5. \A b \in Acquisitions, other \in Roles :
          <<b, other>> \in asked => <<b, other>> \in rs[r].requested \/ (b = a /\ other = role)
    OBVIOUS
  <1> HIDE DEF asked
  <1>6. rs[r].requested \subseteq asked
    BY DEF asked
  <1>7. QED
    BY <1>2, <1>3, <1>4, <1>5, <1>6

-----------------------------------------------------------------------------
(* Every step keeps the invariant.                                          *)

\* A step that only moves an acquisition is quiet for everyone.
LEMMA StillIsQuiet ==
  ASSUME NEW a \in Acquisitions, UNCHANGED res
  PROVE  QuietFor(a)
  BY DEF QuietFor

\* The record of an acquisition is replaced.
LEMMA OneMoves ==
  ASSUME IndLease, NEW a \in Acquisitions, NEW k \in Acquisition,
         acq' = [acq EXCEPT ![a] = k], res' \in [Raws -> Resource]
  PROVE  /\ LeaseTypeOK' /\ acq'[a] = k
         /\ \A b \in Acquisitions : b # a => acq'[b] = acq[b]
  <1>1. acq \in [Acquisitions -> Acquisition]
    BY TypesOfRecords DEF IndLease
  <1>2. acq' \in [Acquisitions -> Acquisition]
    BY <1>1
  <1>3. QED
    BY <1>1, <1>2, TypesKept

\* Nothing of a resource changes.
LEMMA ResourcesStay ==
  ASSUME IndLease, UNCHANGED res
  PROVE  res' \in [Raws -> Resource]
  BY TypesOfRecords DEF IndLease

\* The guard is asked for, or abandoned, or one comes that may not be claimed.
LEMMA AskingKeeps ==
  ASSUME IndLease, NEW a \in Acquisitions, acq[a].pc \in {"idle", "guard", "late guard"},
         NEW place \in {"guard", "late guard", "dropped"},
         acq' = [acq EXCEPT ![a].pc = place], UNCHANGED res
  PROVE  IndLease'
  <1>1. acq[a] \in Acquisition /\ AcqInv(a)
    BY TypesOfRecords DEF IndLease
  <1> DEFINE k == [acq[a] EXCEPT !.pc = place]
  <1>2. /\ k \in Acquisition /\ k.pc = place /\ k.guard = acq[a].guard
        /\ k.driver = acq[a].driver /\ k.rejected = acq[a].rejected
        /\ k.dependency = acq[a].dependency /\ k.quarantined = acq[a].quarantined
        /\ k.advance = acq[a].advance
    BY <1>1 DEF Acquisition, Places, Before
  <1>3. acq' = [acq EXCEPT ![a] = k]
    OBVIOUS
  <1> HIDE DEF k
  <1>4. LeaseTypeOK' /\ acq'[a] = k /\ \A b \in Acquisitions : b # a => acq'[b] = acq[b]
    BY <1>2, <1>3, OneMoves, ResourcesStay
  <1>5. /\ k.guard = NoResource /\ k.driver = NoResource /\ k.rejected = NoResource
        /\ k.dependency = "pending" /\ k.advance = None /\ ~k.quarantined
    BY <1>1, <1>2 DEF AcqInv, Stage, Before
  <1>6. Stage(a)'
    BY <1>2, <1>4, <1>5 DEF Stage, Before, AtContext, Given, None
  <1>7. Settled(a)' /\ Claimed(a)' /\ GuardKept(a)' /\ OpenKept(a)'
    BY <1>2, <1>4, <1>5, LeaseAssumption
    DEF Settled, Claimed, GuardKept, OpenKept, LeaseAssumption, Raws
  <1>8. AskedFor(a)'
    BY <1>1, <1>2, <1>4 DEF AcqInv, AskedFor
  <1>9. QED
    BY <1>4, <1>6, <1>7, <1>8, StillIsQuiet, OwnStep DEF AcqInv

\* The guard comes, and is claimed.
LEMMA GuardKeeps ==
  ASSUME IndLease, NEW a \in Acquisitions, acq[a].pc \in {"guard", "late guard"},
         NEW r \in Guards, Claimable(r), res' = WithClaim(res, r, a, "guard"),
         NEW k \in Acquisition, acq' = [acq EXCEPT ![a] = k],
         k.guard = r, k.driver = acq[a].driver, k.rejected = acq[a].rejected,
         \/ /\ k.pc = "context" /\ k.dependency = acq[a].dependency
            /\ k.advance = acq[a].advance /\ k.quarantined = acq[a].quarantined
         \/ k.pc = "failed" /\ k.dependency = "satisfied" /\ k.advance = "start"
  PROVE  IndLease'
  <1>1. AcqInv(a)
    BY DEF IndLease
  <1>2. r \in Raws /\ r # NoResource /\ "guard" \in Roles /\ ~res[r].closing /\ ~res[r].closed
    BY LeaseAssumption DEF Raws, LeaseAssumption, Roles, Claimable
  <1>3. /\ QuietFor(a) /\ res' \in [Raws -> Resource] /\ <<a, "guard">> \in res'[r].claims
        /\ \A x \in Raws : res'[x].requested = res[x].requested
    BY <1>2, ClaimIsQuiet DEF IndLease
  <1>4. LeaseTypeOK' /\ acq'[a] = k /\ \A b \in Acquisitions : b # a => acq'[b] = acq[b]
    BY <1>3, OneMoves
  <1>5. /\ acq[a].guard = NoResource
        /\ k.driver = NoResource /\ k.rejected = NoResource
        /\ acq[a].dependency = "pending" /\ acq[a].advance = None /\ ~acq[a].quarantined
    BY <1>1 DEF AcqInv, Stage, Before
  <1>6. ~res'[r].closing /\ ~res'[r].closed
    BY <1>2, <1>3 DEF QuietFor
  <1>7. Stage(a)'
    BY <1>2, <1>4, <1>5 DEF Stage, Before, AtContext, Given, None
  <1>8. Settled(a)' /\ Claimed(a)' /\ GuardKept(a)' /\ OpenKept(a)'
    BY <1>2, <1>3, <1>4, <1>5, <1>6, LeaseAssumption
    DEF Settled, Claimed, GuardKept, OpenKept, LeaseAssumption, Raws
  <1>9. AskedFor(a)'
    BY <1>1, <1>2, <1>3, <1>4, <1>5 DEF AcqInv, AskedFor
  <1>10. QED
    BY <1>3, <1>4, <1>7, <1>8, <1>9, OwnStep DEF AcqInv

\* While the context is awaited: the guard is held, and not being closed.
LEMMA WhileAwaited ==
  ASSUME IndLease, NEW a \in Acquisitions, acq[a].pc \in AtContext
  PROVE  /\ acq[a].guard \in Raws /\ acq[a].guard # NoResource
         /\ ~res[acq[a].guard].closing /\ ~res[acq[a].guard].closed
         /\ <<a, "guard">> \in res[acq[a].guard].claims
         /\ acq[a].driver = NoResource /\ acq[a].rejected = NoResource
         /\ acq[a].dependency = "pending" /\ acq[a].advance \in {None, "start"}
         /\ acq[a].pc = "context" => acq[a].advance = None /\ ~acq[a].quarantined
  <1>1. Stage(a) /\ Claimed(a) /\ GuardKept(a)
    BY DEF IndLease, AcqInv
  <1>2. acq[a].guard # NoResource /\ acq[a].guard \in Raws
    BY <1>1, FieldsTyped DEF IndLease, Stage, AtContext, Before
  <1>3. ~res[acq[a].guard].closing /\ ~res[acq[a].guard].closed
    BY <1>1, <1>2 DEF GuardKept, DriverMayRun, AtContext
  <1>4. /\ acq[a].driver = NoResource /\ acq[a].rejected = NoResource
        /\ acq[a].dependency = "pending" /\ acq[a].advance \in {None, "start"}
        /\ acq[a].pc = "context" => acq[a].advance = None /\ ~acq[a].quarantined
    BY <1>1 DEF Stage, AtContext
  <1>5. QED
    BY <1>1, <1>2, <1>3, <1>4 DEF Claimed

\* A context comes, in time or late, and is claimed.
LEMMA ContextKeeps ==
  ASSUME IndLease, NEW a \in Acquisitions, acq[a].pc \in AtContext,
         NEW r \in Drivers, Claimable(r), res' = WithClaim(res, r, a, "driver"),
         NEW k \in Acquisition, acq' = [acq EXCEPT ![a] = k],
         k.guard = acq[a].guard, k.driver = r, k.rejected = NoResource, k.dependency = r,
         \/ /\ acq[a].pc = "context" /\ k.pc = "ready"
            /\ k.advance = None /\ ~k.quarantined
         \/ k.pc = "failed" /\ k.advance = "start"
  PROVE  IndLease'
  <1>1. AcqInv(a)
    BY DEF IndLease
  <1>2. r \in Raws /\ r # NoResource /\ "driver" \in Roles /\ ~res[r].closing /\ ~res[r].closed
    BY LeaseAssumption DEF Raws, LeaseAssumption, Roles, Claimable
  <1>3. /\ QuietFor(a) /\ res' \in [Raws -> Resource] /\ <<a, "driver">> \in res'[r].claims
        /\ \A x \in Raws : res'[x].requested = res[x].requested
    BY <1>2, ClaimIsQuiet DEF IndLease
  <1>4. LeaseTypeOK' /\ acq'[a] = k /\ \A b \in Acquisitions : b # a => acq'[b] = acq[b]
    BY <1>3, OneMoves
  <1>5. /\ k.guard \in Raws /\ k.guard # NoResource
        /\ ~res'[k.guard].closing /\ ~res'[k.guard].closed
        /\ ~res'[r].closing /\ ~res'[r].closed
        /\ <<a, "guard">> \in res'[k.guard].claims
    BY <1>2, <1>3, WhileAwaited DEF QuietFor
  <1>6. r # "pending" /\ r # "satisfied"
    BY LeaseAssumption DEF LeaseAssumption
  <1>7. Stage(a)'
    BY <1>2, <1>4, <1>5, <1>6 DEF Stage, Before, AtContext, Given, None
  <1>8. Settled(a)' /\ Claimed(a)' /\ GuardKept(a)' /\ OpenKept(a)'
    BY <1>2, <1>3, <1>4, <1>5, <1>6 DEF Settled, Claimed, GuardKept, OpenKept
  <1>9. AskedFor(a)'
    BY <1>1, <1>3, <1>4 DEF AcqInv, AskedFor, AtContext
  <1>10. QED
    BY <1>3, <1>4, <1>7, <1>8, <1>9, OwnStep DEF AcqInv

\* A context comes that may not be claimed, or none comes.
LEMMA NoContextKeeps ==
  ASSUME IndLease, NEW a \in Acquisitions, acq[a].pc \in AtContext, UNCHANGED res,
         NEW k \in Acquisition, acq' = [acq EXCEPT ![a] = k],
         k.pc = "failed", k.guard = acq[a].guard, k.driver = NoResource, k.advance = "start",
         \/ k.rejected = NoResource /\ k.dependency = "satisfied"
         \/ k.rejected \in Drivers /\ k.dependency = k.rejected
  PROVE  IndLease'
  <1>1. AcqInv(a)
    BY DEF IndLease
  <1>2. LeaseTypeOK' /\ acq'[a] = k /\ \A b \in Acquisitions : b # a => acq'[b] = acq[b]
    BY OneMoves, ResourcesStay
  <1>3. /\ k.guard \in Raws /\ k.guard # NoResource
        /\ ~res'[k.guard].closing /\ ~res'[k.guard].closed
        /\ <<a, "guard">> \in res'[k.guard].claims
    BY WhileAwaited
  <1>4. k.rejected \in Drivers => k.rejected # "pending" /\ k.rejected # "satisfied"
    BY LeaseAssumption DEF LeaseAssumption
  <1>5. Stage(a)'
    BY <1>2, <1>3, <1>4 DEF Stage, Before, AtContext, Given, None
  <1>6. Settled(a)' /\ Claimed(a)' /\ GuardKept(a)' /\ OpenKept(a)'
    BY <1>2, <1>3, <1>4, LeaseAssumption
    DEF Settled, Claimed, GuardKept, OpenKept, LeaseAssumption
  <1>7. AskedFor(a)'
    BY <1>1, <1>2 DEF AcqInv, AskedFor, AtContext
  <1>8. QED
    BY <1>2, <1>5, <1>6, <1>7, StillIsQuiet, OwnStep DEF AcqInv

\* The caller leaves while the context is created: the guard is asked for.
LEMMA AbortContextKeeps ==
  ASSUME IndLease, NEW a \in Acquisitions, AbortContext(a)
  PROVE  IndLease'
  <1>1. acq[a] \in Acquisition /\ AcqInv(a) /\ acq[a].pc \in AtContext /\ acq[a].pc = "context"
    BY TypesOfRecords DEF IndLease, AbortContext, AtContext
  <1> DEFINE k == [acq[a] EXCEPT !.pc = "late context", !.quarantined = TRUE]
  <1>2. /\ k \in Acquisition /\ k.pc = "late context" /\ k.guard = acq[a].guard
        /\ k.driver = acq[a].driver /\ k.rejected = acq[a].rejected
        /\ k.dependency = acq[a].dependency /\ k.advance = acq[a].advance
    BY <1>1 DEF Acquisition, Places, AtContext
  <1>3. acq' = [acq EXCEPT ![a] = k] /\ res' = Requested(res, acq[a].guard, a, "guard")
    BY DEF AbortContext
  <1> HIDE DEF k
  <1>4. acq[a].guard \in Raws /\ res \in [Raws -> Resource] /\ "guard" \in Roles
    BY <1>1, WhileAwaited, TypesOfRecords DEF IndLease, Roles
  <1>5. /\ res' \in [Raws -> Resource]
        /\ \A x \in Raws :
             /\ res'[x].claims = res[x].claims /\ res'[x].closing = res[x].closing
             /\ res'[x].closed = res[x].closed
             /\ \A b \in Acquisitions, role \in Roles :
                  <<b, role>> \in res'[x].requested =>
                    \/ <<b, role>> \in res[x].requested
                    \/ b = a /\ role = "guard" /\ x = acq[a].guard
    <2>1. PICK g \in Raws : g = acq[a].guard
      BY <1>4
    <2>2. res' = Requested(res, g, a, "guard")
      BY <1>3, <2>1
    <2>3. QED
      BY <1>4, <2>1, <2>2, RequestIsQuiet
  <1>6. QuietFor(a)
    BY <1>5 DEF QuietFor, Roles
  <1>7. LeaseTypeOK' /\ acq'[a] = k /\ \A b \in Acquisitions : b # a => acq'[b] = acq[b]
    BY <1>2, <1>3, <1>5, OneMoves
  <1>8. /\ k.guard \in Raws /\ k.guard # NoResource
        /\ ~res'[k.guard].closing /\ ~res'[k.guard].closed
        /\ <<a, "guard">> \in res'[k.guard].claims
        /\ k.driver = NoResource /\ k.rejected = NoResource
        /\ k.dependency = "pending" /\ k.advance = None
    BY <1>1, <1>2, <1>5, WhileAwaited
  <1>9. Stage(a)'
    BY <1>2, <1>7, <1>8 DEF Stage, Before, AtContext, Given, None
  <1>10. Settled(a)' /\ Claimed(a)' /\ GuardKept(a)' /\ OpenKept(a)'
    BY <1>2, <1>7, <1>8, LeaseAssumption
    DEF Settled, Claimed, GuardKept, OpenKept, LeaseAssumption
  <1>11. AskedFor(a)'
    BY <1>1, <1>2, <1>5, <1>7 DEF AcqInv, AskedFor, Roles
  <1>12. QED
    BY <1>6, <1>7, <1>9, <1>10, <1>11, OwnStep DEF AcqInv

\* A close is asked for: by the session, or by a retry from quarantine.
LEMMA AttemptKeeps ==
  ASSUME IndLease, NEW a \in Acquisitions, UNCHANGED res,
         acq[a].pc \in {"late context", "ready", "shut", "failed"},
         NEW k \in Acquisition, acq' = [acq EXCEPT ![a] = k],
         k.guard = acq[a].guard, k.driver = acq[a].driver, k.rejected = acq[a].rejected,
         k.dependency = acq[a].dependency, k.advance = "start",
         \/ k.pc = acq[a].pc /\ k.pc # "ready"
         \/ k.pc = "shut" /\ acq[a].pc \in {"ready", "shut"}
  PROVE  IndLease'
  <1>1. AcqInv(a)
    BY DEF IndLease
  <1>2. LeaseTypeOK' /\ acq'[a] = k /\ \A b \in Acquisitions : b # a => acq'[b] = acq[b]
    BY OneMoves, ResourcesStay
  <1>3. Stage(a)'
    BY <1>1, <1>2 DEF AcqInv, Stage, Before, AtContext, Given, None
  <1>4. Settled(a)' /\ Claimed(a)' /\ OpenKept(a)'
    BY <1>1, <1>2 DEF AcqInv, Settled, Claimed, OpenKept
  <1>5. GuardKept(a)'
    BY <1>1, <1>2 DEF AcqInv, GuardKept, DriverMayRun
  <1>6. AskedFor(a)'
    BY <1>1, <1>2 DEF AcqInv, AskedFor
  <1>7. QED
    BY <1>2, <1>3, <1>4, <1>5, <1>6, StillIsQuiet, OwnStep DEF AcqInv

\* Where an attempt runs, the guard is held and the close may be asked for.
LEMMA WhileAdvancing ==
  ASSUME IndLease, NEW a \in Acquisitions, acq[a].advance # None
  PROVE  /\ acq[a].pc \in {"late context", "shut", "failed"}
         /\ acq[a].guard \in Raws /\ acq[a].guard # NoResource
         /\ acq[a].driver # NoResource => acq[a].driver \in Raws /\ acq[a].pc \in {"shut", "failed"}
         /\ acq[a].rejected # NoResource => acq[a].rejected \in Raws
  <1>1. Stage(a) /\ acq[a].pc \in Places
    BY FieldsTyped DEF IndLease, AcqInv
  <1>2. acq[a].pc \in {"late context", "shut", "failed"}
    BY <1>1 DEF Stage, Places, Before, AtContext, Given
  <1>3. QED
    BY <1>1, <1>2, FieldsTyped DEF IndLease, Stage, Before, AtContext

\* An attempt asks for the acquisition's own claims.
LEMMA StartAdvanceKeeps ==
  ASSUME IndLease, NEW a \in Acquisitions, StartAdvance(a)
  PROVE  IndLease'
  <1>1. acq[a] \in Acquisition /\ AcqInv(a) /\ acq[a].advance # None /\ res \in [Raws -> Resource]
    BY TypesOfRecords DEF IndLease, StartAdvance, None
  <1>2. PICK g \in Raws : g = acq[a].guard
    BY <1>1, WhileAdvancing
  <1>3. PICK byDriver \in [Raws -> Resource] :
          /\ res' = Requested(byDriver, g, a, "guard")
          /\ \A x \in Raws :
               /\ byDriver[x].claims = res[x].claims /\ byDriver[x].closing = res[x].closing
               /\ byDriver[x].closed = res[x].closed
               /\ \A b \in Acquisitions, role \in Roles :
                    <<b, role>> \in byDriver[x].requested =>
                      \/ <<b, role>> \in res[x].requested
                      \/ b = a /\ role = "driver" /\ x = acq[a].driver
    <2>1. CASE acq[a].driver = NoResource
      BY <1>1, <1>2, <2>1 DEF StartAdvance
    <2>2. CASE acq[a].driver # NoResource
      <3>1. PICK d \in Raws : d = acq[a].driver
        BY <1>1, <2>2, WhileAdvancing
      <3>2. res' = Requested(Requested(res, d, a, "driver"), g, a, "guard")
        BY <1>2, <2>2, <3>1 DEF StartAdvance
      <3>3. QED
        BY <1>1, <3>1, <3>2, RequestIsQuiet DEF Roles
    <2>3. QED
      BY <2>1, <2>2
  <1>4. /\ res' \in [Raws -> Resource]
        /\ \A x \in Raws :
             /\ res'[x].claims = res[x].claims /\ res'[x].closing = res[x].closing
             /\ res'[x].closed = res[x].closed
             /\ \A b \in Acquisitions, role \in Roles :
                  <<b, role>> \in res'[x].requested =>
                    \/ <<b, role>> \in res[x].requested
                    \/ b = a /\ role = "driver" /\ x = acq[a].driver
                    \/ b = a /\ role = "guard" /\ x = acq[a].guard
    BY <1>2, <1>3, RequestIsQuiet DEF Roles
  <1>5. QuietFor(a)
    BY <1>4 DEF QuietFor, Roles
  <1>6. PICK k \in Acquisition :
          /\ acq' = [acq EXCEPT ![a] = k]
          /\ k.pc = acq[a].pc /\ k.guard = acq[a].guard /\ k.driver = acq[a].driver
          /\ k.rejected = acq[a].rejected
          /\ k.advance = "driver" => k.driver # NoResource
          /\ k.pc = "late context" => k.advance = None
          /\ k.dependency = IF /\ acq[a].driver = NoResource /\ acq[a].rejected # NoResource
                               /\ res[acq[a].rejected].closed
                            THEN "satisfied" ELSE acq[a].dependency
    <2> DEFINE settled == /\ acq[a].driver = NoResource /\ acq[a].rejected # NoResource
                          /\ res[acq[a].rejected].closed
               to == IF acq[a].driver # NoResource THEN "driver"
                     ELSE IF acq[a].rejected # NoResource
                          THEN (IF res[acq[a].rejected].closed THEN "guard" ELSE None)
                     ELSE IF acq[a].dependency = "pending" THEN None ELSE "guard"
               dep == IF settled THEN "satisfied" ELSE acq[a].dependency
               k == [acq[a] EXCEPT !.advance = to, !.dependency = dep]
    <2>1. to \in {None, "start", "driver", "guard"} /\ (to = "driver" => acq[a].driver # NoResource)
      BY DEF None
    <2>2. acq[a].pc = "late context" => to = None
      BY <1>1, WhileAwaited DEF AtContext
    <2>3. dep \in {"pending", "satisfied"} \union Drivers
      BY <1>1 DEF Acquisition
    <2>4. acq' = [acq EXCEPT ![a] = k]
      BY DEF StartAdvance
    <2>5. dep = IF settled THEN "satisfied" ELSE acq[a].dependency
      OBVIOUS
    <2> HIDE DEF to, dep
    <2>6. /\ k \in Acquisition /\ k.pc = acq[a].pc /\ k.guard = acq[a].guard
          /\ k.driver = acq[a].driver /\ k.rejected = acq[a].rejected
          /\ k.advance = to /\ k.dependency = dep
      BY <1>1, <2>1, <2>3 DEF Acquisition
    <2> HIDE DEF k
    <2>7. QED
      BY <2>1, <2>2, <2>4, <2>5, <2>6
  <1>7. LeaseTypeOK' /\ acq'[a] = k /\ \A b \in Acquisitions : b # a => acq'[b] = acq[b]
    BY <1>4, <1>6, OneMoves
  <1>8. acq[a].pc \in {"late context", "shut", "failed"} /\ g # NoResource
    BY <1>1, <1>2, WhileAdvancing
  <1>9. Stage(a)'
    BY <1>1, <1>2, <1>6, <1>7, <1>8 DEF AcqInv, Stage, Before, AtContext, Given, None
  <1>10. Settled(a)'
    <2>1. /\ acq[a].driver # NoResource => acq[a].driver \in Raws
          /\ acq[a].rejected # NoResource => acq[a].rejected \in Raws
      BY <1>1, WhileAdvancing
    <2>2. Settled(a)
      BY <1>1 DEF AcqInv
    <2>3. CASE /\ acq[a].driver = NoResource /\ acq[a].rejected # NoResource
               /\ res[acq[a].rejected].closed
      BY <1>4, <1>6, <1>7, <2>1, <2>2, <2>3, LeaseAssumption, ZenonT(60) DEF Settled,
          LeaseAssumption
    <2>4. CASE ~ /\ acq[a].driver = NoResource /\ acq[a].rejected # NoResource
                 /\ res[acq[a].rejected].closed
      BY <1>4, <1>6, <1>7, <2>1, <2>2, <2>4 DEF Settled
    <2>5. QED
      BY <2>3, <2>4
  <1>11. Claimed(a)' /\ OpenKept(a)'
    <2>1. acq[a].driver # NoResource => acq[a].driver \in Raws
      BY <1>1, WhileAdvancing
    <2>2. Claimed(a)'
      <3>1. <<a, "guard">> \in res[g].claims
        BY <1>1, <1>2, <1>8 DEF AcqInv, Claimed
      <3>2. acq[a].driver # NoResource => <<a, "driver">> \in res[acq[a].driver].claims
        BY <1>1 DEF AcqInv, Claimed
      <3>3. \A x \in Raws : res'[x].claims = res[x].claims
        BY <1>4
      <3>4. k.guard = g /\ k.driver = acq[a].driver
        BY <1>2, <1>6
      <3>5. QED
        BY <1>7, <2>1, <3>1, <3>2, <3>3, <3>4 DEF Claimed
    <2>3. OpenKept(a)'
      BY <1>6, <1>7, <1>8 DEF OpenKept
    <2>4. QED
      BY <2>2, <2>3
  <1>12. GuardKept(a)'
    <2>1. /\ acq[a].driver # NoResource => acq[a].driver \in Raws
          /\ acq[a].rejected # NoResource => acq[a].rejected \in Raws
      BY <1>1, WhileAdvancing
    <2>2. QED
      BY <1>1, <1>2, <1>4, <1>6, <1>7, <2>1, ZenonT(60) DEF AcqInv, GuardKept, DriverMayRun
  <1>13. AskedFor(a)'
    <2>1. acq[a].driver # NoResource => acq[a].pc \in {"shut", "failed"}
      BY <1>1, WhileAdvancing
    <2>2. \A x \in Raws : x # NoResource
      BY LeaseAssumption DEF LeaseAssumption
    <2>3. ASSUME NEW x \in Raws, <<a, "guard">> \in res'[x].requested
          PROVE  k.guard = x /\ k.pc \in {"late context", "shut", "failed"}
      <3>1. <<a, "guard">> \in res[x].requested \/ x = acq[a].guard
        BY <1>4, <2>3 DEF Roles
      <3>2. QED
        BY <1>1, <1>6, <1>8, <3>1 DEF AcqInv, AskedFor
    <2>4. ASSUME NEW x \in Raws, <<a, "driver">> \in res'[x].requested
          PROVE  k.driver = x /\ k.pc \in {"shut", "failed"}
      <3>1. <<a, "driver">> \in res[x].requested \/ x = acq[a].driver
        BY <1>4, <2>4 DEF Roles
      <3>2. QED
        BY <1>1, <1>6, <2>1, <2>2, <3>1 DEF AcqInv, AskedFor
    <2>5. QED
      BY <1>7, <2>3, <2>4 DEF AskedFor
  <1>14. QED
    BY <1>5, <1>7, <1>9, <1>10, <1>11, <1>12, <1>13, OwnStep DEF AcqInv

\* A physical close starts only when every claim asked and no driver is waited for.
LEMMA CloseStartsKeeps ==
  ASSUME IndLease, NEW r \in Raws, MayClose(r), ~res[r].closed,
         res' = BeginResourceClose(r), UNCHANGED acq
  PROVE  IndLease'
  <1>1. res \in [Raws -> Resource] /\ acq \in [Acquisitions -> Acquisition]
    BY TypesOfRecords DEF IndLease
  <1>2. /\ res' \in [Raws -> Resource]
        /\ \A x \in Raws :
             /\ res'[x].claims = res[x].claims /\ res'[x].requested = res[x].requested
             /\ res'[x].closed = res[x].closed
             /\ x # r => res'[x].closing = res[x].closing
    <2> DEFINE one == [res[r] EXCEPT !.closing = TRUE, !.accepting = FALSE]
    <2>1. /\ one \in Resource /\ one.claims = res[r].claims /\ one.requested = res[r].requested
          /\ one.closed = res[r].closed
      BY <1>1 DEF Resource
    <2>2. res' = [res EXCEPT ![r] = one]
      BY DEF BeginResourceClose
    <2> HIDE DEF one
    <2>3. QED
      BY <1>1, <2>1, <2>2
  <1>3. LeaseTypeOK'
    BY <1>1, <1>2, TypesKept
  <1>4. ASSUME NEW b \in Acquisitions
        PROVE  AcqInv(b)'
    <2>1. AcqInv(b) /\ acq'[b] = acq[b]
      BY DEF IndLease
    <2>2. /\ acq[b].guard # NoResource => acq[b].guard \in Raws
          /\ acq[b].driver # NoResource => acq[b].driver \in Raws
          /\ acq[b].rejected # NoResource => acq[b].rejected \in Raws
          /\ acq[b].pc = "ready" => acq[b].guard # NoResource /\ acq[b].driver # NoResource
          /\ acq[b].dependency \in {"pending", "satisfied"} \union Drivers
      BY <2>1, FieldsTyped DEF IndLease, AcqInv, Stage, Before
    <2>3. Stage(b)'
      BY <2>1 DEF AcqInv, Stage
    <2>4. Settled(b)' /\ Claimed(b)' /\ AskedFor(b)'
      BY <1>2, <2>1, <2>2 DEF AcqInv, Settled, Claimed, AskedFor
    <2>5. acq[b].pc = "ready" => acq[b].guard # r /\ acq[b].driver # r
      BY <2>1, <2>2 DEF AcqInv, Claimed, AskedFor, MayClose
    <2>6. OpenKept(b)'
      BY <1>2, <2>1, <2>2, <2>5 DEF AcqInv, OpenKept
    <2>7. acq[b].guard = r => ~DriverMayRun(b)
      <3>1. SUFFICES ASSUME acq[b].guard = r PROVE ~DriverMayRun(b)
        OBVIOUS
      <3>2. r # NoResource
        BY LeaseAssumption DEF LeaseAssumption
      <3>3. DependencySatisfied(b) /\ acq[b].pc \in {"late context", "shut", "failed"}
        BY <2>1, <3>1, <3>2 DEF AcqInv, Claimed, AskedFor, MayClose, Blocked
      <3>4. acq[b].dependency # "pending"
        BY <3>3, LeaseAssumption DEF DependencySatisfied, LeaseAssumption
      <3>5. acq[b].pc \notin AtContext
        BY <2>1, <3>3, <3>4 DEF AcqInv, Stage, AtContext
      <3>6. CASE acq[b].dependency = "satisfied"
        BY <2>1, <3>5, <3>6 DEF AcqInv, Settled, DriverMayRun, AtContext
      <3>7. CASE acq[b].dependency \in Drivers /\ acq[b].dependency # "satisfied"
        <4>1. res[acq[b].dependency].closed
          BY <3>3, <3>4, <3>7 DEF DependencySatisfied
        <4>2. QED
          BY <2>1, <3>5, <3>7, <4>1, LeaseAssumption
          DEF AcqInv, Settled, DriverMayRun, AtContext, LeaseAssumption, Raws
      <3>8. QED
        BY <2>2, <3>4, <3>6, <3>7
    <2>8. GuardKept(b)'
      BY <1>2, <2>1, <2>2, <2>7 DEF AcqInv, GuardKept, DriverMayRun
    <2>9. QED
      BY <2>3, <2>4, <2>6, <2>8 DEF AcqInv
  <1>5. QED
    BY <1>3, <1>4 DEF IndLease

\* An attempt that cannot go on may end the admission of new claims, and nothing else.
SameCloses ==
    /\ res' \in [Raws -> Resource]
    /\ \A x \in Raws :
         /\ res'[x].claims = res[x].claims /\ res'[x].requested = res[x].requested
         /\ res'[x].closing = res[x].closing /\ res'[x].closed = res[x].closed

\* Ending the admission starts no close.
LEMMA AdmissionEnds ==
  ASSUME IndLease, NEW r \in Raws,
         res' = res \/ res' = [res EXCEPT ![r].accepting = FALSE]
  PROVE  SameCloses
  <1>1. res \in [Raws -> Resource]
    BY TypesOfRecords DEF IndLease
  <1> DEFINE one == [res[r] EXCEPT !.accepting = FALSE]
  <1>2. /\ one \in Resource /\ one.claims = res[r].claims /\ one.requested = res[r].requested
        /\ one.closing = res[r].closing /\ one.closed = res[r].closed
    BY <1>1 DEF Resource
  <1>3. res' = res \/ res' = [res EXCEPT ![r] = one]
    OBVIOUS
  <1> HIDE DEF one
  <1>4. QED
    BY <1>1, <1>2, <1>3 DEF SameCloses

\* An attempt ends, or goes on from the driver that has closed to the guard.
LEMMA AttemptMoves ==
  ASSUME IndLease, NEW a \in Acquisitions, acq[a].advance # None, SameCloses,
         NEW k \in Acquisition, acq' = [acq EXCEPT ![a] = k],
         k.pc = acq[a].pc, k.guard = acq[a].guard, k.driver = acq[a].driver,
         k.rejected = acq[a].rejected,
         \/ k.advance = None /\ k.dependency = acq[a].dependency
         \/ /\ acq[a].driver # NoResource /\ res[acq[a].driver].closed
            /\ k.advance = "guard" /\ k.dependency = "satisfied"
  PROVE  IndLease'
  <1>1. AcqInv(a)
    BY DEF IndLease
  <1>2. /\ res' \in [Raws -> Resource]
        /\ \A x \in Raws :
             /\ res'[x].claims = res[x].claims /\ res'[x].requested = res[x].requested
             /\ res'[x].closing = res[x].closing /\ res'[x].closed = res[x].closed
    BY DEF SameCloses
  <1>3. LeaseTypeOK' /\ acq'[a] = k /\ \A b \in Acquisitions : b # a => acq'[b] = acq[b]
    BY <1>2, OneMoves
  <1>4. QuietFor(a)
    BY <1>2 DEF QuietFor
  <1>5. /\ acq[a].pc \in {"late context", "shut", "failed"} /\ acq[a].guard \in Raws
        /\ acq[a].guard # NoResource
        /\ acq[a].driver # NoResource => acq[a].driver \in Raws /\ acq[a].pc \in {"shut", "failed"}
        /\ acq[a].rejected # NoResource => acq[a].rejected \in Raws
    BY WhileAdvancing
  <1>6. /\ acq[a].guard # NoResource
        /\ res'[acq[a].guard].claims = res[acq[a].guard].claims
        /\ res'[acq[a].guard].closing = res[acq[a].guard].closing
        /\ res'[acq[a].guard].closed = res[acq[a].guard].closed
        /\ acq[a].driver # NoResource =>
             /\ res'[acq[a].driver].claims = res[acq[a].driver].claims
             /\ res'[acq[a].driver].closed = res[acq[a].driver].closed
        /\ acq[a].rejected # NoResource =>
             res'[acq[a].rejected].closed = res[acq[a].rejected].closed
    BY <1>2, <1>5
  <1>7. Stage(a)'
    BY <1>1, <1>3, <1>5 DEF AcqInv, Stage, Before, AtContext, Given, None
  <1>8. Settled(a)'
    <2>1. Settled(a)
      BY <1>1 DEF AcqInv
    <2>2. CASE k.dependency = acq[a].dependency
      BY <1>3, <1>6, <2>1, <2>2 DEF Settled
    <2>3. CASE /\ acq[a].driver # NoResource /\ res[acq[a].driver].closed
               /\ k.dependency = "satisfied"
      BY <1>3, <1>6, <2>1, <2>3, LeaseAssumption DEF Settled, LeaseAssumption
    <2>4. QED
      BY <2>2, <2>3
  <1>9. Claimed(a)' /\ OpenKept(a)'
    <2>1. Claimed(a)
      BY <1>1 DEF AcqInv
    <2>2. Claimed(a)'
      BY <1>3, <1>6, <2>1 DEF Claimed
    <2>3. OpenKept(a)'
      BY <1>3, <1>5 DEF OpenKept
    <2>4. QED
      BY <2>2, <2>3
  <1>10. GuardKept(a)'
    <2>1. GuardKept(a)
      BY <1>1 DEF AcqInv
    <2>2. DriverMayRun(a)' <=> DriverMayRun(a)
      BY <1>3, <1>6 DEF DriverMayRun
    <2>3. QED
      BY <1>3, <1>6, <2>1, <2>2 DEF GuardKept
  <1>11. AskedFor(a)'
    BY <1>1, <1>2, <1>3 DEF AcqInv, AskedFor
  <1>12. QED
    BY <1>3, <1>4, <1>7, <1>8, <1>9, <1>10, <1>11, OwnStep DEF AcqInv

\* The attempt at the driver.
LEMMA CloseDriverKeeps ==
  ASSUME IndLease, NEW a \in Acquisitions, CloseDriver(a)
  PROVE  IndLease'
  <1>1. acq[a] \in Acquisition /\ AcqInv(a) /\ acq[a].advance # None
    BY TypesOfRecords DEF IndLease, CloseDriver, None
  <1>2. acq[a].driver # NoResource
    BY <1>1 DEF AcqInv, Stage, CloseDriver
  <1>3. PICK r \in Raws : r = acq[a].driver
    BY <1>1, <1>2, WhileAdvancing
  <1>4. CASE /\ res[r].closed /\ UNCHANGED res
             /\ acq' = [acq EXCEPT ![a].advance = "guard", ![a].dependency = "satisfied"]
    <2> DEFINE k == [acq[a] EXCEPT !.advance = "guard", !.dependency = "satisfied"]
    <2>1. /\ k \in Acquisition /\ k.pc = acq[a].pc /\ k.guard = acq[a].guard
          /\ k.driver = acq[a].driver /\ k.rejected = acq[a].rejected
          /\ k.advance = "guard" /\ k.dependency = "satisfied"
      BY <1>1 DEF Acquisition
    <2>2. acq' = [acq EXCEPT ![a] = k]
      BY <1>4
    <2> HIDE DEF k
    <2>3. QED
      BY <1>1, <1>2, <1>3, <1>4, <2>1, <2>2, AdmissionEnds, AttemptMoves
  <1>5. CASE /\ ~res[r].closed /\ MayClose(r) /\ res' = BeginResourceClose(r)
             /\ UNCHANGED acq
    BY <1>5, CloseStartsKeeps
  <1>6. CASE /\ acq' = [acq EXCEPT ![a].advance = None]
             /\ res' = res \/ res' = [res EXCEPT ![r].accepting = FALSE]
    <2> DEFINE k == [acq[a] EXCEPT !.advance = None]
    <2>1. /\ k \in Acquisition /\ k.pc = acq[a].pc /\ k.guard = acq[a].guard
          /\ k.driver = acq[a].driver /\ k.rejected = acq[a].rejected
          /\ k.advance = None /\ k.dependency = acq[a].dependency
      BY <1>1 DEF Acquisition
    <2>2. acq' = [acq EXCEPT ![a] = k]
      BY <1>6
    <2> HIDE DEF k
    <2>3. QED
      BY <1>1, <1>6, <2>1, <2>2, AdmissionEnds, AttemptMoves
  <1>7. QED
    BY <1>3, <1>4, <1>5, <1>6 DEF CloseDriver

\* The attempt at the guard.
LEMMA CloseGuardKeeps ==
  ASSUME IndLease, NEW a \in Acquisitions, CloseGuard(a)
  PROVE  IndLease'
  <1>1. acq[a] \in Acquisition /\ acq[a].advance # None
    BY TypesOfRecords DEF IndLease, CloseGuard, None
  <1>2. PICK r \in Raws : r = acq[a].guard
    BY <1>1, WhileAdvancing
  <1>3. CASE /\ UNCHANGED res
             /\ acq' = [acq EXCEPT ![a].advance = None, ![a].completed = TRUE,
                                   ![a].quarantined = FALSE]
    <2> DEFINE k == [acq[a] EXCEPT !.advance = None, !.completed = TRUE, !.quarantined = FALSE]
    <2>1. /\ k \in Acquisition /\ k.pc = acq[a].pc /\ k.guard = acq[a].guard
          /\ k.driver = acq[a].driver /\ k.rejected = acq[a].rejected
          /\ k.advance = None /\ k.dependency = acq[a].dependency
      BY <1>1 DEF Acquisition
    <2>2. acq' = [acq EXCEPT ![a] = k]
      BY <1>3
    <2> HIDE DEF k
    <2>3. QED
      BY <1>1, <1>3, <2>1, <2>2, AdmissionEnds, AttemptMoves
  <1>4. CASE /\ ~res[r].closed /\ MayClose(r) /\ res' = BeginResourceClose(r)
             /\ UNCHANGED acq
    BY <1>4, CloseStartsKeeps
  <1>5. CASE /\ acq' = [acq EXCEPT ![a].advance = None]
             /\ res' = [res EXCEPT ![r].accepting = FALSE]
    <2> DEFINE k == [acq[a] EXCEPT !.advance = None]
    <2>1. /\ k \in Acquisition /\ k.pc = acq[a].pc /\ k.guard = acq[a].guard
          /\ k.driver = acq[a].driver /\ k.rejected = acq[a].rejected
          /\ k.advance = None /\ k.dependency = acq[a].dependency
      BY <1>1 DEF Acquisition
    <2>2. acq' = [acq EXCEPT ![a] = k]
      BY <1>5
    <2> HIDE DEF k
    <2>3. QED
      BY <1>1, <1>5, <2>1, <2>2, AdmissionEnds, AttemptMoves
  <1>6. QED
    BY <1>2, <1>3, <1>4, <1>5 DEF CloseGuard

\* The host confirms a close.
LEMMA ClosedKeeps ==
  ASSUME IndLease, NEW r \in Raws, ResourceClosed(r)
  PROVE  IndLease'
  <1>1. /\ res \in [Raws -> Resource] /\ acq \in [Acquisitions -> Acquisition]
        /\ acq' = acq /\ res[r].closing
    BY TypesOfRecords DEF IndLease, ResourceClosed
  <1>2. /\ res' \in [Raws -> Resource] /\ res'[r].closed
        /\ \A x \in Raws :
             /\ res'[x].claims = res[x].claims /\ res'[x].requested = res[x].requested
             /\ res'[x].closing = res[x].closing
             /\ x # r => res'[x].closed = res[x].closed
    <2> DEFINE one == [res[r] EXCEPT !.closed = TRUE]
    <2>1. /\ one \in Resource /\ one.claims = res[r].claims /\ one.requested = res[r].requested
          /\ one.closing = res[r].closing /\ one.closed
      BY <1>1 DEF Resource
    <2>2. res' = [res EXCEPT ![r] = one]
      BY DEF ResourceClosed
    <2> HIDE DEF one
    <2>3. QED
      BY <1>1, <2>1, <2>2
  <1>3. LeaseTypeOK'
    BY <1>1, <1>2, TypesKept
  <1>4. ASSUME NEW b \in Acquisitions
        PROVE  AcqInv(b)'
    <2>1. AcqInv(b) /\ acq'[b] = acq[b]
      BY <1>1 DEF IndLease
    <2>2. /\ acq[b].guard # NoResource => acq[b].guard \in Raws
          /\ acq[b].driver # NoResource => acq[b].driver \in Raws
          /\ acq[b].rejected # NoResource => acq[b].rejected \in Raws
          /\ acq[b].pc = "ready" => acq[b].guard # NoResource /\ acq[b].driver # NoResource
      BY <2>1, FieldsTyped DEF IndLease, AcqInv, Stage, Before
    <2>3. Stage(b)'
      BY <2>1 DEF AcqInv, Stage
    <2>4. Settled(b)'
      BY <1>2, <2>1, <2>2 DEF AcqInv, Settled
    <2>5. Claimed(b)' /\ AskedFor(b)'
      <3>1. Claimed(b)'
        BY <1>2, <2>1, <2>2 DEF AcqInv, Claimed
      <3>2. AskedFor(b)'
        BY <1>2, <2>1 DEF AcqInv, AskedFor
      <3>3. QED
        BY <3>1, <3>2
    <2>6. OpenKept(b)'
      BY <1>1, <1>2, <2>1, <2>2 DEF AcqInv, OpenKept
    <2>7. DriverMayRun(b)' => DriverMayRun(b)
      BY <1>2, <2>1, <2>2 DEF DriverMayRun
    <2>8. acq[b].guard = r => ~DriverMayRun(b)
      BY <1>1, <2>1, LeaseAssumption DEF AcqInv, GuardKept, LeaseAssumption
    <2>9. GuardKept(b)'
      BY <1>2, <2>1, <2>2, <2>7, <2>8 DEF AcqInv, GuardKept
    <2>10. QED
      BY <2>3, <2>4, <2>5, <2>6, <2>9 DEF AcqInv
  <1>5. QED
    BY <1>3, <1>4 DEF IndLease

\* The host's close fails, and every attempt that waits for it ends.
LEMMA CloseFailsKeeps ==
  ASSUME IndLease, NEW r \in Raws, ResourceCloseFails(r)
  PROVE  IndLease'
  <1>1. /\ res \in [Raws -> Resource] /\ acq \in [Acquisitions -> Acquisition]
        /\ res[r].failures < MaxFailures
    BY TypesOfRecords DEF IndLease, ResourceCloseFails
  <1>2. /\ res' \in [Raws -> Resource] /\ ~res'[r].closing
        /\ \A x \in Raws :
             /\ res'[x].claims = res[x].claims /\ res'[x].requested = res[x].requested
             /\ res'[x].closed = res[x].closed
             /\ x # r => res'[x].closing = res[x].closing
    <2> DEFINE one == [res[r] EXCEPT !.closing = FALSE, !.failures = @ + 1]
    <2>1. res[r].failures + 1 \in 0..MaxFailures
      BY <1>1, LeaseAssumption DEF Resource, LeaseAssumption
    <2>2. /\ one \in Resource /\ one.claims = res[r].claims /\ one.requested = res[r].requested
          /\ ~one.closing /\ one.closed = res[r].closed
      BY <1>1, <2>1 DEF Resource
    <2>3. res' = [res EXCEPT ![r] = one]
      BY DEF ResourceCloseFails
    <2> HIDE DEF one
    <2>4. QED
      BY <1>1, <2>2, <2>3
  <1>3. \A b \in Acquisitions :
          /\ acq'[b] \in Acquisition /\ acq'[b].pc = acq[b].pc /\ acq'[b].guard = acq[b].guard
          /\ acq'[b].driver = acq[b].driver /\ acq'[b].rejected = acq[b].rejected
          /\ acq'[b].dependency = acq[b].dependency
          /\ acq'[b].quarantined = acq[b].quarantined
          /\ acq'[b].advance \in {acq[b].advance, None}
    BY <1>1 DEF ResourceCloseFails, Acquisition
  <1>4. LeaseTypeOK'
    <2>1. acq' \in [Acquisitions -> Acquisition]
      BY <1>3 DEF ResourceCloseFails
    <2>2. QED
      BY <1>2, <2>1, TypesKept
  <1>5. ASSUME NEW b \in Acquisitions
        PROVE  AcqInv(b)'
    <2>1. AcqInv(b)
      BY DEF IndLease
    <2>2. /\ acq[b].guard # NoResource => acq[b].guard \in Raws
          /\ acq[b].driver # NoResource => acq[b].driver \in Raws
          /\ acq[b].rejected # NoResource => acq[b].rejected \in Raws
          /\ acq[b].pc = "ready" => acq[b].guard # NoResource /\ acq[b].driver # NoResource
      BY <2>1, FieldsTyped DEF IndLease, AcqInv, Stage, Before
    <2>3. Stage(b)'
      BY <1>3, <2>1 DEF AcqInv, Stage, None
    <2>4. Settled(b)'
      BY <1>2, <1>3, <2>1, <2>2 DEF AcqInv, Settled
    <2>5. Claimed(b)' /\ AskedFor(b)'
      <3>1. Claimed(b)'
        BY <1>2, <1>3, <2>1, <2>2 DEF AcqInv, Claimed
      <3>2. AskedFor(b)'
        BY <1>2, <1>3, <2>1 DEF AcqInv, AskedFor
      <3>3. QED
        BY <3>1, <3>2
    <2>6. OpenKept(b)'
      BY <1>2, <1>3, <2>1, <2>2 DEF AcqInv, OpenKept
    <2>7. DriverMayRun(b)' => DriverMayRun(b)
      BY <1>2, <1>3, <2>2 DEF DriverMayRun
    <2>8. GuardKept(b)'
      BY <1>2, <1>3, <2>1, <2>2, <2>7 DEF AcqInv, GuardKept
    <2>9. QED
      BY <2>3, <2>4, <2>5, <2>6, <2>8 DEF AcqInv
  <1>6. QED
    BY <1>4, <1>5 DEF IndLease

-----------------------------------------------------------------------------
(* The initial state, every step, and the theorems.                         *)

\* Nothing is held at the start.
LEMMA InitLease ==
  ASSUME LeaseInit
  PROVE  IndLease
  <1>1. NewResource \in Resource /\ NewAcquisition \in Acquisition
    BY LeaseAssumption
    DEF NewResource, NewAcquisition, Resource, Acquisition, Places, Before, None, LeaseAssumption
  <1>2. LeaseTypeOK
    BY <1>1, TypesOfRecords DEF LeaseInit
  <1>3. ASSUME NEW a \in Acquisitions
        PROVE  AcqInv(a)
    <2>1. /\ acq[a] = NewAcquisition
          /\ \A r \in Raws : res[r].requested = {}
      BY DEF LeaseInit, NewResource
    <2>2. QED
      BY <2>1, LeaseAssumption
      DEF NewAcquisition, AcqInv, Stage, Settled, Claimed, AskedFor, GuardKept, OpenKept,
          Before, AtContext, Given, None, LeaseAssumption
  <1>4. QED
    BY <1>2, <1>3 DEF IndLease

\* createSession up to the guard.
LEMMA GuardSteps ==
  ASSUME IndLease, NEW a \in Acquisitions,
         OpenGuard(a) \/ AbortGuard(a) \/ \E r \in Guards : GuardArrives(a, r) \/ LateGuard(a, r)
  PROVE  IndLease'
  <1>1. acq[a] \in Acquisition /\ acq \in [Acquisitions -> Acquisition]
    BY TypesOfRecords DEF IndLease
  <1>2. ASSUME NEW place \in {"guard", "late guard", "dropped"},
               acq[a].pc \in {"idle", "guard", "late guard"},
               acq' = [acq EXCEPT ![a].pc = place], UNCHANGED res
        PROVE  IndLease'
    BY <1>2, AskingKeeps
  <1>3. ASSUME NEW r \in Guards, acq[a].pc \in {"guard", "late guard"}, Claimable(r),
               res' = WithClaim(res, r, a, "guard"),
               \/ acq' = [acq EXCEPT ![a].pc = "context", ![a].guard = r]
               \/ acq' = [acq EXCEPT ![a].pc = "failed", ![a].guard = r,
                                     ![a].dependency = "satisfied",
                                     ![a].quarantined = TRUE, ![a].advance = "start"]
        PROVE  IndLease'
    <2> DEFINE k == [acq[a] EXCEPT !.pc = "context", !.guard = r]
               f == [acq[a] EXCEPT !.pc = "failed", !.guard = r, !.dependency = "satisfied",
                                   !.quarantined = TRUE, !.advance = "start"]
    <2>1. /\ k \in Acquisition /\ k.pc = "context" /\ k.guard = r
          /\ k.driver = acq[a].driver /\ k.rejected = acq[a].rejected
          /\ k.dependency = acq[a].dependency /\ k.advance = acq[a].advance
          /\ k.quarantined = acq[a].quarantined
      BY <1>1 DEF Acquisition, Places, AtContext
    <2>2. /\ f \in Acquisition /\ f.pc = "failed" /\ f.guard = r
          /\ f.driver = acq[a].driver /\ f.rejected = acq[a].rejected
          /\ f.dependency = "satisfied" /\ f.advance = "start"
      BY <1>1 DEF Acquisition, Places, Given
    <2>3. acq' = [acq EXCEPT ![a] = k] \/ acq' = [acq EXCEPT ![a] = f]
      BY <1>3
    <2> HIDE DEF k, f
    <2>4. CASE acq' = [acq EXCEPT ![a] = k]
      BY <1>3, <2>1, <2>4, GuardKeeps
    <2>5. CASE acq' = [acq EXCEPT ![a] = f]
      BY <1>3, <2>2, <2>5, GuardKeeps
    <2>6. QED
      BY <2>3, <2>4, <2>5
  <1>4. CASE OpenGuard(a)
    BY <1>2, <1>4 DEF OpenGuard
  <1>5. CASE AbortGuard(a)
    BY <1>2, <1>5 DEF AbortGuard
  <1>6. ASSUME NEW r \in Guards, GuardArrives(a, r)
        PROVE  IndLease'
    BY <1>2, <1>3, <1>6 DEF GuardArrives
  <1>7. ASSUME NEW r \in Guards, LateGuard(a, r)
        PROVE  IndLease'
    BY <1>2, <1>3, <1>7 DEF LateGuard
  <1>8. QED
    BY <1>4, <1>5, <1>6, <1>7

\* createSession from the context on.
LEMMA ContextSteps ==
  ASSUME IndLease, NEW a \in Acquisitions,
         \/ ContextFails(a) \/ LateContextFails(a)
         \/ \E r \in Drivers : ContextArrives(a, r) \/ LateContext(a, r)
  PROVE  IndLease'
  <1>1. /\ acq[a] \in Acquisition /\ acq \in [Acquisitions -> Acquisition]
        /\ acq[a].pc \in AtContext
    BY TypesOfRecords
    DEF IndLease, ContextFails, LateContextFails, ContextArrives, LateContext, AtContext
  <1>2. /\ acq[a].driver = NoResource /\ acq[a].rejected = NoResource
        /\ acq[a].advance \in {None, "start"}
        /\ acq[a].pc = "context" => acq[a].advance = None /\ ~acq[a].quarantined
    BY <1>1, WhileAwaited
  <1>3. (IF acq[a].advance = None THEN "start" ELSE acq[a].advance) = "start"
    BY <1>2
  <1>4. CASE ContextFails(a)
    <2> DEFINE k == [acq[a] EXCEPT !.pc = "failed", !.dependency = "satisfied",
                                   !.quarantined = TRUE, !.advance = "start"]
    <2>1. /\ k \in Acquisition /\ k.guard = acq[a].guard
          /\ k.pc = "failed" /\ k.driver = NoResource /\ k.rejected = NoResource
          /\ k.dependency = "satisfied" /\ k.advance = "start"
      BY <1>1, <1>2, <1>3 DEF Acquisition, Places, Given
    <2>2. acq' = [acq EXCEPT ![a] = k] /\ UNCHANGED res
      BY <1>4 DEF ContextFails
    <2> HIDE DEF k
    <2>3. QED
      BY <1>1, <2>1, <2>2, NoContextKeeps
  <1>5. CASE LateContextFails(a)
    <2> DEFINE k == [acq[a] EXCEPT !.pc = "failed", !.dependency = "satisfied",
                                   !.advance = IF @ = None THEN "start" ELSE @]
    <2>1. /\ k \in Acquisition /\ k.guard = acq[a].guard
          /\ k.pc = "failed" /\ k.driver = NoResource /\ k.rejected = NoResource
          /\ k.dependency = "satisfied" /\ k.advance = "start"
      BY <1>1, <1>2, <1>3 DEF Acquisition, Places, Given
    <2>2. acq' = [acq EXCEPT ![a] = k] /\ UNCHANGED res
      BY <1>5 DEF LateContextFails
    <2> HIDE DEF k
    <2>3. QED
      BY <1>1, <2>1, <2>2, NoContextKeeps
  <1>6. ASSUME NEW r \in Drivers, ContextArrives(a, r), ~Claimable(r)
        PROVE  IndLease'
    <2> DEFINE k == [acq[a] EXCEPT !.pc = "failed", !.rejected = r, !.dependency = r,
                                   !.quarantined = TRUE, !.advance = "start"]
    <2>1. /\ k \in Acquisition /\ k.guard = acq[a].guard
          /\ k.pc = "failed" /\ k.driver = NoResource /\ k.rejected = r
          /\ k.dependency = r /\ k.advance = "start"
      BY <1>1, <1>2, <1>3 DEF Acquisition, Places, Given
    <2>2. acq' = [acq EXCEPT ![a] = k] /\ UNCHANGED res
      BY <1>6 DEF ContextArrives
    <2> HIDE DEF k
    <2>3. QED
      BY <1>1, <2>1, <2>2, NoContextKeeps
  <1>7. ASSUME NEW r \in Drivers, LateContext(a, r), ~Claimable(r)
        PROVE  IndLease'
    <2> DEFINE k == [acq[a] EXCEPT !.pc = "failed", !.rejected = r, !.dependency = r,
                                   !.advance = IF @ = None THEN "start" ELSE @]
    <2>1. /\ k \in Acquisition /\ k.guard = acq[a].guard
          /\ k.pc = "failed" /\ k.driver = NoResource /\ k.rejected = r
          /\ k.dependency = r /\ k.advance = "start"
      BY <1>1, <1>2, <1>3 DEF Acquisition, Places, Given
    <2>2. acq' = [acq EXCEPT ![a] = k] /\ UNCHANGED res
      BY <1>7 DEF LateContext
    <2> HIDE DEF k
    <2>3. QED
      BY <1>1, <2>1, <2>2, NoContextKeeps
  <1>8. ASSUME NEW r \in Drivers, LateContext(a, r), Claimable(r)
        PROVE  IndLease'
    <2> DEFINE k == [acq[a] EXCEPT !.pc = "failed", !.driver = r, !.dependency = r,
                                   !.advance = IF @ = None THEN "start" ELSE @]
    <2>1. /\ k \in Acquisition /\ k.guard = acq[a].guard
          /\ k.pc = "failed" /\ k.driver = r /\ k.rejected = NoResource
          /\ k.dependency = r /\ k.advance = "start"
      BY <1>1, <1>2, <1>3 DEF Acquisition, Places, Given
    <2>2. /\ acq' = [acq EXCEPT ![a] = k]
          /\ res' = WithClaim(res, r, a, "driver")
      BY <1>8 DEF LateContext
    <2> HIDE DEF k
    <2>3. QED
      BY <1>1, <1>8, <2>1, <2>2, ContextKeeps
  <1>9. ASSUME NEW r \in Drivers, ContextArrives(a, r), Claimable(r)
        PROVE  IndLease'
    <2> DEFINE k == [acq[a] EXCEPT !.pc = "ready", !.driver = r, !.dependency = r]
               f == [acq[a] EXCEPT !.pc = "failed", !.driver = r, !.dependency = r,
                                   !.quarantined = TRUE, !.advance = "start"]
    <2>1. acq[a].pc = "context" /\ res' = WithClaim(res, r, a, "driver")
      BY <1>9 DEF ContextArrives
    <2>2. /\ k \in Acquisition /\ k.guard = acq[a].guard /\ k.pc = "ready" /\ k.driver = r
          /\ k.rejected = NoResource /\ k.dependency = r /\ k.advance = None /\ ~k.quarantined
      BY <1>1, <1>2, <2>1 DEF Acquisition, Places, Given
    <2>3. /\ f \in Acquisition /\ f.guard = acq[a].guard /\ f.pc = "failed" /\ f.driver = r
          /\ f.rejected = NoResource /\ f.dependency = r /\ f.advance = "start"
      BY <1>1, <1>2 DEF Acquisition, Places, Given
    <2>4. acq' = [acq EXCEPT ![a] = k] \/ acq' = [acq EXCEPT ![a] = f]
      BY <1>9 DEF ContextArrives
    <2> HIDE DEF k, f
    <2>5. CASE acq' = [acq EXCEPT ![a] = k]
      BY <1>1, <1>9, <2>1, <2>2, <2>5, ContextKeeps
    <2>6. CASE acq' = [acq EXCEPT ![a] = f]
      BY <1>1, <1>9, <2>1, <2>3, <2>6, ContextKeeps
    <2>7. QED
      BY <2>4, <2>5, <2>6
  <1>10. QED
    BY <1>4, <1>5, <1>6, <1>7, <1>8, <1>9

\* A close is asked for.
LEMMA AttemptSteps ==
  ASSUME IndLease, NEW a \in Acquisitions, CloseHandle(a) \/ ReapQuarantine(a)
  PROVE  IndLease'
  <1>1. acq[a] \in Acquisition /\ AcqInv(a)
    BY TypesOfRecords DEF IndLease
  <1>2. CASE CloseHandle(a)
    <2> DEFINE k == [acq[a] EXCEPT !.pc = "shut", !.quarantined = TRUE, !.advance = "start"]
    <2>1. /\ k \in Acquisition /\ k.pc = "shut" /\ k.guard = acq[a].guard
          /\ k.driver = acq[a].driver /\ k.rejected = acq[a].rejected
          /\ k.dependency = acq[a].dependency /\ k.advance = "start"
      BY <1>1 DEF Acquisition, Places, Given
    <2>2. acq' = [acq EXCEPT ![a] = k] /\ UNCHANGED res /\ acq[a].pc \in {"ready", "shut"}
      BY <1>2 DEF CloseHandle
    <2> HIDE DEF k
    <2>3. QED
      BY <2>1, <2>2, AttemptKeeps
  <1>3. CASE ReapQuarantine(a)
    <2> DEFINE k == [acq[a] EXCEPT !.advance = "start"]
    <2>1. /\ k \in Acquisition /\ k.pc = acq[a].pc /\ k.guard = acq[a].guard
          /\ k.driver = acq[a].driver /\ k.rejected = acq[a].rejected
          /\ k.dependency = acq[a].dependency /\ k.advance = "start"
      BY <1>1 DEF Acquisition
    <2>2. acq' = [acq EXCEPT ![a] = k] /\ UNCHANGED res /\ acq[a].quarantined
      BY <1>3 DEF ReapQuarantine
    <2> HIDE DEF k
    <2>3. acq[a].pc \in {"late context", "shut", "failed"}
      BY <1>1, <2>2 DEF AcqInv, Stage, Acquisition, Places, Before, AtContext, Given
    <2>4. QED
      BY <2>1, <2>2, <2>3, AttemptKeeps
  <1>4. QED
    BY <1>2, <1>3

\* Every step keeps the invariant.
LEMMA StepLease ==
  ASSUME IndLease, [LeaseNext]_leaseVars
  PROVE  IndLease'
  <1>1. CASE UNCHANGED leaseVars
    <2>1. acq' = acq /\ res' = res
      BY <1>1 DEF leaseVars
    <2>2. LeaseTypeOK'
      BY <2>1 DEF IndLease, LeaseTypeOK
    <2>3. ASSUME NEW b \in Acquisitions PROVE AcqInv(b)'
      <3>1. AcqInv(b)
        BY DEF IndLease
      <3>2. Stage(b)' /\ Settled(b)' /\ Claimed(b)' /\ AskedFor(b)'
        BY <2>1, <3>1 DEF AcqInv, Stage, Settled, Claimed, AskedFor
      <3>3. GuardKept(b)' /\ OpenKept(b)'
        BY <2>1, <3>1 DEF AcqInv, GuardKept, OpenKept, DriverMayRun
      <3>4. QED
        BY <3>2, <3>3 DEF AcqInv
    <2>4. QED
      BY <2>2, <2>3 DEF IndLease
  <1>2. ASSUME NEW a \in Acquisitions, AbortContext(a) PROVE IndLease'
    BY <1>2, AbortContextKeeps
  <1>3. ASSUME NEW a \in Acquisitions, Advance(a) PROVE IndLease'
    BY <1>3, StartAdvanceKeeps, CloseDriverKeeps, CloseGuardKeeps DEF Advance
  <1>4. ASSUME NEW r \in Raws, ResourceClosed(r) \/ ResourceCloseFails(r) PROVE IndLease'
    BY <1>4, ClosedKeeps, CloseFailsKeeps
  <1>5. QED
    BY <1>1, <1>2, <1>3, <1>4, GuardSteps, ContextSteps, AttemptSteps DEF LeaseNext

\* The inductive invariant holds of every reachable state, whatever the host answers.
THEOREM LeaseInvariance == LeaseSafetySpec => []IndLease
  <1>1. LeaseInit => IndLease
    BY InitLease
  <1>2. IndLease /\ [LeaseNext]_leaseVars => IndLease'
    BY StepLease
  <1>3. QED
    BY <1>1, <1>2, PTL DEF LeaseSafetySpec

\* advanceAcquisition and requestResourceClose: no guard is closed before every browser behind
\* it has confirmed its own close, and an open session keeps its guard and its driver.
THEOREM LeasesSafe == LeaseSafetySpec => []LeaseInv
  <1>1. IndLease => LeaseInv
    <2>1. SUFFICES ASSUME IndLease PROVE LeaseInv
      OBVIOUS
    <2>2. GuardOutlivesDriver
      BY <2>1 DEF IndLease, AcqInv, GuardKept, GuardOutlivesDriver
    <2>3. OpenSessionsKeepResources
      BY <2>1 DEF IndLease, AcqInv, OpenKept, OpenSessionsKeepResources
    <2>4. QED
      BY <2>1, <2>2, <2>3 DEF IndLease, LeaseInv
  <1>2. QED
    BY <1>1, LeaseInvariance, PTL

\* Asking for a close takes and gives no claim.
LEMMA AskingClaimsNothing ==
  ASSUME IndLease, NEW a \in Acquisitions, AbortContext(a) \/ StartAdvance(a)
  PROVE  \A x \in Raws : res'[x].claims = res[x].claims
  <1>1. res \in [Raws -> Resource] /\ "guard" \in Roles /\ "driver" \in Roles
    BY TypesOfRecords DEF IndLease, Roles
  <1>2. CASE AbortContext(a)
    <2>1. acq[a].guard \in Raws
      BY <1>2, WhileAwaited DEF AbortContext, AtContext
    <2>2. PICK g \in Raws : g = acq[a].guard
      BY <2>1
    <2>3. res' = Requested(res, g, a, "guard")
      BY <1>2, <2>2 DEF AbortContext
    <2>4. QED
      BY <1>1, <2>3, RequestIsQuiet
  <1>3. CASE StartAdvance(a)
    <2>1. acq[a].advance # None
      BY <1>3 DEF StartAdvance, None
    <2>2. PICK g \in Raws : g = acq[a].guard
      BY <2>1, WhileAdvancing
    <2>3. CASE acq[a].driver = NoResource
      <3>1. res' = Requested(res, g, a, "guard")
        BY <1>3, <2>2, <2>3 DEF StartAdvance
      <3>2. QED
        BY <1>1, <3>1, RequestIsQuiet
    <2>4. CASE acq[a].driver # NoResource
      <3>1. PICK d \in Raws : d = acq[a].driver
        BY <2>1, <2>4, WhileAdvancing
      <3>2. res' = Requested(Requested(res, d, a, "driver"), g, a, "guard")
        BY <1>3, <2>2, <2>4, <3>1 DEF StartAdvance
      <3>3. PICK mid \in [Raws -> Resource] :
              /\ res' = Requested(mid, g, a, "guard")
              /\ \A x \in Raws : mid[x].claims = res[x].claims
        BY <1>1, <3>2, RequestIsQuiet
      <3>4. QED
        BY <1>1, <3>3, RequestIsQuiet
    <2>5. QED
      BY <2>3, <2>4
  <1>4. QED
    BY <1>2, <1>3

\* A claim is taken on another object than r, or while r may still be claimed.
LEMMA ClaimsTaken ==
  ASSUME LeaseTypeOK, NEW a, NEW role, NEW r \in Raws, Claimable(r),
         res' = WithClaim(res, r, a, role)
  PROVE  \A x \in Raws : res[x].closing \/ res[x].closed => res'[x].claims = res[x].claims
  <1>1. res \in [Raws -> Resource]
    BY TypesOfRecords
  <1>2. \A x \in Raws : x # r => res'[x] = res[x]
    BY <1>1 DEF WithClaim
  <1>3. QED
    BY <1>2 DEF Claimable

\* The other updates of a resource leave its claims alone.
LEMMA ClaimsLeft ==
  ASSUME LeaseTypeOK, NEW r \in Raws,
         \/ UNCHANGED res
         \/ res' = BeginResourceClose(r)
         \/ res' = [res EXCEPT ![r].accepting = FALSE]
         \/ res' = [res EXCEPT ![r].closed = TRUE]
         \/ res' = [res EXCEPT ![r].closing = FALSE, ![r].failures = @ + 1]
  PROVE  \A x \in Raws : res'[x].claims = res[x].claims
  <1>1. res \in [Raws -> Resource]
    BY TypesOfRecords
  <1>2. QED
    BY <1>1 DEF BeginResourceClose, Resource

\* claimResource: an object that started to close takes no new claim.
THEOREM ClosedTakesNoClaim == LeaseSafetySpec => NoClaimAfterClose
  <1> DEFINE Kept == \A r \in Raws : res[r].closing \/ res[r].closed
                                       => res'[r].claims = res[r].claims
  <1>1. IndLease /\ [LeaseNext]_leaseVars => [Kept]_leaseVars
    <2>1. SUFFICES ASSUME IndLease, LeaseNext PROVE Kept
      OBVIOUS
    <2>2. LeaseTypeOK
      BY <2>1 DEF IndLease
    <2>3. ASSUME NEW a \in Acquisitions,
                 \/ OpenGuard(a) \/ AbortGuard(a) \/ ContextFails(a)
                 \/ LateContextFails(a) \/ CloseHandle(a) \/ ReapQuarantine(a)
          PROVE  Kept
      BY <2>3
      DEF OpenGuard, AbortGuard, ContextFails, LateContextFails, CloseHandle, ReapQuarantine
    <2>4. ASSUME NEW a \in Acquisitions, AbortContext(a) \/ StartAdvance(a)
          PROVE  Kept
      BY <2>1, <2>4, AskingClaimsNothing
    <2>5. ASSUME NEW a \in Acquisitions, NEW r \in Guards, GuardArrives(a, r) \/ LateGuard(a, r)
          PROVE  Kept
      <3>1. (Claimable(r) /\ res' = WithClaim(res, r, a, "guard")) \/ UNCHANGED res
        BY <2>5 DEF GuardArrives, LateGuard
      <3>2. r \in Raws
        BY DEF Raws
      <3>3. QED
        BY <2>2, <3>1, <3>2, ClaimsTaken
    <2>6. ASSUME NEW a \in Acquisitions, NEW r \in Drivers,
                 ContextArrives(a, r) \/ LateContext(a, r)
          PROVE  Kept
      <3>1. (Claimable(r) /\ res' = WithClaim(res, r, a, "driver")) \/ UNCHANGED res
        BY <2>6 DEF ContextArrives, LateContext
      <3>2. r \in Raws
        BY DEF Raws
      <3>3. QED
        BY <2>2, <3>1, <3>2, ClaimsTaken
    <2>7. ASSUME NEW a \in Acquisitions, CloseDriver(a)
          PROVE  Kept
      <3>1. acq[a].advance # None /\ AcqInv(a)
        BY <2>1, <2>7 DEF IndLease, CloseDriver, None
      <3>2. acq[a].driver \in Raws
        BY <2>1, <2>7, <3>1, WhileAdvancing DEF AcqInv, Stage, CloseDriver
      <3>3. PICK r \in Raws : r = acq[a].driver
        BY <3>2
      <3>4. \/ UNCHANGED res \/ res' = BeginResourceClose(r)
            \/ res' = [res EXCEPT ![r].accepting = FALSE]
        BY <2>7, <3>3 DEF CloseDriver
      <3>5. QED
        BY <2>2, <3>4, ClaimsLeft
    <2>8. ASSUME NEW a \in Acquisitions, CloseGuard(a)
          PROVE  Kept
      <3>1. acq[a].advance # None
        BY <2>8 DEF CloseGuard, None
      <3>2. PICK r \in Raws : r = acq[a].guard
        BY <2>1, <3>1, WhileAdvancing
      <3>3. \/ UNCHANGED res \/ res' = BeginResourceClose(r)
            \/ res' = [res EXCEPT ![r].accepting = FALSE]
        BY <2>8, <3>2 DEF CloseGuard
      <3>4. QED
        BY <2>2, <3>3, ClaimsLeft
    <2>9. ASSUME NEW r \in Raws, ResourceClosed(r) \/ ResourceCloseFails(r)
          PROVE  Kept
      BY <2>2, <2>9, ClaimsLeft DEF ResourceClosed, ResourceCloseFails
    <2>10. QED
      BY <2>1, <2>3, <2>4, <2>5, <2>6, <2>7, <2>8, <2>9 DEF LeaseNext, Advance
  <1>2. QED
    BY <1>1, LeaseInvariance, PTL DEF LeaseSafetySpec, NoClaimAfterClose

-----------------------------------------------------------------------------
(***************************************************************************)
(* The session: input reaches the page only with its approvals, the commit *)
(* of an operation is sent only while its caller waits, an abandoned input *)
(* is fenced off, an unknown outcome poisons the session and a closed      *)
(* session has stopped.                                                    *)
(***************************************************************************)

----------------------------------------------------------------------------
(* Types of every record, the closures' included.                           *)

ObservePcs == {"call", "observing", "hashing", "observed", "emit"}
BeforeCommit == {"prepare", "preparing", "checks", "approval", "authorize"}
AfterCommit == {"acting", "evidence", "committed"}
DocOrNone == Docs \union {NoDoc}

Control ==
    [phase : {"none", "auditing", "open", "closed"}, closing : BOOLEAN, poisoned : BOOLEAN,
     gen : Nat, nextStep : Nat \ {0}, used : SUBSET (1..MaxSteps), latest : DocOrNone,
     commitStarted : BOOLEAN]
Operation ==
    [kind : {"none", "observe", "execute"}, promise : {"none", "pending", "rejected", "done"},
     pc : ObservePcs \union BeforeCommit \union AfterCommit \union {"none", "gone"},
     aborted : BOOLEAN, gen : Nat, hgen : Nat, step : Nat, seen : DocOrNone, high : BOOLEAN,
     commit : {"none", "sent", "complete"}]
Prepared == [id : Ops, step : Nat, seen : DocOrNone, doc : DocOrNone, obs : Nat, gen : Nat]
Handle ==
    [gen : Nat, obs : Nat, doc : DocOrNone, nextStep : Nat, latest : DocOrNone,
     prepared : SUBSET Prepared, active : Ops \union {0}, poisoned : BOOLEAN,
     shutdown : BOOLEAN, closed : BOOLEAN, released : BOOLEAN]

Shaped ==
    /\ ctl \in Control /\ slot \in Ops \union {0} /\ op \in [Ops -> Operation] /\ h \in Handle
    /\ page \in Docs /\ drv \in SUBSET [id : Ops, doc : Docs]
    /\ acted \in SUBSET Ops /\ granted \in SUBSET Ops
    /\ closeAt \in [at : {"idle", "waiting", "provider"}, tries : 0..MaxCloses]

----------------------------------------------------------------------------
(* The inductive invariant.                                                 *)

\* What the fields of an operation say of each other: the caller of a closure that runs
\* without an abort still waits, and an abort leaves no closure between its calls.
Coherent(o) ==
    /\ o.kind = "none" <=> o.pc = "none"
    /\ o.kind = "none" <=> o.promise = "none"
    /\ o.pc \in ObservePcs => o.kind = "observe"
    /\ o.pc \in BeforeCommit \union AfterCommit => o.kind = "execute"
    /\ o.promise = "rejected" => o.kind = "execute"
    /\ o.pc \in ObservePcs \union BeforeCommit \union AfterCommit =>
          o.aborted \/ o.promise = "pending"
    /\ o.pc \in {"checks", "approval", "authorize", "committed"} => ~o.aborted
    /\ o.pc \in BeforeCommit => o.commit = "none" /\ o.seen # NoDoc
    /\ o.pc \in AfterCommit => o.commit = "sent"
    /\ o.commit # "none" => o.kind = "execute" /\ o.pc \in AfterCommit \union {"gone"}

\* An input that needs a confirmation has it when its authorization is written.
Approved(o, given) == (o.pc = "authorize" \/ o.commit # "none") /\ o.high => given

\* From its start until its caller has the answer and the rejection handler has run, an
\* execute leaves no digest for another one, and its commit is on record.
Outcome(o, c) ==
    /\ o.kind = "execute" /\ o.promise \in {"pending", "rejected"} =>
          c.latest = NoDoc /\ (o.commit = "sent" => c.commitStarted)
    /\ o.commit = "sent" /\ o.promise = "done" => c.poisoned

\* The slot holds the operation whose caller waits, and is free before the session opens.
SlotHeld ==
    /\ \A i \in Ops : Pending(i) <=> slot = i
    /\ ctl.phase \in {"none", "auditing"} => slot = 0

Fit(o, given, c) == Coherent(o) /\ Approved(o, given) /\ Outcome(o, c)

OpsFit == \A i \in Ops : Fit(op[i], i \in granted, ctl)

\* An input the driver holds was sent, and is either awaited or behind a handle that is shut.
InputsFenced ==
    /\ \A r \in drv :
          /\ op[r.id].commit # "none"
          /\ h.shutdown \/ (op[r.id].pc = "acting" /\ ~op[r.id].aborted)
    /\ \A i \in acted : op[i].commit # "none"

\* A driver that has stopped takes nothing more; a digest is of the document last observed.
Stopped ==
    /\ h.released => h.shutdown /\ drv = {}
    /\ ctl.phase = "closed" => h.released
    /\ h.latest \in {NoDoc, h.doc}

SessionStrong == Shaped /\ SlotHeld /\ OpsFit /\ InputsFenced /\ Stopped

----------------------------------------------------------------------------
(* What the helpers of the actions do to the records.                       *)

\* The controller after an operation has settled (AfterSettled).
LEMMA SettledControl ==
  ASSUME NEW c \in Control, NEW i \in Ops, op \in [Ops -> Operation]
  PROVE  /\ AfterSettled(c, i) \in Control
         /\ AfterSettled(c, i).phase = c.phase /\ AfterSettled(c, i).latest = c.latest
         /\ AfterSettled(c, i).commitStarted = c.commitStarted
         /\ AfterSettled(c, i).poisoned = c.poisoned
         /\ AfterSettled(c, i).closing = c.closing
  BY DEF AfterSettled, Control, Operation

\* The handle after a call was released (finally of observe and execute).
LEMMA ReleasedHandle ==
  ASSUME NEW k \in Handle, NEW i \in Ops
  PROVE  /\ Released(k, i) \in Handle
         /\ Released(k, i).shutdown = k.shutdown /\ Released(k, i).released = k.released
         /\ Released(k, i).latest = k.latest /\ Released(k, i).doc = k.doc
  BY DEF Released, Handle

\* The handle after poisonHandle.
LEMMA PoisonedHandle ==
  ASSUME NEW k \in Handle
  PROVE  /\ Poisoned(k) \in Handle
         /\ Poisoned(k).shutdown /\ Poisoned(k).released = k.released
         /\ Poisoned(k).latest = k.latest /\ Poisoned(k).doc = k.doc
  <1>1. PICK g \in Nat : g = IF k.shutdown THEN k.gen ELSE k.gen + 1
    BY DEF Handle
  <1>2. Poisoned(k) = [k EXCEPT !.poisoned = TRUE, !.shutdown = TRUE, !.gen = g]
    BY <1>1 DEF Poisoned, Handle
  <1>3. QED
    BY <1>2 DEF Handle

\* An operation whose closure ended keeps its request, its answer and its commit.
LEMMA EndedOperation ==
  ASSUME NEW o \in Operation
  PROVE  /\ Ended(o) \in Operation
         /\ Ended(o).kind = o.kind /\ Ended(o).promise = o.promise /\ Ended(o).pc = "gone"
         /\ Ended(o).high = o.high /\ Ended(o).commit = o.commit /\ Ended(o).step = o.step
  BY DEF Ended, Operation, DocOrNone

\* The promise of an execute rejects, that of an observe is over.
LEMMA RejectedOperation ==
  ASSUME NEW o \in Operation
  PROVE  /\ Rejected(o) \in Operation
         /\ Rejected(o).promise = IF o.kind = "execute" THEN "rejected" ELSE "done"
         /\ Rejected(o).kind = o.kind /\ Rejected(o).pc = o.pc /\ Rejected(o).high = o.high
         /\ Rejected(o).commit = o.commit /\ Rejected(o).aborted = o.aborted
         /\ Rejected(o).seen = o.seen
  BY DEF Rejected, Operation

\* The abort listeners leave an operation whose caller has its answer; an input under way
\* shuts the handle.
LEMMA AbortFits ==
  ASSUME SessionStrong, NEW i \in Ops, Pending(i)
  PROVE  /\ AbortedOp(i) \in Operation /\ AbortedHandle(i) \in Handle
         /\ Fit(AbortedOp(i), i \in granted, ctl)
         /\ AbortedOp(i).promise # "pending" /\ AbortedOp(i).commit = op[i].commit
         /\ AbortedHandle(i).released = h.released
         /\ AbortedHandle(i).latest = h.latest /\ AbortedHandle(i).doc = h.doc
         /\ h.shutdown => AbortedHandle(i).shutdown
         /\ op[i].pc = "acting" => AbortedHandle(i).shutdown
  <1> DEFINE o == op[i]
             r == Rejected(o)
  <1>1. o \in Operation /\ h \in Handle /\ Fit(o, i \in granted, ctl) /\ o.promise = "pending"
    BY DEF SessionStrong, Shaped, OpsFit, Pending
  <1>2. /\ r \in Operation /\ r.kind = o.kind /\ r.pc = o.pc /\ r.high = o.high
        /\ r.promise = IF o.kind = "execute" THEN "rejected" ELSE "done"
        /\ r.commit = o.commit /\ r.seen = o.seen
    BY <1>1, RejectedOperation
  <1>3. /\ AbortedHandle(i) \in Handle /\ AbortedHandle(i).released = h.released
        /\ AbortedHandle(i).latest = h.latest /\ AbortedHandle(i).doc = h.doc
        /\ h.shutdown => AbortedHandle(i).shutdown
        /\ o.pc = "acting" => AbortedHandle(i).shutdown
    BY <1>1, PoisonedHandle DEF AbortedHandle, ActedPcs
  <1>4. CASE o.pc \in AdapterPcs \union {"call", "prepare", "observed", "emit"}
    <2> DEFINE a == [r EXCEPT !.aborted = TRUE]
    <2>1. /\ a \in Operation /\ a.kind = r.kind /\ a.pc = r.pc /\ a.high = r.high
          /\ a.promise = r.promise /\ a.commit = r.commit /\ a.seen = r.seen /\ a.aborted
      BY <1>2 DEF Operation
    <2>2. AbortedOp(i) = a
      BY <1>4 DEF AbortedOp
    <2> HIDE DEF a, r
    <2>3. Coherent(a)
      BY <1>1, <1>2, <1>4, <2>1
         DEF Fit, Coherent, AdapterPcs, ObservePcs, BeforeCommit, AfterCommit
    <2>4. Approved(a, i \in granted) /\ Outcome(a, ctl)
      BY <1>1, <1>2, <1>4, <2>1 DEF Fit, Approved, Outcome, Coherent, AdapterPcs
    <2>5. QED
      BY <1>1, <1>2, <1>3, <2>1, <2>2, <2>3, <2>4 DEF Fit
  <1>5. CASE o.pc \notin AdapterPcs \union {"call", "prepare", "observed", "emit"}
    <2> DEFINE e == Ended(r)
    <2>1. /\ e \in Operation /\ e.kind = r.kind /\ e.pc = "gone" /\ e.high = r.high
          /\ e.promise = r.promise /\ e.commit = r.commit
      BY <1>2, EndedOperation
    <2>2. AbortedOp(i) = e
      BY <1>5 DEF AbortedOp
    <2> HIDE DEF e, r
    <2>3. Coherent(e)
      BY <1>1, <1>2, <2>1 DEF Fit, Coherent, ObservePcs, BeforeCommit, AfterCommit
    <2>4. Approved(e, i \in granted) /\ Outcome(e, ctl)
      BY <1>1, <1>2, <1>5, <2>1 DEF Fit, Approved, Outcome, Coherent
    <2>5. QED
      BY <1>1, <1>2, <1>3, <2>1, <2>2, <2>3, <2>4 DEF Fit
  <1>6. QED
    BY <1>4, <1>5

----------------------------------------------------------------------------
(* Steps that move one operation.                                           *)

\* The slot and the operations after a step of operation i: it keeps the slot while its
\* caller waits and frees it otherwise.
LEMMA OneOperation ==
  ASSUME SessionStrong, NEW i \in Ops, NEW o \in Operation,
         op' = [op EXCEPT ![i] = o], ctl' \in Control, granted \subseteq granted',
         slot' = IF o.promise = "pending" THEN i ELSE IF slot = i THEN 0 ELSE slot,
         o.promise = "pending" => slot \in {0, i},
         ctl'.phase = ctl.phase, ctl.phase \in {"none", "auditing"} => o.promise # "pending",
         Fit(o, i \in granted', ctl'),
         \A j \in Ops \ {i} : Fit(op[j], j \in granted, ctl')
  PROVE  SlotHeld' /\ OpsFit'
  <1>1. /\ op \in [Ops -> Operation] /\ slot \in Ops \union {0}
        /\ \A j \in Ops : Pending(j) <=> slot = j
        /\ ctl.phase \in {"none", "auditing"} => slot = 0
    BY DEF SessionStrong, Shaped, SlotHeld
  <1>2. op'[i] = o /\ \A j \in Ops \ {i} : op'[j] = op[j]
    BY <1>1
  <1>3. 0 \notin Ops
    BY DEF Ops
  <1>4. \A j \in Ops : Pending(j)' <=> slot' = j
    BY <1>1, <1>2, <1>3 DEF Pending
  <1>5. \A j \in Ops : Fit(op'[j], j \in granted', ctl')
    <2> SUFFICES ASSUME NEW j \in Ops PROVE Fit(op'[j], j \in granted', ctl')
      OBVIOUS
    <2>1. CASE j = i
      BY <1>2, <2>1
    <2>2. CASE j # i
      <3>1. Fit(op[j], j \in granted, ctl')
        BY <2>2
      <3>2. op'[j] = op[j] /\ (j \in granted => j \in granted') /\ op[j] \in Operation
        BY <1>1, <1>2, <2>2
      <3>3. QED
        BY <3>1, <3>2 DEF Fit, Approved
    <2>3. QED
      BY <2>1, <2>2
  <1>6. ctl'.phase \in {"none", "auditing"} => slot' = 0
    BY <1>1
  <1>7. QED
    BY <1>4, <1>5, <1>6 DEF SlotHeld, OpsFit

\* The inputs the driver holds after a step of operation i that sends none.
LEMMA InputsRest ==
  ASSUME SessionStrong, NEW i \in Ops, NEW o \in Operation,
         op' = [op EXCEPT ![i] = o], UNCHANGED <<drv, acted>>,
         op[i].commit # "none" => o.commit # "none",
         h.shutdown => h'.shutdown,
         op[i].pc = "acting" /\ ~op[i].aborted =>
            h'.shutdown \/ (o.pc = "acting" /\ ~o.aborted) \/ \A r \in drv : r.id # i
  PROVE  InputsFenced'
  <1>1. op \in [Ops -> Operation] /\ InputsFenced /\ acted \in SUBSET Ops
        /\ drv \in SUBSET [id : Ops, doc : Docs]
    BY DEF SessionStrong, Shaped
  <1>2. op'[i] = o /\ \A j \in Ops \ {i} : op'[j] = op[j]
    BY <1>1
  <1>3. \A k \in acted' : op'[k].commit # "none"
    BY <1>1, <1>2 DEF InputsFenced
  <1>4. ASSUME NEW r \in drv'
        PROVE  /\ op'[r.id].commit # "none"
               /\ h'.shutdown \/ (op'[r.id].pc = "acting" /\ ~op'[r.id].aborted)
    <2>1. r \in drv /\ r.id \in Ops
      BY <1>1, <1>4
    <2>2. CASE r.id = i
      BY <1>1, <1>2, <2>1, <2>2 DEF InputsFenced
    <2>3. CASE r.id # i
      BY <1>1, <1>2, <2>1, <2>3 DEF InputsFenced
    <2>4. QED
      BY <2>2, <2>3
  <1>5. QED
    BY <1>3, <1>4 DEF InputsFenced

\* A closure goes on with its call: the handle stays as open as it was.
LEMMA GoesOn ==
  ASSUME SessionStrong, NEW i \in Ops, NEW o \in Operation, op' = [op EXCEPT ![i] = o],
         o.promise = op[i].promise, o.kind = op[i].kind, o.commit = op[i].commit,
         Coherent(o), granted \subseteq granted', granted' \in SUBSET Ops,
         Approved(o, i \in granted'),
         UNCHANGED <<slot, ctl, page, drv, acted, closeAt>>,
         h' \in Handle, h'.latest \in {NoDoc, h'.doc}, h'.shutdown = h.shutdown,
         h'.released = h.released,
         op[i].pc = "acting" => \A r \in drv : r.id # i
  PROVE  SessionStrong'
  <1>1. /\ op \in [Ops -> Operation] /\ slot \in Ops \union {0} /\ ctl \in Control
        /\ \A j \in Ops : Fit(op[j], j \in granted, ctl)
        /\ \A j \in Ops : Pending(j) <=> slot = j
        /\ ctl.phase \in {"none", "auditing"} => slot = 0
    BY DEF SessionStrong, Shaped, OpsFit, SlotHeld
  <1>2. Shaped'
    BY <1>1 DEF SessionStrong, Shaped
  <1>3. Fit(o, i \in granted', ctl')
    <2>1. Fit(op[i], i \in granted, ctl)
      BY <1>1
    <2>2. Outcome(o, ctl)
      BY <2>1 DEF Fit, Outcome
    <2>3. QED
      BY <2>2 DEF Fit
  <1>4. 0 \notin Ops
    BY DEF Ops
  <1>5. SlotHeld' /\ OpsFit'
    BY <1>1, <1>3, <1>4, OneOperation DEF Pending
  <1>6. InputsFenced'
    BY InputsRest
  <1>7. Stopped'
    BY DEF SessionStrong, Stopped
  <1>8. QED
    BY <1>2, <1>5, <1>6, <1>7 DEF SessionStrong

\* A closure that throws: its caller has an error unless it left before, and an input that
\* was under way is behind a handle that is shut (catch of observe, prepare and commit).
LEMMA Thrown ==
  ASSUME SessionStrong, NEW i \in Ops, NEW k \in Handle, Throw(i, k),
         op[i].pc \notin {"none", "gone"},
         k.latest = h.latest, k.doc = h.doc, k.released = h.released,
         h.shutdown => k.shutdown, op[i].pc = "acting" => k.shutdown,
         UNCHANGED <<page, drv, acted, granted, closeAt>>
  PROVE  SessionStrong'
  <1> DEFINE o == op[i]
             r == IF Pending(i) THEN Rejected(o) ELSE o
             e == Ended(r)
  <1>1. /\ op \in [Ops -> Operation] /\ slot \in Ops \union {0} /\ ctl \in Control
        /\ \A j \in Ops : Fit(op[j], j \in granted, ctl)
        /\ \A j \in Ops : Pending(j) <=> slot = j
        /\ o \in Operation /\ Fit(o, i \in granted, ctl)
        /\ ctl.phase \in {"none", "auditing"} => slot = 0
    BY DEF SessionStrong, Shaped, OpsFit, SlotHeld
  <1>2. /\ r \in Operation /\ r.kind = o.kind /\ r.high = o.high /\ r.commit = o.commit
        /\ r.promise = IF Pending(i) THEN IF o.kind = "execute" THEN "rejected" ELSE "done"
                       ELSE o.promise
    BY <1>1, RejectedOperation
  <1>3. /\ e \in Operation /\ e.kind = r.kind /\ e.promise = r.promise /\ e.pc = "gone"
        /\ e.high = r.high /\ e.commit = r.commit
    BY <1>2, EndedOperation
  <1>4. /\ op' = [op EXCEPT ![i] = e] /\ h' = Released(k, i)
        /\ slot' = IF slot = i THEN 0 ELSE slot
        /\ ctl' = IF Pending(i) THEN AfterSettled(ctl, i) ELSE ctl
    BY DEF Throw
  <1> HIDE DEF e, r
  <1>5. /\ ctl' \in Control /\ ctl'.phase = ctl.phase /\ ctl'.latest = ctl.latest
        /\ ctl'.commitStarted = ctl.commitStarted /\ ctl'.poisoned = ctl.poisoned
    BY <1>1, <1>4, SettledControl
  <1>6. /\ h' \in Handle /\ h'.shutdown = k.shutdown /\ h'.released = k.released
        /\ h'.latest = k.latest /\ h'.doc = k.doc
    BY <1>4, ReleasedHandle
  <1>7. e.promise # "pending"
    BY <1>2, <1>3 DEF Pending
  <1>8. Fit(e, i \in granted, ctl')
    <2>1. Coherent(e)
      BY <1>1, <1>2, <1>3 DEF Fit, Coherent, ObservePcs, BeforeCommit, AfterCommit
    <2>2. Approved(e, i \in granted)
      BY <1>1, <1>2, <1>3 DEF Fit, Approved
    <2>3. Outcome(e, ctl')
      BY <1>1, <1>2, <1>3, <1>5 DEF Fit, Outcome, Pending, Coherent
    <2>4. QED
      BY <2>1, <2>2, <2>3 DEF Fit
  <1>9. \A j \in Ops \ {i} : Fit(op[j], j \in granted, ctl')
    BY <1>1, <1>5 DEF Fit, Outcome
  <1>10. SlotHeld' /\ OpsFit'
    BY <1>3, <1>4, <1>5, <1>7, <1>8, <1>9, OneOperation
  <1>11. InputsFenced'
    BY <1>2, <1>3, <1>4, <1>6, InputsRest
  <1>12. Shaped'
    BY <1>1, <1>3, <1>4, <1>5, <1>6 DEF SessionStrong, Shaped
  <1>13. Stopped'
    BY <1>5, <1>6 DEF SessionStrong, Stopped
  <1>14. QED
    BY <1>10, <1>11, <1>12, <1>13 DEF SessionStrong

----------------------------------------------------------------------------
(* The calls of observe.                                                    *)

\* What a step of operation i starts from.
LEMMA AtHand ==
  ASSUME SessionStrong, NEW i \in Ops
  PROVE  /\ op \in [Ops -> Operation] /\ op[i] \in Operation /\ h \in Handle /\ ctl \in Control
         /\ Coherent(op[i]) /\ Approved(op[i], i \in granted) /\ Outcome(op[i], ctl)
         /\ slot \in Ops \union {0} /\ (Pending(i) <=> slot = i) /\ 0 \notin Ops
         /\ page \in Docs /\ granted \in SUBSET Ops /\ h.latest \in {NoDoc, h.doc}
  BY DEF SessionStrong, Shaped, OpsFit, Fit, SlotHeld, Stopped, Ops

\* observe: the operation takes the free slot.
LEMMA ObserveKeeps ==
  ASSUME SessionStrong, NEW i \in Ops, Observe(i)
  PROVE  SessionStrong'
  <1> DEFINE o == [NoOp EXCEPT !.kind = "observe", !.promise = "pending", !.pc = "call",
                               !.gen = ctl.gen]
  <1>1. /\ op' = [op EXCEPT ![i] = o] /\ slot' = i /\ slot = 0 /\ ctl.phase = "open"
        /\ op[i].kind = "none" /\ UNCHANGED <<ctl, h, page, drv, acted, granted, closeAt>>
    BY DEF Observe, Usable
  <1>2. /\ o \in Operation /\ o.kind = "observe" /\ o.promise = "pending" /\ o.pc = "call"
        /\ o.commit = "none" /\ ~o.aborted
    BY AtHand DEF NoOp, Operation, Control, ObservePcs, DocOrNone
  <1> HIDE DEF o
  <1>3. op[i].commit = "none" /\ op[i].pc = "none"
    BY <1>1, AtHand DEF Coherent, Operation
  <1>4. Fit(o, i \in granted, ctl)
    BY <1>2 DEF Fit, Coherent, Approved, Outcome, ObservePcs, BeforeCommit, AfterCommit
  <1>5. \A j \in Ops \ {i} : Fit(op[j], j \in granted, ctl)
    BY DEF SessionStrong, OpsFit
  <1>6. SlotHeld' /\ OpsFit'
    BY <1>1, <1>2, <1>4, <1>5, AtHand, OneOperation
  <1>7. InputsFenced'
    BY <1>1, <1>2, <1>3, InputsRest
  <1>8. Shaped'
    BY <1>1, <1>2 DEF SessionStrong, Shaped
  <1>9. Stopped'
    BY <1>1 DEF SessionStrong, Stopped
  <1>10. QED
    BY <1>6, <1>7, <1>8, <1>9 DEF SessionStrong

\* The adapter admits an observe or refuses it.
LEMMA AdapterObserveKeeps ==
  ASSUME SessionStrong, NEW i \in Ops, AdapterObserve(i)
  PROVE  SessionStrong'
  <1>1. op[i].pc = "call" /\ UNCHANGED <<page, drv, acted, granted, closeAt>>
    BY DEF AdapterObserve
  <1>2. CASE Admits /\ SignalLive(i)
    <2> DEFINE o == [op[i] EXCEPT !.pc = "observing", !.hgen = h.gen]
    <2>1. /\ op' = [op EXCEPT ![i] = o] /\ h' = [h EXCEPT !.active = i, !.prepared = {}]
          /\ UNCHANGED <<ctl, slot>>
      BY <1>2, AtHand DEF AdapterObserve
    <2>2. /\ o \in Operation /\ o.kind = op[i].kind /\ o.promise = op[i].promise
          /\ o.pc = "observing" /\ o.commit = op[i].commit /\ o.aborted = op[i].aborted
          /\ o.high = op[i].high
      BY AtHand, ZenonT(60) DEF Operation, Handle, ObservePcs
    <2> HIDE DEF o
    <2>3. /\ h' \in Handle /\ h'.latest = h.latest /\ h'.doc = h.doc /\ h'.shutdown = h.shutdown
          /\ h'.released = h.released
      BY <2>1, AtHand DEF Handle
    <2>4. Coherent(o) /\ Approved(o, i \in granted)
      BY <1>1, <2>2, AtHand
         DEF Coherent, Approved, ObservePcs, BeforeCommit, AfterCommit
    <2>5. QED
      BY <1>1, <2>1, <2>2, <2>3, <2>4, AtHand, GoesOn
  <1>3. CASE ~(Admits /\ SignalLive(i))
    BY <1>1, <1>3, AtHand, Thrown DEF AdapterObserve
  <1>4. QED
    BY <1>2, <1>3

\* The driver's observation arrives or fails.
LEMMA DriverObservedKeeps ==
  ASSUME SessionStrong, NEW i \in Ops, DriverObserved(i)
  PROVE  SessionStrong'
  <1>1. op[i].pc = "observing" /\ UNCHANGED <<page, drv, acted, granted, closeAt>>
    BY DEF DriverObserved
  <1>2. CASE /\ op' = [op EXCEPT ![i].pc = "hashing", ![i].seen = page]
             /\ UNCHANGED <<ctl, slot, h>>
    <2> DEFINE o == [op[i] EXCEPT !.pc = "hashing", !.seen = page]
    <2>1. op' = [op EXCEPT ![i] = o]
      BY <1>2, AtHand
    <2>2. /\ o \in Operation /\ o.kind = op[i].kind /\ o.promise = op[i].promise
          /\ o.pc = "hashing" /\ o.commit = op[i].commit /\ o.aborted = op[i].aborted
          /\ o.high = op[i].high
      BY AtHand DEF Operation, ObservePcs, DocOrNone
    <2> HIDE DEF o
    <2>3. Coherent(o) /\ Approved(o, i \in granted)
      BY <1>1, <2>2, AtHand
         DEF Coherent, Approved, ObservePcs, BeforeCommit, AfterCommit
    <2>4. QED
      BY <1>1, <1>2, <2>1, <2>2, <2>3, AtHand, GoesOn
  <1>3. CASE Throw(i, h)
    BY <1>1, <1>3, AtHand, Thrown
  <1>4. QED
    BY <1>2, <1>3 DEF DriverObserved

\* The digest of an observation becomes the handle's latest, with its document.
LEMMA ObservationHashedKeeps ==
  ASSUME SessionStrong, NEW i \in Ops, ObservationHashed(i)
  PROVE  SessionStrong'
  <1>1. op[i].pc = "hashing" /\ UNCHANGED <<page, drv, acted, granted, closeAt>>
    BY DEF ObservationHashed
  <1>2. CASE /\ h' = Released([h EXCEPT !.latest = op[i].seen, !.doc = op[i].seen,
                                        !.obs = @ + 1], i)
             /\ op' = [op EXCEPT ![i].pc = "observed"]
             /\ UNCHANGED <<ctl, slot>>
    <2>0. PICK n \in Nat : n = h.obs + 1
      BY AtHand DEF Handle
    <2> DEFINE o == [op[i] EXCEPT !.pc = "observed"]
               k == [h EXCEPT !.latest = op[i].seen, !.doc = op[i].seen, !.obs = n]
    <2>1. op' = [op EXCEPT ![i] = o]
      BY <1>2, AtHand
    <2>2. /\ o \in Operation /\ o.kind = op[i].kind /\ o.promise = op[i].promise
          /\ o.pc = "observed" /\ o.commit = op[i].commit /\ o.aborted = op[i].aborted
          /\ o.high = op[i].high
      BY AtHand DEF Operation, ObservePcs
    <2>3. /\ k \in Handle /\ k.shutdown = h.shutdown /\ k.released = h.released
          /\ k.latest = k.doc
      BY AtHand DEF Handle, Operation
    <2>4. h' = Released(k, i)
      BY <1>2, <2>0, AtHand DEF Handle
    <2> HIDE DEF o, k
    <2>5. /\ h' \in Handle /\ h'.latest = h'.doc /\ h'.shutdown = h.shutdown
          /\ h'.released = h.released
      BY <2>3, <2>4, ReleasedHandle
    <2>6. Coherent(o) /\ Approved(o, i \in granted)
      BY <1>1, <2>2, AtHand
         DEF Coherent, Approved, ObservePcs, BeforeCommit, AfterCommit
    <2>7. QED
      BY <1>1, <1>2, <2>1, <2>2, <2>5, <2>6, AtHand, GoesOn
  <1>3. CASE Throw(i, h)
    BY <1>1, <1>3, AtHand, Thrown
  <1>4. QED
    BY <1>2, <1>3 DEF ObservationHashed

\* Back in the controller the digest becomes the latest: no execute is under way then.
LEMMA TakeObservationKeeps ==
  ASSUME SessionStrong, NEW i \in Ops, TakeObservation(i)
  PROVE  SessionStrong'
  <1>1. op[i].pc = "observed" /\ NoHandlerDue /\ UNCHANGED <<page, drv, acted, granted, closeAt>>
    BY DEF TakeObservation
  <1>2. CASE /\ Current(i) /\ ctl' = [ctl EXCEPT !.latest = op[i].seen]
             /\ op' = [op EXCEPT ![i].pc = "emit"] /\ UNCHANGED <<slot, h>>
    <2> DEFINE o == [op[i] EXCEPT !.pc = "emit"]
    <2>1. op' = [op EXCEPT ![i] = o] /\ UNCHANGED <<slot, h>>
      BY <1>2, AtHand
    <2>2. /\ o \in Operation /\ o.kind = op[i].kind /\ o.promise = op[i].promise
          /\ o.pc = "emit" /\ o.commit = op[i].commit /\ o.aborted = op[i].aborted
          /\ o.high = op[i].high
      BY AtHand DEF Operation, ObservePcs
    <2> HIDE DEF o
    <2>3. op[i].promise = "pending" /\ slot = i /\ op[i].kind = "observe"
      BY <1>1, <1>2, AtHand DEF Current, SignalLive, Coherent, ObservePcs, Pending
    <2>4. /\ ctl' \in Control /\ ctl'.phase = ctl.phase /\ ctl'.poisoned = ctl.poisoned
      BY <1>2, AtHand DEF Control, Operation
    <2>5. Fit(o, i \in granted, ctl')
      BY <1>1, <2>2, <2>3, AtHand
         DEF Fit, Coherent, Approved, Outcome, ObservePcs, BeforeCommit, AfterCommit
    <2>6. ASSUME NEW j \in Ops \ {i} PROVE Fit(op[j], j \in granted, ctl')
      <3>1. Fit(op[j], j \in granted, ctl) /\ op[j].promise \notin {"pending", "rejected"}
        BY <1>1, <2>3 DEF SessionStrong, OpsFit, SlotHeld, Pending, NoHandlerDue
      <3>2. QED
        BY <2>4, <3>1 DEF Fit, Outcome
    <2>7. ctl.phase \notin {"none", "auditing"}
      BY <2>3, AtHand DEF SessionStrong, SlotHeld
    <2>8. SlotHeld' /\ OpsFit'
      BY <1>1, <2>1, <2>2, <2>3, <2>4, <2>5, <2>6, <2>7, OneOperation
    <2>9. InputsFenced'
      BY <1>1, <2>1, <2>2, InputsRest
    <2>10. Shaped'
      BY <1>1, <2>1, <2>2, <2>4 DEF SessionStrong, Shaped
    <2>11. Stopped'
      BY <1>1, <2>1, <2>4 DEF SessionStrong, Stopped
    <2>12. QED
      BY <2>8, <2>9, <2>10, <2>11 DEF SessionStrong
  <1>3. CASE Throw(i, h)
    BY <1>1, <1>3, AtHand, Thrown
  <1>4. QED
    BY <1>2, <1>3 DEF TakeObservation

\* The audit event of an observation is written, or its failure takes the digest away.
LEMMA ObservationAuditedKeeps ==
  ASSUME SessionStrong, NEW i \in Ops, ObservationAudited(i)
  PROVE  SessionStrong'
  <1> DEFINE e == Ended(op[i])
             o == [e EXCEPT !.promise = "done"]
  <1>1. /\ op[i].pc = "emit" /\ UNCHANGED <<h, page, drv, acted, granted, closeAt>>
        /\ op' = [op EXCEPT ![i] = o] /\ slot' = IF slot = i THEN 0 ELSE slot
        /\ ctl' = ctl \/ ctl' = [ctl EXCEPT !.latest = NoDoc]
    BY AtHand DEF ObservationAudited
  <1>2. e \in Operation /\ e.kind = op[i].kind /\ e.pc = "gone" /\ e.commit = op[i].commit
    BY AtHand, EndedOperation
  <1>3. /\ o \in Operation /\ o.kind = op[i].kind /\ o.promise = "done" /\ o.pc = "gone"
        /\ o.commit = op[i].commit
    BY <1>2 DEF Operation
  <1> HIDE DEF e, o
  <1>4. /\ ctl' \in Control /\ ctl'.phase = ctl.phase /\ ctl'.poisoned = ctl.poisoned
        /\ ctl'.latest \in {ctl.latest, NoDoc} /\ ctl'.commitStarted = ctl.commitStarted
    BY <1>1, AtHand DEF Control, DocOrNone
  <1>5. op[i].kind = "observe" /\ op[i].commit = "none"
    BY <1>1, AtHand DEF Coherent, ObservePcs, AfterCommit
  <1>6. Fit(o, i \in granted, ctl')
    BY <1>3, <1>5 DEF Fit, Coherent, Approved, Outcome, ObservePcs, BeforeCommit, AfterCommit
  <1>7. ASSUME NEW j \in Ops \ {i} PROVE Fit(op[j], j \in granted, ctl')
    <2>1. Fit(op[j], j \in granted, ctl)
      BY DEF SessionStrong, OpsFit
    <2>2. QED
      BY <1>4, <2>1 DEF Fit, Outcome
  <1>8. SlotHeld' /\ OpsFit'
    BY <1>1, <1>3, <1>4, <1>6, <1>7, OneOperation
  <1>9. InputsFenced'
    BY <1>1, <1>3, <1>5, InputsRest
  <1>10. Shaped'
    BY <1>1, <1>3, <1>4 DEF SessionStrong, Shaped
  <1>11. Stopped'
    BY <1>1, <1>4 DEF SessionStrong, Stopped
  <1>12. QED
    BY <1>8, <1>9, <1>10, <1>11 DEF SessionStrong

----------------------------------------------------------------------------
(* The calls of execute.                                                    *)

\* execute: a free slot and a latest digest mean that no execute is under way.
LEMMA ExecuteKeeps ==
  ASSUME SessionStrong, NEW i \in Ops, NEW high \in BOOLEAN, Execute(i, high)
  PROVE  SessionStrong'
  <1> DEFINE o == [NoOp EXCEPT !.kind = "execute", !.promise = "pending", !.pc = "prepare",
                               !.gen = ctl.gen, !.step = ctl.nextStep, !.seen = ctl.latest,
                               !.high = high]
  <1>1. /\ op' = [op EXCEPT ![i] = o] /\ slot' = i /\ slot = 0 /\ ctl.phase = "open"
        /\ op[i].kind = "none" /\ UNCHANGED <<h, page, drv, acted, granted, closeAt>>
        /\ ctl.latest # NoDoc /\ ctl.nextStep <= MaxSteps
        /\ ctl' = [ctl EXCEPT !.used = ctl.used \union {ctl.nextStep}, !.latest = NoDoc,
                              !.commitStarted = FALSE]
    BY DEF Execute, Usable
  <1>2. /\ o \in Operation /\ o.kind = "execute" /\ o.promise = "pending" /\ o.pc = "prepare"
        /\ o.commit = "none" /\ ~o.aborted /\ o.seen # NoDoc
    BY <1>1, AtHand DEF NoOp, Operation, Control, BeforeCommit
  <1> HIDE DEF o
  <1>3. op[i].commit = "none" /\ op[i].pc = "none"
    BY <1>1, AtHand DEF Coherent, Operation
  <1>4. ctl.used \union {ctl.nextStep} \in SUBSET (1..MaxSteps)
    BY <1>1, AtHand, SessionBounds DEF Control
  <1>5. /\ ctl' \in Control /\ ctl'.phase = ctl.phase /\ ctl'.poisoned = ctl.poisoned
        /\ ctl'.latest = NoDoc
    BY <1>1, <1>4, AtHand DEF Control, DocOrNone
  <1>6. Fit(o, i \in granted, ctl')
    BY <1>2, <1>5 DEF Fit, Coherent, Approved, Outcome, ObservePcs, BeforeCommit, AfterCommit
  <1>7. ASSUME NEW j \in Ops \ {i} PROVE Fit(op[j], j \in granted, ctl')
    <2>1. Fit(op[j], j \in granted, ctl) /\ op[j].promise # "pending"
      BY <1>1, AtHand DEF SessionStrong, OpsFit, SlotHeld, Pending
    <2>2. QED
      BY <1>1, <1>5, <2>1 DEF Fit, Outcome
  <1>8. SlotHeld' /\ OpsFit'
    BY <1>1, <1>2, <1>5, <1>6, <1>7, OneOperation
  <1>9. InputsFenced'
    BY <1>1, <1>2, <1>3, InputsRest
  <1>10. Shaped'
    BY <1>1, <1>2, <1>5 DEF SessionStrong, Shaped
  <1>11. Stopped'
    BY <1>1, <1>5 DEF SessionStrong, Stopped
  <1>12. QED
    BY <1>8, <1>9, <1>10, <1>11 DEF SessionStrong

\* prepare is admitted or refused.
LEMMA AdapterPrepareKeeps ==
  ASSUME SessionStrong, NEW i \in Ops, AdapterPrepare(i)
  PROVE  SessionStrong'
  <1>1. op[i].pc = "prepare" /\ UNCHANGED <<page, drv, acted, granted, closeAt>>
    BY DEF AdapterPrepare
  <1>2. CASE PrepareAccepted(i) /\ Current(i)
    <2> DEFINE o == [op[i] EXCEPT !.pc = "preparing", !.hgen = h.gen]
    <2>1. op' = [op EXCEPT ![i] = o] /\ h' = [h EXCEPT !.active = i] /\ UNCHANGED <<ctl, slot>>
      BY <1>2, AtHand DEF AdapterPrepare
    <2>2. /\ o \in Operation /\ o.kind = op[i].kind /\ o.promise = op[i].promise
          /\ o.pc = "preparing" /\ o.commit = op[i].commit /\ o.aborted = op[i].aborted
          /\ o.high = op[i].high /\ o.seen = op[i].seen
      BY AtHand, ZenonT(60) DEF Operation, Handle, BeforeCommit
    <2> HIDE DEF o
    <2>3. /\ h' \in Handle /\ h'.latest = h.latest /\ h'.doc = h.doc /\ h'.shutdown = h.shutdown
          /\ h'.released = h.released
      BY <2>1, AtHand DEF Handle
    <2>4. Coherent(o) /\ Approved(o, i \in granted)
      BY <1>1, <2>2, AtHand
         DEF Coherent, Approved, ObservePcs, BeforeCommit, AfterCommit
    <2>5. QED
      BY <1>1, <2>1, <2>2, <2>3, <2>4, AtHand, GoesOn
  <1>3. CASE ~(PrepareAccepted(i) /\ Current(i))
    BY <1>1, <1>3, AtHand, Thrown DEF AdapterPrepare
  <1>4. QED
    BY <1>2, <1>3

\* The action's digest is kept as a prepared record.
LEMMA ActionHashedKeeps ==
  ASSUME SessionStrong, NEW i \in Ops, ActionHashed(i)
  PROVE  SessionStrong'
  <1>1. op[i].pc = "preparing" /\ UNCHANGED <<page, drv, acted, granted, closeAt>>
    BY DEF ActionHashed
  <1>2. CASE SignalLive(i) /\ SameGeneration(i)
    <2> DEFINE o == [op[i] EXCEPT !.pc = "checks"]
               r == [id |-> i, step |-> op[i].step, seen |-> op[i].seen, doc |-> h.doc,
                     obs |-> h.obs, gen |-> h.gen]
    <2>1. r \in Prepared
      BY AtHand DEF Operation, Handle, Prepared
    <2> HIDE DEF r
    <2>2. PICK ps \in SUBSET Prepared : ps = h.prepared \union {r}
      BY <2>1, AtHand DEF Handle
    <2> DEFINE k == [h EXCEPT !.prepared = ps]
    <2>3. /\ op' = [op EXCEPT ![i] = o] /\ h' = Released(k, i) /\ UNCHANGED <<ctl, slot>>
      BY <1>2, <2>2, AtHand DEF ActionHashed, r
    <2>4. /\ o \in Operation /\ o.kind = op[i].kind /\ o.promise = op[i].promise
          /\ o.pc = "checks" /\ o.commit = op[i].commit /\ o.aborted = op[i].aborted
          /\ o.high = op[i].high /\ o.seen = op[i].seen
      BY AtHand DEF Operation, BeforeCommit
    <2>5. /\ k \in Handle /\ k.latest = h.latest /\ k.doc = h.doc /\ k.shutdown = h.shutdown
          /\ k.released = h.released
      BY AtHand DEF Handle
    <2> HIDE DEF o, k
    <2>6. /\ h' \in Handle /\ h'.latest = h.latest /\ h'.doc = h.doc /\ h'.shutdown = h.shutdown
          /\ h'.released = h.released
      BY <2>3, <2>5, ReleasedHandle
    <2>7. Coherent(o) /\ Approved(o, i \in granted)
      BY <1>1, <1>2, <2>4, AtHand
         DEF Coherent, Approved, ObservePcs, BeforeCommit, AfterCommit, SignalLive
    <2>8. QED
      BY <1>1, <2>3, <2>4, <2>6, <2>7, AtHand, GoesOn
  <1>3. CASE ~(SignalLive(i) /\ SameGeneration(i))
    BY <1>1, <1>3, AtHand, Thrown DEF ActionHashed
  <1>4. QED
    BY <1>2, <1>3

\* The checks of an action are collected.
LEMMA CollectChecksKeeps ==
  ASSUME SessionStrong, NEW i \in Ops, CollectChecks(i)
  PROVE  SessionStrong'
  <1>1. op[i].pc = "checks" /\ UNCHANGED <<page, drv, acted, granted, closeAt>>
    BY DEF CollectChecks
  <1>2. CASE op' = [op EXCEPT ![i].pc = "approval", ![i].high = TRUE] /\ UNCHANGED <<ctl, slot, h>>
    <2> DEFINE o == [op[i] EXCEPT !.pc = "approval", !.high = TRUE]
    <2>1. op' = [op EXCEPT ![i] = o] /\ UNCHANGED <<ctl, slot, h>>
      BY <1>2, AtHand
    <2>2. /\ o \in Operation /\ o.kind = op[i].kind /\ o.promise = op[i].promise
          /\ o.pc = "approval" /\ o.commit = op[i].commit /\ o.aborted = op[i].aborted
          /\ o.seen = op[i].seen
      BY AtHand DEF Operation, BeforeCommit
    <2> HIDE DEF o
    <2>3. Coherent(o) /\ Approved(o, i \in granted)
      BY <1>1, <2>2, AtHand
         DEF Coherent, Approved, ObservePcs, BeforeCommit, AfterCommit
    <2>4. QED
      BY <1>1, <2>1, <2>2, <2>3, AtHand, GoesOn
  <1>3. CASE ~op[i].high /\ op' = [op EXCEPT ![i].pc = "authorize"] /\ UNCHANGED <<ctl, slot, h>>
    <2> DEFINE o == [op[i] EXCEPT !.pc = "authorize"]
    <2>1. op' = [op EXCEPT ![i] = o] /\ UNCHANGED <<ctl, slot, h>>
      BY <1>3, AtHand
    <2>2. /\ o \in Operation /\ o.kind = op[i].kind /\ o.promise = op[i].promise
          /\ o.pc = "authorize" /\ o.commit = op[i].commit /\ o.aborted = op[i].aborted
          /\ o.seen = op[i].seen /\ ~o.high
      BY <1>3, AtHand DEF Operation, BeforeCommit
    <2> HIDE DEF o
    <2>3. Coherent(o) /\ Approved(o, i \in granted)
      BY <1>1, <2>2, AtHand
         DEF Coherent, Approved, ObservePcs, BeforeCommit, AfterCommit
    <2>4. QED
      BY <1>1, <2>1, <2>2, <2>3, AtHand, GoesOn
  <1>4. CASE Throw(i, h)
    BY <1>1, <1>4, AtHand, Thrown
  <1>5. QED
    BY <1>2, <1>3, <1>4 DEF CollectChecks

\* Every check is approved for this very operation, or one is refused.
LEMMA ApprovalAnsweredKeeps ==
  ASSUME SessionStrong, NEW i \in Ops, ApprovalAnswered(i)
  PROVE  SessionStrong'
  <1>1. op[i].pc = "approval" /\ UNCHANGED <<page, drv, acted, closeAt>>
    BY DEF ApprovalAnswered
  <1>2. CASE /\ op' = [op EXCEPT ![i].pc = "authorize"] /\ granted' = granted \union {i}
             /\ UNCHANGED <<ctl, slot, h>>
    <2> DEFINE o == [op[i] EXCEPT !.pc = "authorize"]
    <2>1. op' = [op EXCEPT ![i] = o] /\ UNCHANGED <<ctl, slot, h>>
      BY <1>2, AtHand
    <2>2. /\ o \in Operation /\ o.kind = op[i].kind /\ o.promise = op[i].promise
          /\ o.pc = "authorize" /\ o.commit = op[i].commit /\ o.aborted = op[i].aborted
          /\ o.seen = op[i].seen
      BY AtHand DEF Operation, BeforeCommit
    <2> HIDE DEF o
    <2>3. granted \subseteq granted' /\ granted' \in SUBSET Ops /\ i \in granted'
      BY <1>2, AtHand
    <2>4. Coherent(o) /\ Approved(o, i \in granted')
      BY <1>1, <2>2, <2>3, AtHand
         DEF Coherent, Approved, ObservePcs, BeforeCommit, AfterCommit
    <2>5. QED
      BY <1>1, <2>1, <2>2, <2>3, <2>4, AtHand, GoesOn
  <1>3. CASE Throw(i, h) /\ UNCHANGED granted
    BY <1>1, <1>3, AtHand, Thrown
  <1>4. QED
    BY <1>2, <1>3 DEF ApprovalAnswered

\* The driver answers an input: it has performed or dropped it, or the handle is shut.
LEMMA DriverAnsweredKeeps ==
  ASSUME SessionStrong, NEW i \in Ops, DriverAnswered(i)
  PROVE  SessionStrong'
  <1>1. op[i].pc = "acting" /\ UNCHANGED <<page, drv, acted, granted, closeAt>>
    BY DEF DriverAnswered
  <1>2. CASE /\ \A r \in drv : r.id # i
             /\ op' = [op EXCEPT ![i].pc = "evidence"] /\ UNCHANGED <<ctl, slot, h>>
    <2> DEFINE o == [op[i] EXCEPT !.pc = "evidence"]
    <2>1. op' = [op EXCEPT ![i] = o] /\ UNCHANGED <<ctl, slot, h>>
      BY <1>2, AtHand
    <2>2. /\ o \in Operation /\ o.kind = op[i].kind /\ o.promise = op[i].promise
          /\ o.pc = "evidence" /\ o.commit = op[i].commit /\ o.aborted = op[i].aborted
          /\ o.high = op[i].high
      BY AtHand DEF Operation, AfterCommit
    <2> HIDE DEF o
    <2>3. Coherent(o) /\ Approved(o, i \in granted)
      BY <1>1, <2>2, AtHand
         DEF Coherent, Approved, ObservePcs, BeforeCommit, AfterCommit
    <2>4. QED
      BY <1>1, <1>2, <2>1, <2>2, <2>3, AtHand, GoesOn
  <1>3. CASE Throw(i, Poisoned(h))
    BY <1>1, <1>3, AtHand, PoisonedHandle, Thrown
  <1>4. QED
    BY <1>2, <1>3 DEF DriverAnswered

\* The evidence of an input is read.
LEMMA EvidenceAnsweredKeeps ==
  ASSUME SessionStrong, NEW i \in Ops, EvidenceAnswered(i)
  PROVE  SessionStrong'
  <1>1. op[i].pc = "evidence" /\ UNCHANGED <<page, drv, acted, granted, closeAt>>
    BY DEF EvidenceAnswered
  <1>2. CASE /\ SignalLive(i)
             /\ op' = [op EXCEPT ![i].pc = "committed"] /\ h' = Released(h, i)
             /\ UNCHANGED <<ctl, slot>>
    <2> DEFINE o == [op[i] EXCEPT !.pc = "committed"]
    <2>1. op' = [op EXCEPT ![i] = o] /\ UNCHANGED <<ctl, slot>>
      BY <1>2, AtHand
    <2>2. /\ o \in Operation /\ o.kind = op[i].kind /\ o.promise = op[i].promise
          /\ o.pc = "committed" /\ o.commit = op[i].commit /\ o.aborted = op[i].aborted
          /\ o.high = op[i].high
      BY AtHand DEF Operation, AfterCommit
    <2> HIDE DEF o
    <2>3. /\ h' \in Handle /\ h'.latest = h.latest /\ h'.doc = h.doc /\ h'.shutdown = h.shutdown
          /\ h'.released = h.released
      BY <1>2, AtHand, ReleasedHandle
    <2>4. Coherent(o) /\ Approved(o, i \in granted)
      BY <1>1, <1>2, <2>2, AtHand
         DEF Coherent, Approved, ObservePcs, BeforeCommit, AfterCommit, SignalLive
    <2>5. QED
      BY <1>1, <2>1, <2>2, <2>3, <2>4, AtHand, GoesOn
  <1>3. CASE Throw(i, Poisoned(h))
    BY <1>1, <1>3, AtHand, PoisonedHandle, Thrown
  <1>4. QED
    BY <1>2, <1>3 DEF EvidenceAnswered

\* The commit is sent: its caller waits, the driver is at work, and the digest the input is
\* bound to is of a document; or it is refused.
LEMMA AuthorizedKeeps ==
  ASSUME SessionStrong, NEW i \in Ops, Authorized(i)
  PROVE  SessionStrong'
  <1>1. op[i].pc = "authorize" /\ UNCHANGED <<page, acted, granted, closeAt>>
    BY DEF Authorized
  <1>2. op[i].commit = "none" /\ op[i].kind = "execute" /\ op[i].seen # NoDoc
    BY <1>1, AtHand DEF Coherent, BeforeCommit
  <1>3. op[i].promise = "pending" /\ slot = i /\ ~op[i].aborted
    BY <1>1, AtHand DEF Coherent, BeforeCommit, Pending
  <1>4. ctl.phase \notin {"none", "auditing"}
    BY <1>3, AtHand DEF SessionStrong, SlotHeld
  <1>5. \A r \in drv : r.id # i
    BY <1>2 DEF SessionStrong, InputsFenced
  <1>6. CASE /\ CommitAccepted(i) /\ ctl' = [ctl EXCEPT !.commitStarted = TRUE]
             /\ h' = [h EXCEPT !.active = i, !.latest = NoDoc, !.nextStep = @ + 1,
                               !.prepared = {r \in @ : r.id # i}]
             /\ drv' = drv \union {[id |-> i, doc |-> h.doc]}
             /\ op' = [op EXCEPT ![i].pc = "acting", ![i].hgen = h.gen, ![i].commit = "sent"]
             /\ UNCHANGED slot
    <2> DEFINE o == [op[i] EXCEPT !.pc = "acting", !.hgen = h.gen, !.commit = "sent"]
    <2>1. op' = [op EXCEPT ![i] = o] /\ slot' = slot
      BY <1>6, AtHand
    <2>2. /\ o \in Operation /\ o.kind = op[i].kind /\ o.promise = op[i].promise
          /\ o.pc = "acting" /\ o.commit = "sent" /\ o.aborted = op[i].aborted
          /\ o.high = op[i].high
      BY AtHand, ZenonT(60) DEF Operation, Handle, AfterCommit
    <2> HIDE DEF o
    <2>3. ~h.shutdown /\ h.doc \in Docs
      BY <1>2, <1>6, AtHand DEF CommitAccepted, Admits, Handle, DocOrNone, NoDoc
    <2>4. PICK n \in Nat, ps \in SUBSET Prepared :
            h' = [h EXCEPT !.active = i, !.latest = NoDoc, !.nextStep = n, !.prepared = ps]
      <3>1. h.nextStep + 1 \in Nat /\ {r \in h.prepared : r.id # i} \in SUBSET Prepared
        BY AtHand DEF Handle
      <3>2. QED
        BY <1>6, <3>1
    <2>5. h' \in Handle /\ h'.latest = NoDoc /\ h'.shutdown = h.shutdown /\ h'.released = h.released
      BY <2>4, AtHand DEF Handle, DocOrNone
    <2>6. /\ ctl' \in Control /\ ctl'.phase = ctl.phase /\ ctl'.poisoned = ctl.poisoned
          /\ ctl'.latest = ctl.latest /\ ctl'.commitStarted
      BY <1>6, AtHand DEF Control
    <2>7. Fit(o, i \in granted, ctl')
      BY <1>1, <1>3, <2>2, <2>6, AtHand
         DEF Fit, Coherent, Approved, Outcome, ObservePcs, BeforeCommit, AfterCommit
    <2>8. ASSUME NEW j \in Ops \ {i} PROVE Fit(op[j], j \in granted, ctl')
      BY <2>6 DEF SessionStrong, OpsFit, Fit, Outcome
    <2>9. SlotHeld' /\ OpsFit'
      BY <1>1, <1>3, <1>4, <2>1, <2>2, <2>6, <2>7, <2>8, OneOperation
    <2>10. [id |-> i, doc |-> h.doc] \in [id : Ops, doc : Docs]
      BY <2>3
    <2>11. Shaped'
      <3>1. drv' \in SUBSET [id : Ops, doc : Docs]
        BY <1>6, <2>10 DEF SessionStrong, Shaped
      <3>2. op' \in [Ops -> Operation]
        BY <2>1, <2>2, AtHand
      <3>3. QED
        BY <1>1, <2>1, <2>5, <2>6, <3>1, <3>2 DEF SessionStrong, Shaped
    <2>12. op'[i] = o /\ \A j \in Ops \ {i} : op'[j] = op[j]
      BY <2>1, AtHand
    <2>13. InputsFenced'
      <3>1. ASSUME NEW r \in drv'
            PROVE  /\ op'[r.id].commit # "none"
                   /\ h'.shutdown \/ (op'[r.id].pc = "acting" /\ ~op'[r.id].aborted)
        <4>1. CASE r \in drv
          <5>1. r.id \in Ops \ {i}
            BY <1>5, <4>1 DEF SessionStrong, Shaped
          <5>2. QED
            BY <2>5, <2>12, <4>1, <5>1 DEF SessionStrong, InputsFenced
        <4>2. CASE r = [id |-> i, doc |-> h.doc]
          BY <1>3, <2>2, <2>12, <4>2
        <4>3. QED
          BY <1>6, <4>1, <4>2
      <3>2. \A k \in acted' : op'[k].commit # "none"
        BY <1>1, <2>2, <2>12 DEF SessionStrong, Shaped, InputsFenced
      <3>3. QED
        BY <3>1, <3>2 DEF InputsFenced
    <2>14. Stopped'
      BY <1>1, <2>3, <2>5, <2>6 DEF SessionStrong, Stopped
    <2>15. QED
      BY <2>9, <2>11, <2>13, <2>14 DEF SessionStrong
  <1>7. CASE /\ op' = [op EXCEPT ![i] = [Ended(Rejected(op[i])) EXCEPT !.commit = "sent"]]
             /\ slot' = 0 /\ ctl' = [AfterSettled(ctl, i) EXCEPT !.commitStarted = TRUE]
             /\ UNCHANGED <<h, drv>>
    <2> DEFINE r == Rejected(op[i])
               e == Ended(r)
               o == [e EXCEPT !.commit = "sent"]
               c == AfterSettled(ctl, i)
    <2>1. op' = [op EXCEPT ![i] = o] /\ ctl' = [c EXCEPT !.commitStarted = TRUE]
      BY <1>7, AtHand
    <2>2. r \in Operation /\ r.kind = "execute" /\ r.promise = "rejected" /\ r.high = op[i].high
      BY <1>2, AtHand, RejectedOperation
    <2>3. /\ e \in Operation /\ e.kind = "execute" /\ e.promise = "rejected" /\ e.pc = "gone"
          /\ e.high = r.high
      BY <2>2, EndedOperation
    <2>4. /\ o \in Operation /\ o.kind = "execute" /\ o.promise = "rejected" /\ o.pc = "gone"
          /\ o.high = r.high /\ o.commit = "sent"
      BY <2>3 DEF Operation
    <2>5. /\ c \in Control /\ c.phase = ctl.phase /\ c.latest = ctl.latest
          /\ c.poisoned = ctl.poisoned
      BY AtHand, SettledControl
    <2> HIDE DEF r, e, o, c
    <2>6. /\ ctl' \in Control /\ ctl'.phase = ctl.phase /\ ctl'.poisoned = ctl.poisoned
          /\ ctl'.latest = ctl.latest /\ ctl'.commitStarted
      BY <2>1, <2>5 DEF Control
    <2>7. Fit(o, i \in granted, ctl')
      BY <1>1, <1>2, <1>3, <2>2, <2>4, <2>6, AtHand
         DEF Fit, Coherent, Approved, Outcome, ObservePcs, BeforeCommit, AfterCommit
    <2>8. ASSUME NEW j \in Ops \ {i} PROVE Fit(op[j], j \in granted, ctl')
      BY <2>6 DEF SessionStrong, OpsFit, Fit, Outcome
    <2>9. SlotHeld' /\ OpsFit'
      BY <1>1, <1>3, <1>7, <2>1, <2>4, <2>6, <2>7, <2>8, OneOperation
    <2>10. InputsFenced'
      BY <1>1, <1>7, <2>1, <2>4, InputsRest
    <2>11. Shaped'
      BY <1>1, <1>7, <2>1, <2>4, <2>6 DEF SessionStrong, Shaped
    <2>12. Stopped'
      BY <1>7, <2>6 DEF SessionStrong, Stopped
    <2>13. QED
      BY <2>9, <2>10, <2>11, <2>12 DEF SessionStrong
  <1>8. CASE Throw(i, h) /\ UNCHANGED drv
    BY <1>1, <1>8, AtHand, Thrown
  <1>9. QED
    BY <1>6, <1>7, <1>8 DEF Authorized

\* The action event is written: the commit is known to be complete, and no other execute
\* waits for its handler.
LEMMA ActionAuditedKeeps ==
  ASSUME SessionStrong, NEW i \in Ops, ActionAudited(i)
  PROVE  SessionStrong'
  <1>1. op[i].pc = "committed" /\ NoHandlerDue /\ UNCHANGED <<page, drv, acted, granted, closeAt>>
    BY DEF ActionAudited
  <1>2. /\ op[i].promise = "pending" /\ slot = i /\ op[i].commit = "sent"
        /\ op[i].kind = "execute"
    BY <1>1, AtHand DEF Coherent, AfterCommit, Pending
  <1>3. CASE /\ op' = [op EXCEPT ![i] = [Ended(op[i]) EXCEPT !.promise = "done",
                                                             !.commit = "complete"]]
             /\ slot' = 0 /\ ctl' = [AfterSettled(ctl, i) EXCEPT !.commitStarted = FALSE]
             /\ UNCHANGED h
    <2> DEFINE e == Ended(op[i])
               o == [e EXCEPT !.promise = "done", !.commit = "complete"]
               c == AfterSettled(ctl, i)
    <2>1. op' = [op EXCEPT ![i] = o] /\ ctl' = [c EXCEPT !.commitStarted = FALSE]
      BY <1>3, AtHand
    <2>2. /\ e \in Operation /\ e.kind = "execute" /\ e.pc = "gone" /\ e.high = op[i].high
      BY <1>2, AtHand, EndedOperation
    <2>3. /\ o \in Operation /\ o.kind = "execute" /\ o.promise = "done" /\ o.pc = "gone"
          /\ o.high = op[i].high /\ o.commit = "complete"
      BY <2>2 DEF Operation
    <2>4. /\ c \in Control /\ c.phase = ctl.phase /\ c.latest = ctl.latest
          /\ c.poisoned = ctl.poisoned
      BY AtHand, SettledControl
    <2> HIDE DEF e, o, c
    <2>5. /\ ctl' \in Control /\ ctl'.phase = ctl.phase /\ ctl'.poisoned = ctl.poisoned
          /\ ctl'.latest = ctl.latest
      BY <2>1, <2>4 DEF Control
    <2>6. Fit(o, i \in granted, ctl')
      BY <1>2, <2>3, AtHand
         DEF Fit, Coherent, Approved, Outcome, ObservePcs, BeforeCommit, AfterCommit
    <2>7. ASSUME NEW j \in Ops \ {i} PROVE Fit(op[j], j \in granted, ctl')
      <3>1. Fit(op[j], j \in granted, ctl) /\ op[j].promise \notin {"pending", "rejected"}
        BY <1>1, <1>2 DEF SessionStrong, OpsFit, SlotHeld, Pending, NoHandlerDue
      <3>2. QED
        BY <2>5, <3>1 DEF Fit, Outcome
    <2>8. SlotHeld' /\ OpsFit'
      BY <1>1, <1>2, <1>3, <2>1, <2>3, <2>5, <2>6, <2>7, OneOperation
    <2>9. InputsFenced'
      BY <1>1, <1>3, <2>1, <2>3, InputsRest
    <2>10. Shaped'
      BY <1>1, <1>3, <2>1, <2>3, <2>5 DEF SessionStrong, Shaped
    <2>11. Stopped'
      BY <1>1, <1>3, <2>5 DEF SessionStrong, Stopped
    <2>12. QED
      BY <2>8, <2>9, <2>10, <2>11 DEF SessionStrong
  <1>4. CASE Throw(i, h)
    BY <1>1, <1>4, AtHand, Thrown
  <1>5. QED
    BY <1>3, <1>4 DEF ActionAudited

----------------------------------------------------------------------------
(* Aborts, closes and what happens outside.                                 *)

\* A timer or the caller's signal rejects the operation in the slot.
LEMMA AbortKeeps ==
  ASSUME SessionStrong, NEW i \in Ops, AbortOp(i)
  PROVE  SessionStrong'
  <1> DEFINE o == AbortedOp(i)
  <1>1. /\ slot = i /\ Pending(i) /\ slot' = 0 /\ op' = [op EXCEPT ![i] = o]
        /\ h' = AbortedHandle(i) /\ ctl' = AfterSettled(ctl, i)
        /\ UNCHANGED <<page, drv, acted, granted, closeAt>>
    BY DEF AbortOp
  <1>2. /\ o \in Operation /\ h' \in Handle /\ Fit(o, i \in granted, ctl)
        /\ o.promise # "pending" /\ o.commit = op[i].commit /\ h'.released = h.released
        /\ h'.latest = h.latest /\ h'.doc = h.doc
        /\ h.shutdown => h'.shutdown
        /\ op[i].pc = "acting" => h'.shutdown
    BY <1>1, AbortFits
  <1> HIDE DEF o
  <1>3. /\ ctl' \in Control /\ ctl'.phase = ctl.phase /\ ctl'.latest = ctl.latest
        /\ ctl'.commitStarted = ctl.commitStarted /\ ctl'.poisoned = ctl.poisoned
    BY <1>1, AtHand, SettledControl
  <1>4. Fit(o, i \in granted, ctl')
    BY <1>2, <1>3 DEF Fit, Outcome
  <1>5. ASSUME NEW j \in Ops \ {i} PROVE Fit(op[j], j \in granted, ctl')
    BY <1>3 DEF SessionStrong, OpsFit, Fit, Outcome
  <1>6. SlotHeld' /\ OpsFit'
    BY <1>1, <1>2, <1>3, <1>4, <1>5, OneOperation
  <1>7. InputsFenced'
    BY <1>1, <1>2, InputsRest
  <1>8. Shaped'
    BY <1>1, <1>2, <1>3 DEF SessionStrong, Shaped
  <1>9. Stopped'
    BY <1>1, <1>2, <1>3 DEF SessionStrong, Stopped
  <1>10. QED
    BY <1>6, <1>7, <1>8, <1>9 DEF SessionStrong

\* The controller and the handle after a close has begun with state c of the controller.
LEMMA CloseBegins ==
  ASSUME SessionStrong, NEW c \in Control, BeginClose(c), c.phase = "open"
  PROVE  /\ ctl' \in Control /\ ctl'.phase = "open" /\ ctl'.latest = c.latest
         /\ ctl'.commitStarted = c.commitStarted /\ ctl'.poisoned = c.poisoned
         /\ h' \in Handle /\ h'.released = h.released /\ h'.latest = h.latest
         /\ h'.doc = h.doc
         /\ h.shutdown => h'.shutdown
         /\ slot # 0 /\ op[slot].pc = "acting" => h'.shutdown
         /\ closeAt' \in [at : {"idle", "waiting", "provider"}, tries : 0..MaxCloses]
         /\ slot' = 0
  <1> DEFINE d == IF slot # 0 THEN AfterSettled(c, slot) ELSE c
  <1>1. slot \in Ops \union {0} /\ op \in [Ops -> Operation] /\ h \in Handle
    BY DEF SessionStrong, Shaped
  <1>2. /\ d \in Control /\ d.phase = "open" /\ d.latest = c.latest
        /\ d.commitStarted = c.commitStarted /\ d.poisoned = c.poisoned
    BY <1>1, SettledControl
  <1>3. ctl' = [d EXCEPT !.closing = TRUE, !.gen = @ + 1]
    BY DEF BeginClose
  <1> HIDE DEF d
  <1>4. PICK g \in Nat : ctl' = [d EXCEPT !.closing = TRUE, !.gen = g]
    <2>1. d.gen + 1 \in Nat
      BY <1>2 DEF Control
    <2>2. QED
      BY <1>3, <2>1
  <1>5. /\ ctl' \in Control /\ ctl'.phase = "open" /\ ctl'.latest = c.latest
        /\ ctl'.commitStarted = c.commitStarted /\ ctl'.poisoned = c.poisoned
    BY <1>2, <1>4 DEF Control
  <1>6. /\ h' \in Handle /\ h'.released = h.released /\ h'.latest = h.latest
        /\ h'.doc = h.doc
        /\ h.shutdown => h'.shutdown
        /\ slot # 0 /\ op[slot].pc = "acting" => h'.shutdown
    <2>1. CASE slot = 0
      BY <1>1, <2>1 DEF BeginClose
    <2>2. CASE slot # 0
      <3>1. slot \in Ops /\ Pending(slot) /\ h' = AbortedHandle(slot)
        BY <1>1, <2>2 DEF BeginClose, SessionStrong, SlotHeld
      <3>2. QED
        BY <3>1, AbortFits
    <2>3. QED
      BY <2>1, <2>2
  <1>7. closeAt' \in [at : {"idle", "waiting", "provider"}, tries : 0..MaxCloses] /\ slot' = 0
    BY SessionBounds DEF BeginClose, SessionStrong, Shaped
  <1>8. QED
    BY <1>5, <1>6, <1>7

\* The operations after a close has begun: the one in the slot is aborted, and one whose
\* rejection is handled is over.
LEMMA ClosingKeeps ==
  ASSUME SessionStrong, NEW c \in Control, BeginClose(c), c.phase = "open",
         c.latest = ctl.latest, c.commitStarted = ctl.commitStarted, ctl.poisoned => c.poisoned,
         UNCHANGED <<page, drv, acted, granted>>, op' \in [Ops -> Operation],
         ctl.phase # "closed",
         \A j \in Ops : \/ Pending(j) /\ op'[j] = AbortedOp(j)
                        \/ ~Pending(j) /\ op'[j] = op[j]
                        \/ /\ c.poisoned /\ op[j].promise = "rejected"
                           /\ op'[j] = [op[j] EXCEPT !.promise = "done"]
  PROVE  SessionStrong'
  <1>1. /\ ctl' \in Control /\ ctl'.phase = "open" /\ ctl'.latest = c.latest
        /\ ctl'.commitStarted = c.commitStarted /\ ctl'.poisoned = c.poisoned
        /\ h' \in Handle /\ h'.released = h.released /\ h'.latest = h.latest
        /\ h'.doc = h.doc
        /\ h.shutdown => h'.shutdown
        /\ slot # 0 /\ op[slot].pc = "acting" => h'.shutdown
        /\ closeAt' \in [at : {"idle", "waiting", "provider"}, tries : 0..MaxCloses]
        /\ slot' = 0
    BY CloseBegins
  <1>2. Shaped'
    BY <1>1 DEF SessionStrong, Shaped
  <1>3. ASSUME NEW j \in Ops
        PROVE  /\ Fit(op'[j], j \in granted, ctl') /\ op'[j].promise # "pending"
               /\ op[j].commit # "none" => op'[j].commit # "none"
               /\ h.shutdown \/ (op[j].pc = "acting" /\ ~op[j].aborted)
                     => h'.shutdown \/ (op'[j].pc = "acting" /\ ~op'[j].aborted)
    <2>1. op[j] \in Operation /\ Fit(op[j], j \in granted, ctl) /\ (Pending(j) <=> slot = j)
      BY DEF SessionStrong, Shaped, OpsFit, SlotHeld
    <2>2. CASE Pending(j) /\ op'[j] = AbortedOp(j)
      <3>1. /\ Fit(op'[j], j \in granted, ctl) /\ op'[j].promise # "pending"
            /\ op'[j].commit = op[j].commit
        BY <2>2, AbortFits
      <3>2. Fit(op'[j], j \in granted, ctl')
        BY <1>1, <3>1 DEF Fit, Outcome
      <3>3. slot # 0 /\ slot = j
        BY <2>1, <2>2 DEF Ops
      <3>4. QED
        BY <1>1, <3>1, <3>2, <3>3
    <2>3. CASE ~Pending(j) /\ op'[j] = op[j]
      BY <1>1, <2>1, <2>3 DEF Fit, Outcome, Pending
    <2>4. CASE /\ c.poisoned /\ op[j].promise = "rejected"
               /\ op'[j] = [op[j] EXCEPT !.promise = "done"]
      <3> DEFINE o == [op[j] EXCEPT !.promise = "done"]
      <3>1. /\ o.kind = op[j].kind /\ o.promise = "done" /\ o.pc = op[j].pc
            /\ o.aborted = op[j].aborted /\ o.seen = op[j].seen /\ o.high = op[j].high
            /\ o.commit = op[j].commit
        BY <2>1 DEF Operation
      <3>2. op'[j] = o
        BY <2>4
      <3> HIDE DEF o
      <3>3. Fit(o, j \in granted, ctl')
        BY <1>1, <2>1, <2>4, <3>1 DEF Fit, Coherent, Approved, Outcome
      <3>4. QED
        BY <1>1, <3>1, <3>2, <3>3
    <2>5. QED
      BY <2>2, <2>3, <2>4
  <1>4. SlotHeld' /\ OpsFit'
    BY <1>1, <1>3 DEF SlotHeld, OpsFit, Pending, Ops
  <1>5. InputsFenced'
    BY <1>3 DEF SessionStrong, Shaped, InputsFenced
  <1>6. Stopped'
    BY <1>1 DEF SessionStrong, Stopped
  <1>7. QED
    BY <1>2, <1>4, <1>5, <1>6 DEF SessionStrong

\* close aborts the operation in the slot.
LEMMA CloseSessionKeeps ==
  ASSUME SessionStrong, CloseSession
  PROVE  SessionStrong'
  <1>1. /\ ctl.phase = "open" /\ BeginClose(ctl) /\ UNCHANGED <<page, drv, acted, granted>>
        /\ op' = IF slot # 0 THEN [op EXCEPT ![slot] = AbortedOp(slot)] ELSE op
    BY DEF CloseSession
  <1>2. /\ op \in [Ops -> Operation] /\ slot \in Ops \union {0} /\ ctl \in Control
        /\ \A j \in Ops : Pending(j) <=> slot = j
        /\ 0 \notin Ops
    BY DEF SessionStrong, Shaped, SlotHeld, Ops
  <1>3. \A j \in Ops : Pending(j) => AbortedOp(j) \in Operation
    BY AbortFits
  <1>4. op' \in [Ops -> Operation]
    BY <1>1, <1>2, <1>3
  <1>5. \A j \in Ops : \/ Pending(j) /\ op'[j] = AbortedOp(j)
                       \/ ~Pending(j) /\ op'[j] = op[j]
    BY <1>1, <1>2
  <1>6. QED
    BY <1>1, <1>2, <1>4, <1>5, ClosingKeeps

\* The event of the session's creation is written, or its failure poisons and closes it.
LEMMA SessionAuditedKeeps ==
  ASSUME SessionStrong, SessionAudited
  PROVE  SessionStrong'
  <1>1. /\ ctl.phase = "auditing" /\ UNCHANGED <<op, page, drv, acted, granted>>
        /\ ctl \in Control /\ slot = 0 /\ op \in [Ops -> Operation]
        /\ \A j \in Ops : ~Pending(j)
    BY DEF SessionAudited, SessionStrong, Shaped, SlotHeld, Ops
  <1>2. CASE ctl' = [ctl EXCEPT !.phase = "open"] /\ UNCHANGED <<slot, h, closeAt>>
    <2>1. /\ ctl' \in Control /\ ctl'.phase = "open" /\ ctl'.latest = ctl.latest
          /\ ctl'.commitStarted = ctl.commitStarted /\ ctl'.poisoned = ctl.poisoned
      BY <1>1, <1>2 DEF Control
    <2>2. QED
      BY <1>1, <1>2, <2>1
         DEF SessionStrong, Shaped, SlotHeld, OpsFit, Fit, Outcome, InputsFenced, Stopped, Pending
  <1>3. CASE BeginClose([ctl EXCEPT !.phase = "open", !.poisoned = TRUE])
    <2> DEFINE c == [ctl EXCEPT !.phase = "open", !.poisoned = TRUE]
    <2>1. /\ c \in Control /\ c.phase = "open" /\ c.latest = ctl.latest
          /\ c.commitStarted = ctl.commitStarted /\ c.poisoned
      BY <1>1 DEF Control
    <2>2. BeginClose(c)
      BY <1>3
    <2> HIDE DEF c
    <2>3. QED
      BY <1>1, <2>1, <2>2, ClosingKeeps
  <1>4. QED
    BY <1>2, <1>3 DEF SessionAudited

\* The rejection handler of execute: after a commit was sent the session is poisoned.
LEMMA HandlerKeeps ==
  ASSUME SessionStrong, NEW i \in Ops, HandleRejection(i)
  PROVE  SessionStrong'
  <1>1. op[i].promise = "rejected" /\ UNCHANGED <<page, drv, acted, granted>>
    BY DEF HandleRejection
  <1>2. /\ op \in [Ops -> Operation] /\ slot \in Ops \union {0} /\ ctl \in Control
        /\ \A j \in Ops : Pending(j) <=> slot = j
        /\ ~Pending(i)
    BY <1>1 DEF SessionStrong, Shaped, SlotHeld, Pending
  <1> DEFINE o == [op[i] EXCEPT !.promise = "done"]
  <1>3. /\ o \in Operation /\ o.kind = op[i].kind /\ o.promise = "done" /\ o.pc = op[i].pc
        /\ o.aborted = op[i].aborted /\ o.seen = op[i].seen /\ o.high = op[i].high
        /\ o.commit = op[i].commit
    BY <1>2 DEF Operation
  <1>4. CASE ctl.commitStarted /\ ctl.phase = "open" /\ closeAt.at = "idle"
    <2> DEFINE c == [ctl EXCEPT !.poisoned = TRUE]
    <2>1. /\ c \in Control /\ c.phase = "open" /\ c.latest = ctl.latest
          /\ c.commitStarted = ctl.commitStarted /\ c.poisoned
      BY <1>2, <1>4 DEF Control
    <2>2. /\ BeginClose(c)
          /\ op' = [j \in Ops |-> IF j = i THEN o ELSE IF j = slot THEN AbortedOp(j) ELSE op[j]]
      BY <1>4 DEF HandleRejection
    <2> HIDE DEF c
    <2>3. \A j \in Ops : Pending(j) => AbortedOp(j) \in Operation
      BY AbortFits
    <2>4. op' \in [Ops -> Operation]
      BY <1>2, <1>3, <2>2, <2>3
    <2>5. \A j \in Ops : \/ Pending(j) /\ op'[j] = AbortedOp(j)
                         \/ ~Pending(j) /\ op'[j] = op[j]
                         \/ /\ c.poisoned /\ op[j].promise = "rejected"
                            /\ op'[j] = [op[j] EXCEPT !.promise = "done"]
      BY <1>1, <1>2, <2>1, <2>2
    <2>6. QED
      BY <1>1, <1>4, <2>1, <2>2, <2>4, <2>5, ClosingKeeps
  <1>5. CASE ~(ctl.commitStarted /\ ctl.phase = "open" /\ closeAt.at = "idle")
    <2>1. /\ op' = [op EXCEPT ![i] = o] /\ UNCHANGED <<slot, h, closeAt>>
          /\ \/ ctl.commitStarted /\ ctl' = [ctl EXCEPT !.poisoned = TRUE]
             \/ ~ctl.commitStarted /\ ctl' = ctl
      BY <1>2, <1>5 DEF HandleRejection
    <2> HIDE DEF o
    <2>2. /\ ctl' \in Control /\ ctl'.phase = ctl.phase /\ ctl'.latest = ctl.latest
          /\ ctl'.commitStarted = ctl.commitStarted
          /\ ctl.poisoned \/ ctl.commitStarted => ctl'.poisoned
      BY <1>2, <2>1 DEF Control
    <2>3. Fit(o, i \in granted, ctl')
      BY <1>1, <1>3, <2>2, AtHand DEF Fit, Coherent, Approved, Outcome
    <2>4. ASSUME NEW j \in Ops \ {i} PROVE Fit(op[j], j \in granted, ctl')
      BY <2>2 DEF SessionStrong, OpsFit, Fit, Outcome
    <2>5. slot # i
      BY <1>2
    <2>6. SlotHeld' /\ OpsFit'
      BY <1>1, <1>3, <2>1, <2>2, <2>3, <2>4, <2>5, OneOperation
    <2>7. InputsFenced'
      BY <1>1, <1>3, <2>1, InputsRest
    <2>8. Shaped'
      BY <1>1, <1>3, <2>1, <2>2 DEF SessionStrong, Shaped
    <2>9. Stopped'
      BY <1>1, <2>1, <2>2 DEF SessionStrong, Stopped
    <2>10. QED
      BY <2>6, <2>7, <2>8, <2>9 DEF SessionStrong
  <1>6. QED
    BY <1>4, <1>5

\* Steps that leave the operations alone: creation, the stages of a close, the page and
\* the driver's own work.
LEMMA OutsideKeeps ==
  ASSUME SessionStrong,
         \/ CreateSession \/ PageChanges \/ CloseProvider \/ ReleaseResources
         \/ CloseConfirmed \/ CloseFailed \/ \E r \in drv : DriverPerforms(r)
  PROVE  SessionStrong'
  <1>1. /\ ctl \in Control /\ h \in Handle /\ op \in [Ops -> Operation] /\ page \in Docs
        /\ drv \in SUBSET [id : Ops, doc : Docs] /\ acted \in SUBSET Ops
        /\ closeAt \in [at : {"idle", "waiting", "provider"}, tries : 0..MaxCloses]
    BY DEF SessionStrong, Shaped
  <1>2. CASE CreateSession
    <2>1. /\ ctl' \in Control /\ ctl'.phase = "auditing" /\ ctl'.latest = ctl.latest
          /\ ctl'.commitStarted = ctl.commitStarted /\ ctl'.poisoned = ctl.poisoned
          /\ UNCHANGED <<slot, op, h, page, drv, acted, granted, closeAt>>
          /\ ctl.phase = "none"
      BY <1>1, <1>2 DEF CreateSession, Control
    <2>2. QED
      BY <2>1
         DEF SessionStrong, Shaped, SlotHeld, OpsFit, Fit, Outcome, InputsFenced, Stopped, Pending
  <1>3. CASE PageChanges
    <2>1. page' \in Docs /\ UNCHANGED <<ctl, slot, op, h, drv, acted, granted, closeAt>>
      BY <1>1, <1>3, SessionBounds DEF PageChanges, Docs
    <2>2. QED
      BY <2>1 DEF SessionStrong, Shaped, SlotHeld, OpsFit, InputsFenced, Stopped, Pending
  <1>4. CASE CloseProvider
    <2>1. PICK g \in Nat : h' = [h EXCEPT !.shutdown = TRUE, !.gen = g]
      <3>1. h.gen \in Nat /\ h.gen + 1 \in Nat
        BY <1>1 DEF Handle
      <3>2. QED
        BY <1>4, <3>1 DEF CloseProvider
    <2>2. /\ h' \in Handle /\ h'.shutdown /\ h'.released = h.released /\ h'.latest = h.latest
          /\ h'.doc = h.doc
      BY <1>1, <2>1 DEF Handle
    <2>3. /\ closeAt' \in [at : {"idle", "waiting", "provider"}, tries : 0..MaxCloses]
          /\ UNCHANGED <<ctl, slot, op, page, drv, acted, granted>>
      BY <1>1, <1>4 DEF CloseProvider
    <2>4. QED
      BY <2>2, <2>3 DEF SessionStrong, Shaped, SlotHeld, OpsFit, InputsFenced, Stopped, Pending
  <1>5. CASE ReleaseResources
    <2>1. /\ h' \in Handle /\ h'.shutdown = h.shutdown /\ h.shutdown /\ h'.latest = h.latest
          /\ h'.doc = h.doc /\ h'.released
          /\ drv' = {} /\ UNCHANGED <<ctl, slot, op, page, acted, granted, closeAt>>
      BY <1>1, <1>5 DEF ReleaseResources, Handle
    <2>2. QED
      BY <2>1 DEF SessionStrong, Shaped, SlotHeld, OpsFit, InputsFenced, Stopped, Pending
  <1>6. CASE CloseConfirmed
    <2>1. /\ h' \in Handle /\ h'.shutdown = h.shutdown /\ h'.latest = h.latest
          /\ h'.doc = h.doc /\ h'.released = h.released /\ h.released
      BY <1>1, <1>6 DEF CloseConfirmed, Handle
    <2>2. /\ ctl' \in Control /\ ctl'.phase = "closed" /\ ctl'.latest = ctl.latest
          /\ ctl'.commitStarted = ctl.commitStarted /\ ctl'.poisoned = ctl.poisoned
          /\ closeAt' \in [at : {"idle", "waiting", "provider"}, tries : 0..MaxCloses]
          /\ UNCHANGED <<slot, op, page, drv, acted, granted>>
      BY <1>1, <1>6 DEF CloseConfirmed, Control
    <2>3. QED
      BY <2>1, <2>2
         DEF SessionStrong, Shaped, SlotHeld, OpsFit, Fit, Outcome, InputsFenced, Stopped, Pending
  <1>7. CASE CloseFailed
    <2>1. /\ ctl' \in Control /\ ctl'.phase = ctl.phase /\ ctl'.latest = ctl.latest
          /\ ctl'.commitStarted = ctl.commitStarted /\ ctl'.poisoned
          /\ closeAt' \in [at : {"idle", "waiting", "provider"}, tries : 0..MaxCloses]
          /\ UNCHANGED <<slot, op, h, page, drv, acted, granted>>
      BY <1>1, <1>7 DEF CloseFailed, Control
    <2>2. QED
      BY <2>1
         DEF SessionStrong, Shaped, SlotHeld, OpsFit, Fit, Outcome, InputsFenced, Stopped, Pending
  <1>8. CASE \E r \in drv : DriverPerforms(r)
    <2>1. PICK r \in drv : DriverPerforms(r)
      BY <1>8
    <2>2. /\ drv' \subseteq drv /\ r.id \in Ops /\ acted' \in {acted, acted \union {r.id}}
          /\ UNCHANGED <<ctl, slot, op, h, page, granted, closeAt>>
      BY <1>1, <2>1 DEF DriverPerforms
    <2>3. op[r.id].commit # "none"
      BY DEF SessionStrong, InputsFenced
    <2>4. QED
      BY <1>1, <2>2, <2>3
         DEF SessionStrong, Shaped, SlotHeld, OpsFit, InputsFenced, Stopped, Pending
  <1>9. QED
    BY <1>2, <1>3, <1>4, <1>5, <1>6, <1>7, <1>8

----------------------------------------------------------------------------
(* The theorems.                                                            *)

\* Nothing has happened at the start.
LEMMA SessionStarts == SessionInit => SessionStrong
  <1> SUFFICES ASSUME SessionInit PROVE SessionStrong
    OBVIOUS
  <1>1. NoOp \in Operation
    BY DEF NoOp, Operation, DocOrNone
  <1>2. Shaped
    BY <1>1, SessionBounds DEF SessionInit, Shaped, Control, Handle, Docs, DocOrNone
  <1>3. \A i \in Ops : op[i] = NoOp
    BY DEF SessionInit
  <1>4. SlotHeld
    BY <1>3 DEF SessionInit, SlotHeld, Pending, NoOp, Ops
  <1>5. OpsFit
    BY <1>3
    DEF OpsFit, Fit, Coherent, Approved, Outcome, NoOp, ObservePcs, BeforeCommit, AfterCommit
  <1>6. InputsFenced /\ Stopped
    BY DEF SessionInit, InputsFenced, Stopped
  <1>7. QED
    BY <1>2, <1>4, <1>5, <1>6 DEF SessionStrong

\* Every step of controller, adapter, driver and callers keeps the invariant.
LEMMA SessionSteps == SessionStrong /\ [SessionNext]_sessionVars => SessionStrong'
  <1> SUFFICES ASSUME SessionStrong, [SessionNext]_sessionVars PROVE SessionStrong'
    OBVIOUS
  <1>1. CASE UNCHANGED sessionVars
    BY <1>1 DEF sessionVars, SessionStrong, Shaped, SlotHeld, OpsFit, InputsFenced, Stopped, Pending
  <1>2. ASSUME NEW i \in Ops, Answers(i) PROVE SessionStrong'
    BY <1>2, AdapterObserveKeeps, DriverObservedKeeps, ObservationHashedKeeps,
       TakeObservationKeeps, ObservationAuditedKeeps, AdapterPrepareKeeps, ActionHashedKeeps,
       CollectChecksKeeps, ApprovalAnsweredKeeps, AuthorizedKeeps, DriverAnsweredKeeps,
       EvidenceAnsweredKeeps, ActionAuditedKeeps
    DEF Answers
  <1>3. ASSUME NEW i \in Ops, \E high \in BOOLEAN : Execute(i, high) PROVE SessionStrong'
    BY <1>3, ExecuteKeeps
  <1>4. ASSUME NEW i \in Ops, Observe(i) \/ AbortOp(i) \/ HandleRejection(i) PROVE SessionStrong'
    BY <1>4, ObserveKeeps, AbortKeeps, HandlerKeeps
  <1>5. CASE CloseSession \/ Reap \/ SessionAudited
    BY <1>5, CloseSessionKeeps, SessionAuditedKeeps DEF Reap
  <1>6. QED
    BY <1>1, <1>2, <1>3, <1>4, <1>5, OutsideKeeps DEF SessionNext

\* Whatever answers late, is aborted, fails or is closed, the invariant holds.
THEOREM SessionInvariance == SessionSafetySpec => []SessionStrong
  BY SessionStarts, SessionSteps, PTL DEF SessionSafetySpec

\* Input had its approvals, an abandoned input is fenced off, an unknown outcome has
\* poisoned the session and a closed session has stopped (execute, poisonHandle, close).
THEOREM SessionsSafe == SessionSafetySpec => []SessionInv
  <1>1. SessionStrong => SessionInv
    <2> SUFFICES ASSUME SessionStrong PROVE SessionInv
      OBVIOUS
    <2>1. Shaped /\ \A i \in Ops : op[i] \in Operation /\ Fit(op[i], i \in granted, ctl)
      BY DEF SessionStrong, Shaped, OpsFit
    <2>2. SessionTypeOK
      <3>1. ctl \in [phase : {"none", "auditing", "open", "closed"}, closing : BOOLEAN,
                     poisoned : BOOLEAN, gen : Nat, nextStep : Nat,
                     used : SUBSET (1..MaxSteps), latest : Docs \union {NoDoc},
                     commitStarted : BOOLEAN]
        BY <2>1 DEF Shaped, Control, DocOrNone
      <3>2. \A i \in Ops : op[i].promise \in {"none", "pending", "rejected", "done"}
        BY <2>1 DEF Operation
      <3>3. h.active \in Ops \union {0} /\ h.latest \in Docs \union {NoDoc}
        BY <2>1 DEF Shaped, Handle, DocOrNone
      <3>4. slot # 0 => Pending(slot)
        BY DEF SessionStrong, Shaped, SlotHeld
      <3>5. QED
        BY <2>1, <3>1, <3>2, <3>3, <3>4 DEF SessionTypeOK, Shaped
    <2>3. ActedOnlyWithApproval
      BY <2>1 DEF ActedOnlyWithApproval, SessionStrong, Shaped, InputsFenced, Fit, Approved
    <2>4. AbandonedInputIsFenced
      <3> SUFFICES ASSUME NEW r \in drv, ~Pending(r.id) PROVE h.shutdown
        BY DEF AbandonedInputIsFenced
      <3>1. r.id \in Ops
        BY <2>1 DEF Shaped
      <3>2. QED
        BY <2>1, <3>1 DEF SessionStrong, InputsFenced, Fit, Coherent, AfterCommit, Pending
    <2>5. UnknownOutcomePoisons
      BY <2>1 DEF UnknownOutcomePoisons, Fit, Outcome
    <2>6. ClosedMeansStopped
      BY DEF ClosedMeansStopped, SessionStrong, Stopped
    <2>7. QED
      BY <2>2, <2>3, <2>4, <2>5, <2>6 DEF SessionInv
  <1>2. QED
    BY <1>1, SessionInvariance, PTL

\* The driver is given an input only by Authorized, and then its caller waits.
LEMMA SentWhileAwaited ==
  ASSUME SessionStrong, SessionNext
  PROVE  \A r \in drv' \ drv : Pending(r.id)
  <1>1. ASSUME NEW i \in Ops, Authorized(i) PROVE \A r \in drv' \ drv : Pending(r.id)
    <2>1. op[i].pc = "authorize" /\ drv' \in {drv, drv \union {[id |-> i, doc |-> h.doc]}}
      BY <1>1 DEF Authorized
    <2>2. Pending(i)
      BY <2>1, AtHand DEF Coherent, BeforeCommit, Pending
    <2>3. QED
      BY <2>1, <2>2
  <1>2. ASSUME NEW i \in Ops, Answers(i), ~Authorized(i) PROVE drv' = drv
    BY <1>2 DEF Answers, AdapterObserve, DriverObserved, ObservationHashed, TakeObservation,
       ObservationAudited, AdapterPrepare, ActionHashed, CollectChecks, ApprovalAnswered,
       DriverAnswered, EvidenceAnswered, ActionAudited
  <1>3. ASSUME NEW i \in Ops, \/ Observe(i) \/ AbortOp(i) \/ HandleRejection(i)
                              \/ \E high \in BOOLEAN : Execute(i, high)
        PROVE  drv' = drv
    BY <1>3 DEF Observe, AbortOp, HandleRejection, Execute
  <1>4. ASSUME \/ CreateSession \/ SessionAudited \/ PageChanges \/ CloseSession \/ Reap
               \/ CloseProvider \/ ReleaseResources \/ CloseConfirmed \/ CloseFailed
               \/ \E r \in drv : DriverPerforms(r)
        PROVE  drv' \subseteq drv
    BY <1>4 DEF CreateSession, SessionAudited, PageChanges, CloseSession, Reap, CloseProvider,
       ReleaseResources, CloseConfirmed, CloseFailed, DriverPerforms
  <1>5. QED
    BY <1>1, <1>2, <1>3, <1>4 DEF SessionNext

\* The commit of an operation is sent only while its caller waits: a late prepare, a late
\* approval or a late audit answer cannot start it (assertCurrent, before commit).
THEOREM NoCommitComesLate == SessionSafetySpec => NoLateCommit
  <1>1. SessionStrong /\ [SessionNext]_sessionVars
          => [\A r \in drv' \ drv : Pending(r.id)]_sessionVars
    BY SentWhileAwaited
  <1>2. QED
    BY <1>1, SessionInvariance, PTL DEF SessionSafetySpec, NoLateCommit

----------------------------------------------------------------------------
(***************************************************************************)
(* Destinations: the byte tests of isRejectedIpv4 and isRejectedIpv6 are   *)
(* the blocks of the special-purpose registries, for every valid address,  *)
(* and an accepted output respects the policy it was accepted under.       *)
(***************************************************************************)
Byte == 0..255

(* Leading bits of a byte.                                                  *)
LEMMA LeadingBits ==
  ASSUME NEW b \in Byte
  PROVE  /\ Leading(b, 0) = 0 /\ Leading(b, 8) = b
         /\ Leading(b, 1) = b \div 128 /\ Leading(b, 2) = b \div 64 /\ Leading(b, 4) = b \div 16
         /\ Leading(b, 7) = b \div 2
BY DEF Leading, Byte

(* Blocks that end between two bytes, and blocks that end within one.       *)
LEMMA BlocksOfFour ==
  ASSUME NEW ip, ip[1] \in Byte, ip[2] \in Byte, ip[3] \in Byte, ip[4] \in Byte, NEW block,
  Len(block) = 4,
         block[1] \in Byte, block[2] \in Byte, block[3] \in Byte, block[4] \in Byte
  PROVE  /\ InBlock(ip, block, 8) <=> ip[1] = block[1]
         /\ InBlock(ip, block, 16) <=> ip[1] = block[1] /\ ip[2] = block[2]
         /\ InBlock(ip, block, 24) <=> ip[1] = block[1] /\ ip[2] = block[2] /\ ip[3] = block[3]
         /\ InBlock(ip, block, 4) <=> ip[1] \div 16 = block[1] \div 16
         /\ InBlock(ip, block, 10) <=> ip[1] = block[1] /\ ip[2] \div 64 = block[2] \div 64
         /\ InBlock(ip, block, 12) <=> ip[1] = block[1] /\ ip[2] \div 16 = block[2] \div 16
         /\ InBlock(ip, block, 15) <=> ip[1] = block[1] /\ ip[2] \div 2 = block[2] \div 2
<1>1. \A bits : InBlock(ip, block, bits) <=>
         /\ Leading(ip[1], BitsOf(1, bits)) = Leading(block[1], BitsOf(1, bits))
         /\ Leading(ip[2], BitsOf(2, bits)) = Leading(block[2], BitsOf(2, bits))
         /\ Leading(ip[3], BitsOf(3, bits)) = Leading(block[3], BitsOf(3, bits))
         /\ Leading(ip[4], BitsOf(4, bits)) = Leading(block[4], BitsOf(4, bits))
  <2>1. 1..Len(block) = {1, 2, 3, 4}
    OBVIOUS
  <2> QED
    BY <2>1 DEF InBlock
<1>2. /\ BitsOf(1, 4) = 4 /\ BitsOf(2, 4) = 0 /\ BitsOf(3, 4) = 0 /\ BitsOf(4, 4) = 0
      /\ BitsOf(1, 8) = 8 /\ BitsOf(2, 8) = 0 /\ BitsOf(3, 8) = 0 /\ BitsOf(4, 8) = 0
      /\ BitsOf(1, 10) = 8 /\ BitsOf(2, 10) = 2 /\ BitsOf(3, 10) = 0 /\ BitsOf(4, 10) = 0
      /\ BitsOf(1, 12) = 8 /\ BitsOf(2, 12) = 4 /\ BitsOf(3, 12) = 0 /\ BitsOf(4, 12) = 0
      /\ BitsOf(1, 15) = 8 /\ BitsOf(2, 15) = 7 /\ BitsOf(3, 15) = 0 /\ BitsOf(4, 15) = 0
      /\ BitsOf(1, 16) = 8 /\ BitsOf(2, 16) = 8 /\ BitsOf(3, 16) = 0 /\ BitsOf(4, 16) = 0
      /\ BitsOf(1, 24) = 8 /\ BitsOf(2, 24) = 8 /\ BitsOf(3, 24) = 8 /\ BitsOf(4, 24) = 0
  BY DEF BitsOf
<1>3. \A x \in Byte : /\ Leading(x, 0) = 0 /\ Leading(x, 8) = x /\ Leading(x, 2) = x \div 64
                      /\ Leading(x, 4) = x \div 16 /\ Leading(x, 7) = x \div 2
  BY LeadingBits
<1> QED
  BY <1>1, <1>2, <1>3

(* isRejectedIpv4 rejects exactly the blocks of the registry.               *)
LEMMA FourBytesAgree ==
  ASSUME NEW ip, ip[1] \in Byte, ip[2] \in Byte, ip[3] \in Byte, ip[4] \in Byte
  PROVE  RejectedV4(ip) <=> \E s \in SpecialV4 : InBlock(ip, s[1], s[2])
<1> DEFINE In(s) == InBlock(ip, s[1], s[2])
<1>1. PICK a, b, c : a = ip[1] /\ b = ip[2] /\ c = ip[3]
  OBVIOUS
<1>2. a \in Byte /\ b \in Byte /\ c \in Byte
  BY <1>1
<1>3. ASSUME NEW x, Len(x) = 4, x[1] \in Byte, x[2] \in Byte, x[3] \in Byte, x[4] = 0
      PROVE  /\ InBlock(ip, x, 8) <=> a = x[1]
             /\ InBlock(ip, x, 16) <=> a = x[1] /\ b = x[2]
             /\ InBlock(ip, x, 24) <=> a = x[1] /\ b = x[2] /\ c = x[3]
             /\ InBlock(ip, x, 4) <=> a \div 16 = x[1] \div 16
             /\ InBlock(ip, x, 10) <=> a = x[1] /\ b \div 64 = x[2] \div 64
             /\ InBlock(ip, x, 12) <=> a = x[1] /\ b \div 16 = x[2] \div 16
             /\ InBlock(ip, x, 15) <=> a = x[1] /\ b \div 2 = x[2] \div 2
  <2>1. x[4] \in Byte
    BY <1>3 DEF Byte
  <2> QED
    BY <1>1, <1>3, <2>1, BlocksOfFour
<1>4. \A s : s = <<<<0, 0, 0, 0>>, 8>> => (In(s) <=> (a = 0))
  <2> SUFFICES ASSUME NEW x, x = <<0, 0, 0, 0>> PROVE InBlock(ip, x, 8) <=> (a = 0)
    OBVIOUS
  <2>1. Len(x) = 4 /\ x[1] = 0 /\ x[2] = 0 /\ x[3] = 0 /\ x[4] = 0
    OBVIOUS
  <2> QED
    BY <1>2, <1>3, <2>1 DEF Byte
<1>5. \A s : s = <<<<10, 0, 0, 0>>, 8>> => (In(s) <=> (a = 10))
  <2> SUFFICES ASSUME NEW x, x = <<10, 0, 0, 0>> PROVE InBlock(ip, x, 8) <=> (a = 10)
    OBVIOUS
  <2>1. Len(x) = 4 /\ x[1] = 10 /\ x[2] = 0 /\ x[3] = 0 /\ x[4] = 0
    OBVIOUS
  <2> QED
    BY <1>2, <1>3, <2>1 DEF Byte
<1>6. \A s : s = <<<<100, 64, 0, 0>>, 10>> => (In(s) <=> (a = 100 /\ b >= 64 /\ b <= 127))
  <2> SUFFICES ASSUME NEW x, x = <<100, 64, 0, 0>>
        PROVE InBlock(ip, x, 10) <=> (a = 100 /\ b >= 64 /\ b <= 127)
    OBVIOUS
  <2>1. Len(x) = 4 /\ x[1] = 100 /\ x[2] = 64 /\ x[3] = 0 /\ x[4] = 0
    OBVIOUS
  <2> QED
    BY <1>2, <1>3, <2>1 DEF Byte
<1>7. \A s : s = <<<<127, 0, 0, 0>>, 8>> => (In(s) <=> (a = 127))
  <2> SUFFICES ASSUME NEW x, x = <<127, 0, 0, 0>> PROVE InBlock(ip, x, 8) <=> (a = 127)
    OBVIOUS
  <2>1. Len(x) = 4 /\ x[1] = 127 /\ x[2] = 0 /\ x[3] = 0 /\ x[4] = 0
    OBVIOUS
  <2> QED
    BY <1>2, <1>3, <2>1 DEF Byte
<1>8. \A s : s = <<<<169, 254, 0, 0>>, 16>> => (In(s) <=> (a = 169 /\ b = 254))
  <2> SUFFICES ASSUME NEW x, x = <<169, 254, 0, 0>>
        PROVE InBlock(ip, x, 16) <=> (a = 169 /\ b = 254)
    OBVIOUS
  <2>1. Len(x) = 4 /\ x[1] = 169 /\ x[2] = 254 /\ x[3] = 0 /\ x[4] = 0
    OBVIOUS
  <2> QED
    BY <1>2, <1>3, <2>1 DEF Byte
<1>9. \A s : s = <<<<172, 16, 0, 0>>, 12>> => (In(s) <=> (a = 172 /\ b >= 16 /\ b <= 31))
  <2> SUFFICES ASSUME NEW x, x = <<172, 16, 0, 0>>
        PROVE InBlock(ip, x, 12) <=> (a = 172 /\ b >= 16 /\ b <= 31)
    OBVIOUS
  <2>1. Len(x) = 4 /\ x[1] = 172 /\ x[2] = 16 /\ x[3] = 0 /\ x[4] = 0
    OBVIOUS
  <2> QED
    BY <1>2, <1>3, <2>1 DEF Byte
<1>10. \A s : s = <<<<192, 0, 0, 0>>, 24>> => (In(s) <=> (a = 192 /\ b = 0 /\ c = 0))
  <2> SUFFICES ASSUME NEW x, x = <<192, 0, 0, 0>>
        PROVE InBlock(ip, x, 24) <=> (a = 192 /\ b = 0 /\ c = 0)
    OBVIOUS
  <2>1. Len(x) = 4 /\ x[1] = 192 /\ x[2] = 0 /\ x[3] = 0 /\ x[4] = 0
    OBVIOUS
  <2> QED
    BY <1>2, <1>3, <2>1 DEF Byte
<1>11. \A s : s = <<<<192, 0, 2, 0>>, 24>> => (In(s) <=> (a = 192 /\ b = 0 /\ c = 2))
  <2> SUFFICES ASSUME NEW x, x = <<192, 0, 2, 0>>
        PROVE InBlock(ip, x, 24) <=> (a = 192 /\ b = 0 /\ c = 2)
    OBVIOUS
  <2>1. Len(x) = 4 /\ x[1] = 192 /\ x[2] = 0 /\ x[3] = 2 /\ x[4] = 0
    OBVIOUS
  <2> QED
    BY <1>2, <1>3, <2>1 DEF Byte
<1>12. \A s : s = <<<<192, 88, 99, 0>>, 24>> => (In(s) <=> (a = 192 /\ b = 88 /\ c = 99))
  <2> SUFFICES ASSUME NEW x, x = <<192, 88, 99, 0>>
        PROVE InBlock(ip, x, 24) <=> (a = 192 /\ b = 88 /\ c = 99)
    OBVIOUS
  <2>1. Len(x) = 4 /\ x[1] = 192 /\ x[2] = 88 /\ x[3] = 99 /\ x[4] = 0
    OBVIOUS
  <2> QED
    BY <1>2, <1>3, <2>1 DEF Byte
<1>13. \A s : s = <<<<192, 168, 0, 0>>, 16>> => (In(s) <=> (a = 192 /\ b = 168))
  <2> SUFFICES ASSUME NEW x, x = <<192, 168, 0, 0>>
        PROVE InBlock(ip, x, 16) <=> (a = 192 /\ b = 168)
    OBVIOUS
  <2>1. Len(x) = 4 /\ x[1] = 192 /\ x[2] = 168 /\ x[3] = 0 /\ x[4] = 0
    OBVIOUS
  <2> QED
    BY <1>2, <1>3, <2>1 DEF Byte
<1>14. \A s : s = <<<<198, 18, 0, 0>>, 15>> => (In(s) <=> (a = 198 /\ b \in {18, 19}))
  <2> SUFFICES ASSUME NEW x, x = <<198, 18, 0, 0>>
        PROVE InBlock(ip, x, 15) <=> (a = 198 /\ b \in {18, 19})
    OBVIOUS
  <2>1. Len(x) = 4 /\ x[1] = 198 /\ x[2] = 18 /\ x[3] = 0 /\ x[4] = 0
    OBVIOUS
  <2> QED
    BY <1>2, <1>3, <2>1 DEF Byte
<1>15. \A s : s = <<<<198, 51, 100, 0>>, 24>> => (In(s) <=> (a = 198 /\ b = 51 /\ c = 100))
  <2> SUFFICES ASSUME NEW x, x = <<198, 51, 100, 0>>
        PROVE InBlock(ip, x, 24) <=> (a = 198 /\ b = 51 /\ c = 100)
    OBVIOUS
  <2>1. Len(x) = 4 /\ x[1] = 198 /\ x[2] = 51 /\ x[3] = 100 /\ x[4] = 0
    OBVIOUS
  <2> QED
    BY <1>2, <1>3, <2>1 DEF Byte
<1>16. \A s : s = <<<<203, 0, 113, 0>>, 24>> => (In(s) <=> (a = 203 /\ b = 0 /\ c = 113))
  <2> SUFFICES ASSUME NEW x, x = <<203, 0, 113, 0>>
        PROVE InBlock(ip, x, 24) <=> (a = 203 /\ b = 0 /\ c = 113)
    OBVIOUS
  <2>1. Len(x) = 4 /\ x[1] = 203 /\ x[2] = 0 /\ x[3] = 113 /\ x[4] = 0
    OBVIOUS
  <2> QED
    BY <1>2, <1>3, <2>1 DEF Byte
<1>17. \A s : s = <<<<224, 0, 0, 0>>, 4>> => (In(s) <=> (a >= 224 /\ a <= 239))
  <2> SUFFICES ASSUME NEW x, x = <<224, 0, 0, 0>> PROVE InBlock(ip, x, 4) <=> (a >= 224 /\ a <= 239)
    OBVIOUS
  <2>1. Len(x) = 4 /\ x[1] = 224 /\ x[2] = 0 /\ x[3] = 0 /\ x[4] = 0
    OBVIOUS
  <2> QED
    BY <1>2, <1>3, <2>1 DEF Byte
<1>18. \A s : s = <<<<240, 0, 0, 0>>, 4>> => (In(s) <=> (a >= 240))
  <2> SUFFICES ASSUME NEW x, x = <<240, 0, 0, 0>> PROVE InBlock(ip, x, 4) <=> (a >= 240)
    OBVIOUS
  <2>1. Len(x) = 4 /\ x[1] = 240 /\ x[2] = 0 /\ x[3] = 0 /\ x[4] = 0
    OBVIOUS
  <2> QED
    BY <1>2, <1>3, <2>1 DEF Byte
<1> HIDE DEF In
<1>19. \A s : s \in SpecialV4 <=>
          \/ s = <<<<0, 0, 0, 0>>, 8>>
          \/ s = <<<<10, 0, 0, 0>>, 8>>
          \/ s = <<<<100, 64, 0, 0>>, 10>>
          \/ s = <<<<127, 0, 0, 0>>, 8>>
          \/ s = <<<<169, 254, 0, 0>>, 16>>
          \/ s = <<<<172, 16, 0, 0>>, 12>>
          \/ s = <<<<192, 0, 0, 0>>, 24>>
          \/ s = <<<<192, 0, 2, 0>>, 24>>
          \/ s = <<<<192, 88, 99, 0>>, 24>>
          \/ s = <<<<192, 168, 0, 0>>, 16>>
          \/ s = <<<<198, 18, 0, 0>>, 15>>
          \/ s = <<<<198, 51, 100, 0>>, 24>>
          \/ s = <<<<203, 0, 113, 0>>, 24>>
          \/ s = <<<<224, 0, 0, 0>>, 4>>
          \/ s = <<<<240, 0, 0, 0>>, 4>>
  BY DEF SpecialV4
<1>20. ASSUME NEW s \in SpecialV4, In(s) PROVE
          \/ a = 0
          \/ a = 10
          \/ a = 100 /\ b >= 64 /\ b <= 127
          \/ a = 127
          \/ a = 169 /\ b = 254
          \/ a = 172 /\ b >= 16 /\ b <= 31
          \/ a = 192 /\ b = 0 /\ c = 0
          \/ a = 192 /\ b = 0 /\ c = 2
          \/ a = 192 /\ b = 88 /\ c = 99
          \/ a = 192 /\ b = 168
          \/ a = 198 /\ b \in {18, 19}
          \/ a = 198 /\ b = 51 /\ c = 100
          \/ a = 203 /\ b = 0 /\ c = 113
          \/ a >= 224 /\ a <= 239
          \/ a >= 240
  BY <1>4, <1>5, <1>6, <1>7, <1>8, <1>9, <1>10, <1>11, <1>12, <1>13, <1>14, <1>15, <1>16, <1>17,
      <1>18, <1>19, <1>20
<1>21. ASSUME a = 0 PROVE \E s \in SpecialV4 : In(s)
  <2>1. PICK s : s = <<<<0, 0, 0, 0>>, 8>>
    OBVIOUS
  <2> QED
    BY <1>4, <1>19, <1>21, <2>1
<1>22. ASSUME a = 10 PROVE \E s \in SpecialV4 : In(s)
  <2>1. PICK s : s = <<<<10, 0, 0, 0>>, 8>>
    OBVIOUS
  <2> QED
    BY <1>5, <1>19, <1>22, <2>1
<1>23. ASSUME a = 100 /\ b >= 64 /\ b <= 127 PROVE \E s \in SpecialV4 : In(s)
  <2>1. PICK s : s = <<<<100, 64, 0, 0>>, 10>>
    OBVIOUS
  <2> QED
    BY <1>6, <1>19, <1>23, <2>1
<1>24. ASSUME a = 127 PROVE \E s \in SpecialV4 : In(s)
  <2>1. PICK s : s = <<<<127, 0, 0, 0>>, 8>>
    OBVIOUS
  <2> QED
    BY <1>7, <1>19, <1>24, <2>1
<1>25. ASSUME a = 169 /\ b = 254 PROVE \E s \in SpecialV4 : In(s)
  <2>1. PICK s : s = <<<<169, 254, 0, 0>>, 16>>
    OBVIOUS
  <2> QED
    BY <1>8, <1>19, <1>25, <2>1
<1>26. ASSUME a = 172 /\ b >= 16 /\ b <= 31 PROVE \E s \in SpecialV4 : In(s)
  <2>1. PICK s : s = <<<<172, 16, 0, 0>>, 12>>
    OBVIOUS
  <2> QED
    BY <1>9, <1>19, <1>26, <2>1
<1>27. ASSUME a = 192 /\ b = 0 /\ c = 0 PROVE \E s \in SpecialV4 : In(s)
  <2>1. PICK s : s = <<<<192, 0, 0, 0>>, 24>>
    OBVIOUS
  <2> QED
    BY <1>10, <1>19, <1>27, <2>1
<1>28. ASSUME a = 192 /\ b = 0 /\ c = 2 PROVE \E s \in SpecialV4 : In(s)
  <2>1. PICK s : s = <<<<192, 0, 2, 0>>, 24>>
    OBVIOUS
  <2> QED
    BY <1>11, <1>19, <1>28, <2>1
<1>29. ASSUME a = 192 /\ b = 88 /\ c = 99 PROVE \E s \in SpecialV4 : In(s)
  <2>1. PICK s : s = <<<<192, 88, 99, 0>>, 24>>
    OBVIOUS
  <2> QED
    BY <1>12, <1>19, <1>29, <2>1
<1>30. ASSUME a = 192 /\ b = 168 PROVE \E s \in SpecialV4 : In(s)
  <2>1. PICK s : s = <<<<192, 168, 0, 0>>, 16>>
    OBVIOUS
  <2> QED
    BY <1>13, <1>19, <1>30, <2>1
<1>31. ASSUME a = 198 /\ b \in {18, 19} PROVE \E s \in SpecialV4 : In(s)
  <2>1. PICK s : s = <<<<198, 18, 0, 0>>, 15>>
    OBVIOUS
  <2> QED
    BY <1>14, <1>19, <1>31, <2>1
<1>32. ASSUME a = 198 /\ b = 51 /\ c = 100 PROVE \E s \in SpecialV4 : In(s)
  <2>1. PICK s : s = <<<<198, 51, 100, 0>>, 24>>
    OBVIOUS
  <2> QED
    BY <1>15, <1>19, <1>32, <2>1
<1>33. ASSUME a = 203 /\ b = 0 /\ c = 113 PROVE \E s \in SpecialV4 : In(s)
  <2>1. PICK s : s = <<<<203, 0, 113, 0>>, 24>>
    OBVIOUS
  <2> QED
    BY <1>16, <1>19, <1>33, <2>1
<1>34. ASSUME a >= 224 /\ a <= 239 PROVE \E s \in SpecialV4 : In(s)
  <2>1. PICK s : s = <<<<224, 0, 0, 0>>, 4>>
    OBVIOUS
  <2> QED
    BY <1>17, <1>19, <1>34, <2>1
<1>35. ASSUME a >= 240 PROVE \E s \in SpecialV4 : In(s)
  <2>1. PICK s : s = <<<<240, 0, 0, 0>>, 4>>
    OBVIOUS
  <2> QED
    BY <1>18, <1>19, <1>35, <2>1
<1>36. (\E s \in SpecialV4 : In(s)) <=>
          \/ a = 0
          \/ a = 10
          \/ a = 100 /\ b >= 64 /\ b <= 127
          \/ a = 127
          \/ a = 169 /\ b = 254
          \/ a = 172 /\ b >= 16 /\ b <= 31
          \/ a = 192 /\ b = 0 /\ c = 0
          \/ a = 192 /\ b = 0 /\ c = 2
          \/ a = 192 /\ b = 88 /\ c = 99
          \/ a = 192 /\ b = 168
          \/ a = 198 /\ b \in {18, 19}
          \/ a = 198 /\ b = 51 /\ c = 100
          \/ a = 203 /\ b = 0 /\ c = 113
          \/ a >= 224 /\ a <= 239
          \/ a >= 240
  BY <1>20, <1>21, <1>22, <1>23, <1>24, <1>25, <1>26, <1>27, <1>28, <1>29, <1>30, <1>31, <1>32,
      <1>33, <1>34, <1>35
<1>37. RejectedV4(ip) <=>
          \/ a \in {0, 10, 127} \/ a >= 224
          \/ a = 100 /\ b >= 64 /\ b <= 127
          \/ a = 169 /\ b = 254
          \/ a = 172 /\ b >= 16 /\ b <= 31
          \/ a = 192 /\ b = 0 /\ c \in {0, 2}
          \/ a = 192 /\ b = 88 /\ c = 99
          \/ a = 192 /\ b = 168
          \/ a = 198 /\ b \in {18, 19}
          \/ a = 198 /\ b = 51 /\ c = 100
          \/ a = 203 /\ b = 0 /\ c = 113
  BY <1>1 DEF RejectedV4
<1>38. RejectedV4(ip) <=> \E s \in SpecialV4 : In(s)
  BY <1>2, <1>36, <1>37 DEF Byte
<1> QED
  BY <1>38 DEF In

(* A word splits in two bytes.                                              *)
LEMMA WordOfTwoBytes == ASSUME NEW g \in Nat, g < 65536 PROVE g \div 256 < 256
BY SMT

(* Sequences: their elements, and two of them joined.                       *)
LEMMA JoinedSequences ==
  ASSUME NEW S, NEW s \in Seq(S), NEW t \in Seq(S)
  PROVE  s \o t \in Seq(S) /\ Len(s \o t) = Len(s) + Len(t) /\ \A k \in 1..Len(s) : s[k] \in S
OBVIOUS

(* The bytes of an address of version 6 are bytes.                          *)
LEMMA ExpandedBytes ==
  ASSUME NEW left, NEW right, NEW gap \in BOOLEAN, SixteenBits(left), SixteenBits(right),
         ExpandV6(left, right, gap) # <<>>
  PROVE  \A n \in 1..16 : ExpandV6(left, right, gap)[n] \in Byte
<1>1. PICK missing : missing = 8 - Len(left) - Len(right)
  OBVIOUS
<1>2. PICK zeros, groups : zeros = [k \in 1..missing |-> 0] /\ groups = left \o zeros \o right
  OBVIOUS
<1>3. /\ ~((gap /\ missing < 1) \/ (~gap /\ missing # 0))
      /\ ExpandV6(left, right, gap) =
            [n \in 1..16 |-> IF n % 2 = 1 THEN groups[(n + 1) \div 2] \div 256
             ELSE groups[n \div 2] % 256]
  BY <1>1, <1>2 DEF ExpandV6
<1>4. left \in Seq(Word) /\ right \in Seq(Word)
  BY DEF SixteenBits
<1>5. Len(left) \in Nat /\ Len(right) \in Nat
  BY <1>4
<1>6. missing \in Nat
  BY <1>1, <1>3, <1>5
<1>7. 0 \in Word /\ \A g \in Word : g \div 256 \in Byte /\ g % 256 \in Byte
  <2>1. 0 \in Word /\ \A g \in Word : g \in Nat /\ g < 65536
    BY SMT DEF Word
  <2>2. ASSUME NEW g \in Word PROVE g \div 256 \in Byte /\ g % 256 \in Byte
    <3>1. g \div 256 < 256
      BY <2>1, WordOfTwoBytes
    <3>2. g \div 256 \in Nat /\ g % 256 \in Nat /\ g % 256 < 256
      BY <2>1
    <3>3. \A v \in Nat : v < 256 => v \in Byte
      BY DEF Byte
    <3> QED
      BY <3>1, <3>2, <3>3
  <2> QED
    BY <2>1, <2>2
<1>8. zeros \in Seq(Word) /\ Len(zeros) = missing
  BY <1>2, <1>6, <1>7
<1>9. left \o zeros \in Seq(Word) /\ Len(left \o zeros) = Len(left) + missing
  BY <1>4, <1>8, JoinedSequences
<1>10. groups \in Seq(Word) /\ Len(groups) = Len(left) + missing + Len(right)
  BY <1>2, <1>4, <1>9, JoinedSequences
<1>11. \A k \in 1..8 : groups[k] \in Word
  <2>1. \A k \in 1..Len(groups) : groups[k] \in Word
    BY <1>10, JoinedSequences
  <2>2. Len(groups) = 8
    BY <1>1, <1>5, <1>10
  <2> QED
    BY <2>1, <2>2
<1>12. ASSUME NEW n \in 1..16 PROVE ExpandV6(left, right, gap)[n] \in Byte
  <2>1. CASE n % 2 = 1
    <3>1. (n + 1) \div 2 \in 1..8
      BY <2>1, SMT
    <3>2. ExpandV6(left, right, gap)[n] = groups[(n + 1) \div 2] \div 256
      BY <1>3, <2>1
    <3> QED
      BY <1>7, <1>11, <3>1, <3>2
  <2>2. CASE n % 2 # 1
    <3>1. n \div 2 \in 1..8
      BY <2>2, SMT
    <3>2. ExpandV6(left, right, gap)[n] = groups[n \div 2] % 256
      BY <1>3, <2>2
    <3> QED
      BY <1>7, <1>11, <3>1, <3>2
  <2> QED
    BY <2>1, <2>2
<1> QED
  BY <1>12

(* isRejectedIpv6 rejects exactly the blocks of the registry.               *)
LEMMA SixteenBytesAgree ==
  ASSUME NEW ip, \A n \in 1..16 : ip[n] \in Byte
  PROVE  RejectedV6(ip) <=> \E s \in SpecialV6 : InBlock(ip, s[1], s[2])
<1> DEFINE In(s) == InBlock(ip, s[1], s[2])
<1>1. \A x \in Byte : /\ Leading(x, 0) = 0 /\ Leading(x, 8) = x /\ Leading(x, 2) = x \div 64
                      /\ Leading(x, 7) = x \div 2
  BY LeadingBits
<1>2. /\ ip[1] \in Byte /\ ip[2] \in Byte /\ ip[3] \in Byte /\ ip[4] \in Byte
      /\ \A n \in 0..255 : n \in Byte
  BY DEF Byte
<1>3. /\ BitsOf(1, 7) = 7 /\ BitsOf(2, 7) = 0 /\ BitsOf(1, 8) = 8 /\ BitsOf(2, 8) = 0
      /\ BitsOf(1, 10) = 8 /\ BitsOf(2, 10) = 2
      /\ BitsOf(1, 32) = 8 /\ BitsOf(2, 32) = 8 /\ BitsOf(3, 32) = 8 /\ BitsOf(4, 32) = 8
      /\ \A k \in 1..12 : BitsOf(k, 96) = 8
      /\ \A k \in 13..16 : BitsOf(k, 96) = 0
  BY DEF BitsOf
<1>4. ASSUME NEW x, Len(x) = 2, x[1] \in Byte, x[2] \in Byte
      PROVE  /\ InBlock(ip, x, 7) <=> ip[1] \div 2 = x[1] \div 2
             /\ InBlock(ip, x, 8) <=> ip[1] = x[1]
             /\ InBlock(ip, x, 10) <=> ip[1] = x[1] /\ ip[2] \div 64 = x[2] \div 64
  <2>1. \A bits : InBlock(ip, x, bits) <=>
           /\ Leading(ip[1], BitsOf(1, bits)) = Leading(x[1], BitsOf(1, bits))
           /\ Leading(ip[2], BitsOf(2, bits)) = Leading(x[2], BitsOf(2, bits))
    <3>1. 1..Len(x) = {1, 2}
      BY <1>4
    <3> QED
      BY <3>1 DEF InBlock
  <2> QED
    BY <1>1, <1>2, <1>3, <1>4, <2>1
<1>5. ASSUME NEW x, Len(x) = 16, \A n \in 1..16 : x[n] \in Byte
      PROVE  InBlock(ip, x, 96) <=> \A n \in 1..12 : ip[n] = x[n]
  <2>1. ASSUME NEW n \in 1..16
        PROVE  Leading(ip[n], BitsOf(n, 96)) = Leading(x[n], BitsOf(n, 96)) <=> (n <= 12
                                                                                 => ip[n] = x[n])
    <3>1. CASE n \in 1..12
      BY <1>1, <1>3, <1>5, <3>1
    <3>2. CASE n \in 13..16
      BY <1>1, <1>3, <1>5, <3>2
    <3> QED
      BY <3>1, <3>2
  <2> QED
    BY <1>5, <2>1 DEF InBlock
<1>6. \A s : s = <<<<252, 0>>, 7>> => (In(s) <=> ip[1] \div 2 = 126)
  <2> SUFFICES ASSUME NEW x, x = <<252, 0>> PROVE InBlock(ip, x, 7) <=> ip[1] \div 2 = 126
    OBVIOUS
  <2>1. Len(x) = 2 /\ x[1] = 252 /\ x[2] = 0
    OBVIOUS
  <2> QED
    BY <1>2, <1>4, <2>1
<1>7. \A s : s = <<<<254, 128>>, 10>> => (In(s) <=> ip[1] = 254 /\ ip[2] \div 64 = 2)
  <2> SUFFICES ASSUME NEW x, x = <<254, 128>> PROVE InBlock(ip, x, 10) <=> ip[1] = 254
        /\ ip[2] \div 64 = 2
    OBVIOUS
  <2>1. Len(x) = 2 /\ x[1] = 254 /\ x[2] = 128
    OBVIOUS
  <2> QED
    BY <1>2, <1>4, <2>1
<1>8. \A s : s = <<<<254, 192>>, 10>> => (In(s) <=> ip[1] = 254 /\ ip[2] \div 64 = 3)
  <2> SUFFICES ASSUME NEW x, x = <<254, 192>> PROVE InBlock(ip, x, 10) <=> ip[1] = 254
        /\ ip[2] \div 64 = 3
    OBVIOUS
  <2>1. Len(x) = 2 /\ x[1] = 254 /\ x[2] = 192
    OBVIOUS
  <2> QED
    BY <1>2, <1>4, <2>1
<1>9. \A s : s = <<<<255, 0>>, 8>> => (In(s) <=> ip[1] = 255)
  <2> SUFFICES ASSUME NEW x, x = <<255, 0>> PROVE InBlock(ip, x, 8) <=> ip[1] = 255
    OBVIOUS
  <2>1. Len(x) = 2 /\ x[1] = 255 /\ x[2] = 0
    OBVIOUS
  <2> QED
    BY <1>2, <1>4, <2>1
<1>10. \A s : s = <<<<32, 1, 13, 184>>, 32>>
                    => (In(s) <=> ip[1] = 32 /\ ip[2] = 1 /\ ip[3] = 13 /\ ip[4] = 184)
  <2> SUFFICES ASSUME NEW x, x = <<32, 1, 13, 184>>
               PROVE  InBlock(ip, x, 32) <=> ip[1] = 32 /\ ip[2] = 1 /\ ip[3] = 13 /\ ip[4] = 184
    OBVIOUS
  <2>1. 1..Len(x) = {1, 2, 3, 4} /\ x[1] = 32 /\ x[2] = 1 /\ x[3] = 13 /\ x[4] = 184
    OBVIOUS
  <2>2. InBlock(ip, x, 32) <=> /\ Leading(ip[1], 8) = Leading(x[1], 8)
                               /\ Leading(ip[2], 8) = Leading(x[2], 8)
                               /\ Leading(ip[3], 8) = Leading(x[3], 8)
                               /\ Leading(ip[4], 8) = Leading(x[4], 8)
    BY <1>3, <2>1 DEF InBlock
  <2>3. x[1] \in Byte /\ x[2] \in Byte /\ x[3] \in Byte /\ x[4] \in Byte
    BY <1>2, <2>1
  <2> QED
    BY <1>1, <1>2, <2>1, <2>2, <2>3
<1>11. \A s : s = <<[k \in 1..16 |-> 0], 96>> => (In(s) <=> ZeroUpTo(ip, 12))
  <2> SUFFICES ASSUME NEW x, x = [k \in 1..16 |-> 0] PROVE InBlock(ip, x, 96) <=> ZeroUpTo(ip, 12)
    OBVIOUS
  <2>1. Len(x) = 16 /\ \A n \in 1..16 : x[n] = 0 /\ x[n] \in Byte
    BY DEF Byte
  <2> QED
    BY <1>5, <2>1 DEF ZeroUpTo
<1>12. \A s : s = <<[k \in 1..16 |-> IF k \in {11, 12} THEN 255 ELSE 0], 96>> =>
           (In(s) <=> ZeroUpTo(ip, 10) /\ ip[11] = 255 /\ ip[12] = 255)
  <2> SUFFICES ASSUME NEW x, x = [k \in 1..16 |-> IF k \in {11, 12} THEN 255 ELSE 0]
               PROVE  InBlock(ip, x, 96) <=> ZeroUpTo(ip, 10) /\ ip[11] = 255 /\ ip[12] = 255
    OBVIOUS
  <2>1. Len(x) = 16 /\ \A n \in 1..16 : x[n] = (IF n \in {11, 12} THEN 255 ELSE 0) /\ x[n] \in Byte
    BY DEF Byte
  <2>2. (\A n \in 1..12 : ip[n] = x[n]) <=> ZeroUpTo(ip, 10) /\ ip[11] = 255 /\ ip[12] = 255
    BY <2>1 DEF ZeroUpTo
  <2> QED
    BY <1>5, <2>1, <2>2
<1> HIDE DEF In
<1>13. \A s : s \in SpecialV6 <=>
          \/ s = <<<<252, 0>>, 7>> \/ s = <<<<254, 128>>, 10>> \/ s = <<<<254, 192>>, 10>>
          \/ s = <<<<255, 0>>, 8>> \/ s = <<<<32, 1, 13, 184>>, 32>>
          \/ s = <<[k \in 1..16 |-> 0], 96>>
          \/ s = <<[k \in 1..16 |-> IF k \in {11, 12} THEN 255 ELSE 0], 96>>
  BY DEF SpecialV6
<1>14. ASSUME NEW s \in SpecialV6, In(s) PROVE RejectedV6(ip)
  <2>1. ip[1] = 254 => ip[2] \div 64 \in {2, 3} \/ ~(ip[2] \div 64 = 2 \/ ip[2] \div 64 = 3)
    OBVIOUS
  <2> QED
    BY <1>6, <1>7, <1>8, <1>9, <1>10, <1>11, <1>12, <1>13, <1>14 DEF RejectedV6
<1>15. ASSUME ip[1] \div 2 = 126 PROVE \E s \in SpecialV6 : In(s)
  <2>1. PICK s : s = <<<<252, 0>>, 7>>
    OBVIOUS
  <2> QED
    BY <1>6, <1>13, <1>15, <2>1
<1>16. ASSUME ip[1] = 254, ip[2] \div 64 = 2 PROVE \E s \in SpecialV6 : In(s)
  <2>1. PICK s : s = <<<<254, 128>>, 10>>
    OBVIOUS
  <2> QED
    BY <1>7, <1>13, <1>16, <2>1
<1>17. ASSUME ip[1] = 254, ip[2] \div 64 = 3 PROVE \E s \in SpecialV6 : In(s)
  <2>1. PICK s : s = <<<<254, 192>>, 10>>
    OBVIOUS
  <2> QED
    BY <1>8, <1>13, <1>17, <2>1
<1>18. ASSUME ip[1] = 255 PROVE \E s \in SpecialV6 : In(s)
  <2>1. PICK s : s = <<<<255, 0>>, 8>>
    OBVIOUS
  <2> QED
    BY <1>9, <1>13, <1>18, <2>1
<1>19. ASSUME ip[1] = 32, ip[2] = 1, ip[3] = 13, ip[4] = 184 PROVE \E s \in SpecialV6 : In(s)
  <2>1. PICK s : s = <<<<32, 1, 13, 184>>, 32>>
    OBVIOUS
  <2> QED
    BY <1>10, <1>13, <1>19, <2>1
<1>20. ASSUME ZeroUpTo(ip, 12) PROVE \E s \in SpecialV6 : In(s)
  <2>1. PICK s : s = <<[k \in 1..16 |-> 0], 96>>
    OBVIOUS
  <2> QED
    BY <1>11, <1>13, <1>20, <2>1
<1>21. ASSUME ZeroUpTo(ip, 10), ip[11] = 255, ip[12] = 255 PROVE \E s \in SpecialV6 : In(s)
  <2>1. PICK s : s = <<[k \in 1..16 |-> IF k \in {11, 12} THEN 255 ELSE 0], 96>>
    OBVIOUS
  <2> QED
    BY <1>12, <1>13, <1>21, <2>1
<1>22. RejectedV6(ip) => \E s \in SpecialV6 : In(s)
  BY <1>15, <1>16, <1>17, <1>18, <1>19, <1>20, <1>21 DEF RejectedV6
<1> QED
  BY <1>14, <1>22 DEF In

(* The tests on bytes and the blocks agree on every valid address.          *)
LEMMA AddressesAgree ==
  ASSUME NEW ip, ip.version = 6 => SixteenBits(ip.left) /\ SixteenBits(ip.right)
        /\ ip.gap \in BOOLEAN,
         ValidAddress(ip)
  PROVE  RejectedAddress(ip) <=> Special(ip)
<1>1. ip.version \in {4, 6}
  BY DEF ValidAddress
<1>2. CASE ip.version = 4
  <2>1. ip.bytes[1] \in Byte /\ ip.bytes[2] \in Byte /\ ip.bytes[3] \in Byte /\ ip.bytes[4] \in Byte
    BY <1>2 DEF ValidAddress, Byte
  <2>2. RejectedV4(ip.bytes) <=> \E s \in SpecialV4 : InBlock(ip.bytes, s[1], s[2])
    BY <2>1, FourBytesAgree
  <2> QED
    BY <1>2, <2>2 DEF RejectedAddress, Special
<1>3. CASE ip.version = 6
  <2>1. PICK bytes : bytes = ExpandV6(ip.left, ip.right, ip.gap)
    OBVIOUS
  <2>2. bytes # <<>>
    BY <1>3, <2>1 DEF ValidAddress
  <2>3. \A n \in 1..16 : bytes[n] \in Byte
    BY <1>3, <2>1, <2>2, ExpandedBytes
  <2>4. RejectedV6(bytes) <=> \E s \in SpecialV6 : InBlock(bytes, s[1], s[2])
    BY <2>3, SixteenBytesAgree
  <2> QED
    BY <1>3, <2>1, <2>4 DEF RejectedAddress, Special
<1> QED
  BY <1>1, <1>2, <1>3

(* Whatever policy is given and whatever output is reported: accepted hops  *)
(* are public and on the list, the attributed domain is that of the last    *)
(* hop, and no public address is refused.                                   *)
THEOREM DestinationsAreChecked == PolicySpec => []DestinationsChecked
<1> DEFINE Inv == /\ \E c \in Cases : policy = c[1] /\ evidence = c[2]
                  /\ verdict = "accepted" =>
                        EvidenceAccepted(evidence, policy) /\ domain = DomainOf(evidence, policy)
<1>1. PolicyInit => Inv
  BY DEF PolicyInit
<1>2. Inv /\ [PolicyNext]_policyVars => Inv'
  <2> SUFFICES ASSUME Inv, [PolicyNext]_policyVars PROVE Inv'
    OBVIOUS
  <2>1. policy' = policy /\ evidence' = evidence
    BY DEF PolicyNext, CheckPolicy, policyVars
  <2>2. CASE UNCHANGED policyVars
    BY <2>1, <2>2 DEF policyVars, EvidenceAccepted, DomainOf, HopAllowed, UrlAllowed,
        PrivateAllowed, AddressAllowed
  <2>3. CASE CheckPolicy
    BY <2>1, <2>3 DEF CheckPolicy, EvidenceAccepted, DomainOf, HopAllowed, UrlAllowed,
        PrivateAllowed, AddressAllowed
  <2> QED
    BY <2>2, <2>3 DEF PolicyNext
<1>3. Inv => DestinationsChecked
  <2> SUFFICES ASSUME Inv PROVE DestinationsChecked
    OBVIOUS
  <2>1. /\ evidence.reported \/ evidence.hops = <<>>
        /\ \A k \in 1..Len(evidence.hops) : \A n \in 1..Len(evidence.hops[k].resolvedIps) :
              /\ evidence.hops[k].resolvedIps[n].version = 6 =>
                    /\ SixteenBits(evidence.hops[k].resolvedIps[n].left)
                    /\ SixteenBits(evidence.hops[k].resolvedIps[n].right)
                    /\ evidence.hops[k].resolvedIps[n].gap \in BOOLEAN
    BY CasesAssumption
  <2>2. PublicAddressesPass
    BY <2>1, AddressesAgree DEF PublicAddressesPass
  <2>3. DomainIsTheLastHop
    BY DEF DomainIsTheLastHop, DomainOf, EvidenceAccepted
  <2>4. AcceptedHopsArePublic
    <3> SUFFICES ASSUME verdict = "accepted", ~PrivateAllowed(policy),
          NEW k \in 1..Len(evidence.hops)
                 PROVE  /\ evidence.hops[k].url.host \in ToSet(policy.allowDomains)
                        /\ \A n \in 1..Len(evidence.hops[k].resolvedIps) :
                              ~Special(evidence.hops[k].resolvedIps[n])
      BY DEF AcceptedHopsArePublic
    <3>1. HopAllowed(evidence.hops[k], policy)
      BY <2>1 DEF EvidenceAccepted
    <3>2. evidence.hops[k].url.host \in ToSet(policy.allowDomains)
      BY <3>1 DEF HopAllowed, UrlAllowed
    <3>3. ASSUME NEW n \in 1..Len(evidence.hops[k].resolvedIps)
          PROVE ~Special(evidence.hops[k].resolvedIps[n])
      <4>1. ValidAddress(evidence.hops[k].resolvedIps[n])
            /\ ~RejectedAddress(evidence.hops[k].resolvedIps[n])
        BY <3>1 DEF HopAllowed, AddressAllowed
      <4> QED
        BY <2>1, <4>1, AddressesAgree
    <3> QED
      BY <3>2, <3>3
  <2> QED
    BY <2>2, <2>3, <2>4 DEF DestinationsChecked
<1> QED
  BY <1>1, <1>2, <1>3, PTL DEF PolicySpec

-----------------------------------------------------------------------------
(***************************************************************************)
(* The Agent Kit's output.  A builder owns what it has reserved until it   *)
(* ends, the receipt is reserved after the archive and written after it,   *)
(* and a builder nothing moved beside has read the revision it names.      *)
(***************************************************************************)

(* The steps of a builder and what it holds in them.                        *)
KitSteps == {"new", "clean", "at", "packed", "zip reserved", "reserved", "zip written", "ok",
             "failed", "killed"}
PackedSteps == {"packed", "zip reserved", "reserved", "zip written", "ok"}
Kits == [read : KitRevisions, named : KitRevisions]
CleanBuilds == [pc : KitSteps, since : Nat]
DatedBuilds == [pc : KitSteps, since : Nat, revision : KitRevisions]
PackedBuilds == [pc : KitSteps, kit : Kits, quiet : BOOLEAN]
KitFiles == [by : Builders, whole : BOOLEAN, kit : {Absent} \union Kits]

(* Types of the builder's state.                                            *)
KitTypes ==
    /\ sourceEdits \in 0..MaxSourceEdits
    /\ head \in 1..(sourceEdits + 1) /\ work \in 0..head
    /\ build \in [Builders ->
                   [pc : KitSteps] \union CleanBuilds \union DatedBuilds \union PackedBuilds]
    /\ \A b \in Builders : /\ build[b].pc = "clean" => build[b] \in CleanBuilds
                           /\ build[b].pc = "at" => build[b] \in DatedBuilds
                           /\ build[b].pc \in PackedSteps => build[b] \in PackedBuilds
    /\ out \in [zip : {Absent} \union KitFiles, receipt : {Absent} \union KitFiles]

(* What a builder has read, as long as nothing has moved since.             *)
ReadInPeace(b) ==
    /\ build[b].pc \in {"clean", "at"} => /\ build[b].since <= sourceEdits
                                          /\ build[b].since = sourceEdits => work = head
    /\ build[b].pc = "at" /\ build[b].since = sourceEdits => build[b].revision = head
    /\ build[b].pc \in PackedSteps /\ build[b].quiet => build[b].kit.read = build[b].kit.named

(* A receipt is beside the archive of the same builder, and says nothing    *)
(* until it is written whole.                                               *)
ReceiptWithZip ==
    out.receipt # Absent => /\ out.zip # Absent /\ out.zip.by = out.receipt.by
                            /\ out.receipt.whole => out.zip.whole /\ out.zip.kit = out.receipt.kit

(* What a builder has reserved is its own.                                  *)
OutputOwned(b) ==
    /\ build[b].pc = "zip reserved" => out.zip # Absent /\ out.zip.by = b /\ out.receipt = Absent
    /\ build[b].pc \in {"reserved", "zip written", "ok"} =>
           out.zip # Absent /\ out.receipt # Absent /\ out.zip.by = b /\ out.receipt.by = b
    /\ build[b].pc \in {"reserved", "zip written"} => ~out.receipt.whole
    /\ build[b].pc = "zip written" => out.zip.whole /\ out.zip.kit = build[b].kit

(* The invariant of the builders.                                           *)
KitInv ==
    /\ KitTypes /\ ReceiptWithZip
    /\ \A b \in Builders : ReadInPeace(b) /\ OutputOwned(b)

(* Before the first build there is no output.                               *)
LEMMA KitStarts == KitInit => KitInv
<1> SUFFICES ASSUME KitInit PROVE KitInv
  OBVIOUS
<1>1. KitTypes
  <2>1. build = [b \in Builders |-> [pc |-> "new"]] /\ [pc |-> "new"] \in [pc : KitSteps]
    BY DEF KitInit, KitSteps
  <2>2. build \in [Builders ->
                    [pc : KitSteps] \union CleanBuilds \union DatedBuilds \union PackedBuilds]
        /\ \A b \in Builders : build[b].pc = "new"
    BY <2>1
  <2>3. sourceEdits \in 0..MaxSourceEdits /\ head \in 1..(sourceEdits + 1) /\ work \in 0..head
    BY KitAssumption DEF KitInit
  <2>4. out \in [zip : {Absent} \union KitFiles, receipt : {Absent} \union KitFiles]
    BY DEF KitInit
  <2> QED
    BY <2>2, <2>3, <2>4 DEF KitTypes, PackedSteps
<1>2. ReceiptWithZip /\ \A b \in Builders : ReadInPeace(b) /\ OutputOwned(b)
  BY DEF KitInit, ReceiptWithZip, ReadInPeace, OutputOwned, PackedSteps
<1> QED
  BY <1>1, <1>2 DEF KitInv

(* The sources change and are committed beside the builders.                *)
LEMMA SourceMoves ==
    ASSUME KitInv, EditSource \/ CommitSource, UNCHANGED <<build, out>>
    PROVE  KitInv'
<1>1. KitTypes'
  BY KitAssumption DEF KitInv, KitTypes, EditSource, CommitSource
<1>2. ReceiptWithZip' /\ \A b \in Builders : OutputOwned(b)'
  BY DEF KitInv, ReceiptWithZip, OutputOwned
<1>3. ASSUME NEW b \in Builders PROVE ReadInPeace(b)'
  <2>1. ReadInPeace(b) /\ sourceEdits \in Nat /\ sourceEdits' = sourceEdits + 1 /\ build' = build
    BY DEF KitInv, KitTypes, EditSource, CommitSource
  <2>2. build[b].pc \in {"clean", "at"} => build[b].since \in Nat
    BY DEF KitInv, KitTypes, CleanBuilds, DatedBuilds
  <2> QED
    BY <2>1, <2>2 DEF ReadInPeace
<1> QED
  BY <1>1, <1>2, <1>3 DEF KitInv

(* A file is not the absence of one.                                        *)
LEMMA FilesAreThere ==
    ASSUME NEW f \in KitFiles
    PROVE  f # Absent
  BY KitAssumption DEF KitFiles, Kits

(* A builder takes a step.                                                  *)
LEMMA OneBuilder ==
    ASSUME KitInv, NEW b \in Builders, NEW new, build' = [build EXCEPT ![b] = new],
           UNCHANGED <<head, work, sourceEdits>>,
           new \in [pc : KitSteps] \union CleanBuilds \union DatedBuilds \union PackedBuilds,
           new.pc = "clean" => new \in CleanBuilds, new.pc = "at" => new \in DatedBuilds,
           new.pc \in PackedSteps => new \in PackedBuilds,
           out' \in [zip : {Absent} \union KitFiles, receipt : {Absent} \union KitFiles],
           ReadInPeace(b)', ReceiptWithZip', \A c \in Builders : OutputOwned(c)'
    PROVE  KitInv'
<1>1. build'[b] = new /\ \A c \in Builders : c # b => build'[c] = build[c]
  BY DEF KitInv, KitTypes
<1>2. KitTypes'
  BY <1>1 DEF KitInv, KitTypes
<1>3. \A c \in Builders : ReadInPeace(c)'
  BY <1>1 DEF KitInv, ReadInPeace
<1> QED
  BY <1>2, <1>3 DEF KitInv

(* A builder that stops, or is killed, owns nothing any more.               *)
LEMMA BuilderGone ==
    ASSUME KitInv, NEW b \in Builders, NEW pc \in {"failed", "killed"}, Goes(b, pc),
           out' \in [zip : {Absent} \union KitFiles, receipt : {Absent} \union KitFiles],
           UNCHANGED <<head, work, sourceEdits>>, ReceiptWithZip',
           \A c \in Builders \ {b} : OutputOwned(c)'
    PROVE  KitInv'
<1>1. PICK new : new = [build[b] EXCEPT !.pc = pc]
  OBVIOUS
<1>2. build' = [build EXCEPT ![b] = new] /\ new.pc = pc
      /\ new \in [pc : KitSteps] \union CleanBuilds \union DatedBuilds \union PackedBuilds
  <2>1. build[b] \in [pc : KitSteps] \union CleanBuilds \union DatedBuilds \union PackedBuilds
        /\ pc \in KitSteps
    BY DEF KitInv, KitTypes, KitSteps
  <2> QED
    BY <1>1, <2>1 DEF Goes, CleanBuilds, DatedBuilds, PackedBuilds
<1>3. build'[b].pc = pc
  BY <1>2 DEF KitInv, KitTypes
<1>4. ReadInPeace(b)' /\ OutputOwned(b)'
  BY <1>3 DEF ReadInPeace, OutputOwned, PackedSteps
<1> QED
  BY <1>2, <1>4, OneBuilder DEF PackedSteps

(* A step that leaves the output alone keeps what others own.               *)
LEMMA OtherBuildsKeep ==
    ASSUME KitInv, NEW b \in Builders, NEW new, build' = [build EXCEPT ![b] = new], out' = out
    PROVE  ReceiptWithZip' /\ \A c \in Builders \ {b} : OutputOwned(c)'
  BY DEF KitInv, KitTypes, ReceiptWithZip, OutputOwned

(* A builder stops before it has reserved anything.                         *)
LEMMA BuilderStops ==
    ASSUME KitInv, NEW b \in Builders, NEW pc \in {"failed", "killed"}, Goes(b, pc), out' = out,
           UNCHANGED <<head, work, sourceEdits>>
    PROVE  KitInv'
<1>1. out' \in [zip : {Absent} \union KitFiles, receipt : {Absent} \union KitFiles]
  BY DEF KitInv, KitTypes
<1>2. ReceiptWithZip' /\ \A c \in Builders \ {b} : OutputOwned(c)'
  BY OtherBuildsKeep DEF Goes
<1> QED
  BY <1>1, <1>2, BuilderGone

(* The steps that read the repository.                                      *)
LEMMA SourcesRead ==
    ASSUME KitInv, NEW b \in Builders, CheckClean(b) \/ ReadRevision(b) \/ ReadSources(b),
           UNCHANGED <<head, work, sourceEdits>>
    PROVE  KitInv'
<1>1. CASE Stops(b)
  BY <1>1, BuilderStops DEF Stops
<1> DEFINE Reads(new) == build' = [build EXCEPT ![b] = new] /\ out' = out
<1>2. ASSUME NEW new, Reads(new), new \in CleanBuilds \union DatedBuilds \union PackedBuilds,
             new.pc = "clean" => new \in CleanBuilds, new.pc = "at" => new \in DatedBuilds,
             new.pc \in PackedSteps => new \in PackedBuilds, new.pc \in {"clean", "at", "packed"},
             ReadInPeace(b)'
      PROVE  KitInv'
  <2>1. out' \in [zip : {Absent} \union KitFiles, receipt : {Absent} \union KitFiles]
    BY <1>2 DEF KitInv, KitTypes
  <2>2. ReceiptWithZip' /\ \A c \in Builders \ {b} : OutputOwned(c)'
    BY <1>2, OtherBuildsKeep
  <2>3. build'[b] = new
    BY <1>2 DEF KitInv, KitTypes
  <2>4. OutputOwned(b)'
    BY <1>2, <2>3 DEF OutputOwned
  <2> QED
    BY <1>2, <2>1, <2>2, <2>4, OneBuilder
<1>3. head \in KitRevisions /\ work \in KitRevisions /\ sourceEdits \in Nat
  BY KitAssumption DEF KitInv, KitTypes, KitRevisions
<1>4. CASE work = head /\ Reads([pc |-> "clean", since |-> sourceEdits])
  <2>1. PICK new : new = [pc |-> "clean", since |-> sourceEdits]
    OBVIOUS
  <2>2. new \in CleanBuilds /\ new.pc = "clean" /\ new.since = sourceEdits
    BY <1>3, <2>1 DEF CleanBuilds, KitSteps
  <2>3. build'[b] = new
    BY <1>4, <2>1 DEF KitInv, KitTypes
  <2>4. ReadInPeace(b)'
    <3>1. build'[b].pc = "clean" /\ build'[b].since = sourceEdits' /\ work' = head'
          /\ sourceEdits' \in Nat
      BY <1>3, <1>4, <2>2, <2>3
    <3> QED
      BY <3>1 DEF ReadInPeace, PackedSteps
  <2> QED
    BY <1>2, <1>4, <2>1, <2>2, <2>4 DEF PackedSteps
<1>5. CASE build[b].pc = "clean" /\ Reads([pc |-> "at", since |-> build[b].since,
                                           revision |-> head])
  <2>1. PICK new : new = [pc |-> "at", since |-> build[b].since, revision |-> head]
    OBVIOUS
  <2>2. build[b].since \in Nat /\ ReadInPeace(b)
    BY <1>5 DEF KitInv, KitTypes, CleanBuilds
  <2>3. new \in DatedBuilds /\ new.pc = "at" /\ new.since = build[b].since /\ new.revision = head
    BY <1>3, <2>1, <2>2 DEF DatedBuilds, KitSteps
  <2>4. build'[b] = new
    BY <1>5, <2>1 DEF KitInv, KitTypes
  <2>5. ReadInPeace(b)'
    BY <1>5, <2>2, <2>3, <2>4 DEF ReadInPeace, PackedSteps
  <2> QED
    BY <1>2, <1>5, <2>1, <2>3, <2>5 DEF PackedSteps
<1>6. CASE build[b].pc = "at" /\ Reads([pc |-> "packed",
                                        kit |-> [read |-> work, named |-> build[b].revision],
                                        quiet |-> build[b].since = sourceEdits])
  <2>1. PICK kit, quiet : kit = [read |-> work, named |-> build[b].revision]
        /\ quiet = (build[b].since = sourceEdits)
    OBVIOUS
  <2>2. PICK new : new = [pc |-> "packed", kit |-> kit, quiet |-> quiet]
    OBVIOUS
  <2>3. build[b].revision \in KitRevisions /\ ReadInPeace(b)
    BY <1>6 DEF KitInv, KitTypes, DatedBuilds
  <2>4. new \in PackedBuilds /\ new.pc = "packed" /\ new.kit = kit /\ new.quiet = quiet
    BY <1>3, <2>1, <2>2, <2>3 DEF PackedBuilds, KitSteps, Kits
  <2>5. build'[b] = new
    BY <1>6, <2>1, <2>2 DEF KitInv, KitTypes
  <2>6. quiet => kit.read = kit.named
    BY <1>6, <2>1, <2>3 DEF ReadInPeace
  <2>7. ReadInPeace(b)'
    BY <2>4, <2>5, <2>6 DEF ReadInPeace
  <2> QED
    BY <1>2, <1>6, <2>1, <2>2, <2>4, <2>7 DEF PackedSteps
<1>7. CASE CheckClean(b)
  BY <1>1, <1>4, <1>7 DEF CheckClean
<1>8. CASE ReadRevision(b)
  BY <1>5, <1>8 DEF ReadRevision
<1>9. CASE ReadSources(b)
  BY <1>1, <1>6, <1>9, Zenon DEF ReadSources
<1> QED
  BY <1>7, <1>8, <1>9

(* The files a builder writes.                                              *)
LEMMA FilesMade ==
    ASSUME KitInv, NEW b \in Builders
    PROVE  /\ Empty(b) \in KitFiles /\ Empty(b).by = b /\ ~Empty(b).whole /\ Empty(b) # Absent
           /\ build[b].pc \in PackedSteps => /\ Whole(b) \in KitFiles /\ Whole(b).by = b
                                             /\ Whole(b).whole
                                            /\ Whole(b).kit = build[b].kit /\ Whole(b) # Absent
<1>1. Empty(b) \in KitFiles /\ Empty(b).by = b /\ ~Empty(b).whole
  BY DEF Empty, KitFiles
<1>2. build[b].pc \in PackedSteps => build[b].kit \in Kits
  BY DEF KitInv, KitTypes, PackedBuilds
<1>3. build[b].pc \in PackedSteps => /\ Whole(b) \in KitFiles /\ Whole(b).by = b /\ Whole(b).whole
                                    /\ Whole(b).kit = build[b].kit
  BY <1>2 DEF Whole, KitFiles
<1> QED
  BY <1>1, <1>3, FilesAreThere

(* A builder that goes on with the kit it packed.                           *)
LEMMA BuilderGoesOn ==
    ASSUME KitInv, NEW b \in Builders, NEW pc \in {"zip reserved", "reserved", "zip written", "ok"},
           build[b].pc \in PackedSteps, Goes(b, pc),
           out' \in [zip : {Absent} \union KitFiles, receipt : {Absent} \union KitFiles],
           UNCHANGED <<head, work, sourceEdits>>, ReceiptWithZip',
           \A c \in Builders : OutputOwned(c)'
    PROVE  KitInv'
<1>1. PICK new : new = [build[b] EXCEPT !.pc = pc]
  OBVIOUS
<1>2. build[b] \in PackedBuilds /\ ReadInPeace(b) /\ pc \in KitSteps
  BY DEF KitInv, KitTypes, KitSteps
<1>3. new \in PackedBuilds /\ new.pc = pc /\ new.kit = build[b].kit /\ new.quiet = build[b].quiet
  BY <1>1, <1>2 DEF PackedBuilds
<1>4. build' = [build EXCEPT ![b] = new] /\ build'[b] = new
  BY <1>1 DEF Goes, KitInv, KitTypes
<1>5. ReadInPeace(b)'
  BY <1>2, <1>3, <1>4 DEF ReadInPeace, PackedSteps
<1> QED
  BY <1>3, <1>4, <1>5, OneBuilder

(* The steps that reserve and write the output; they fail when the file is  *)
(* there.                                                                   *)
LEMMA OutputMoves ==
    ASSUME KitInv, NEW b \in Builders,
           ReserveZip(b) \/ ReserveReceipt(b) \/ WriteZip(b) \/ WriteReceipt(b) \/ WriteFails(b),
           UNCHANGED <<head, work, sourceEdits>>
    PROVE  KitInv'
<1> DEFINE OutTypes == [zip : {Absent} \union KitFiles, receipt : {Absent} \union KitFiles]
<1>1. /\ OutputOwned(b) /\ ReceiptWithZip /\ \A c \in Builders : OutputOwned(c)
      /\ out \in OutTypes
  BY DEF KitInv, KitTypes
<1>2. ASSUME NEW pc, Goes(b, pc)
      PROVE  build'[b].pc = pc /\ build'[b].kit = build[b].kit
            /\ \A c \in Builders \ {b} : build'[c] = build[c]
  <2>1. build[b] \in [pc : KitSteps] \union CleanBuilds \union DatedBuilds \union PackedBuilds
    BY DEF KitInv, KitTypes
  <2> QED
    BY <1>2, <2>1 DEF Goes, KitInv, KitTypes, CleanBuilds, DatedBuilds, PackedBuilds
<1>3. ASSUME Stops(b) PROVE KitInv'
  BY <1>3, BuilderStops DEF Stops
<1>4. CASE ReserveZip(b) /\ ~Stops(b)
  <2>1. build[b].pc = "packed" /\ out.zip = Absent /\ out' = [out EXCEPT !.zip = Empty(b)]
        /\ Goes(b, "zip reserved")
    BY <1>4 DEF ReserveZip
  <2>2. out' \in OutTypes /\ out'.zip = Empty(b) /\ out'.receipt = out.receipt
        /\ out.receipt = Absent
    BY <1>1, <2>1, FilesMade DEF ReceiptWithZip
  <2>3. ReceiptWithZip'
    BY <2>2 DEF ReceiptWithZip
  <2>4. ASSUME NEW c \in Builders PROVE OutputOwned(c)'
    <3>1. /\ build'[b].pc = "zip reserved" /\ build'[b].kit = build[b].kit
          /\ c # b => build'[c] = build[c]
      BY <1>2, <2>1, <2>2
    <3>2. CASE c = b
      BY <2>1, <2>2, <2>3, <3>1, <3>2, FilesMade DEF OutputOwned
    <3>3. CASE c # b
      <4>1. OutputOwned(c)
        BY <1>1
      <4>2. build[c].pc \notin {"zip reserved", "reserved", "zip written", "ok"}
        BY <2>1, <3>3, <4>1 DEF OutputOwned
      <4> QED
        BY <3>1, <3>3, <4>2 DEF OutputOwned
    <3> QED
      BY <3>2, <3>3
  <2> QED
    BY <2>1, <2>2, <2>3, <2>4, BuilderGoesOn DEF PackedSteps
<1>5. CASE ReserveReceipt(b)
  <2>1. build[b].pc = "zip reserved" /\ out.receipt = Absent /\ out.zip # Absent /\ out.zip.by = b
    BY <1>1, <1>5 DEF ReserveReceipt, OutputOwned
  <2>2. out' = [out EXCEPT !.receipt = Empty(b)] /\ Goes(b, "reserved")
    BY <1>5, <2>1 DEF ReserveReceipt
  <2>3. out' \in OutTypes /\ out'.receipt = Empty(b) /\ out'.zip = out.zip
    BY <1>1, <2>2, FilesMade
  <2>4. ReceiptWithZip'
    BY <2>1, <2>3, FilesMade DEF ReceiptWithZip
  <2>5. ASSUME NEW c \in Builders PROVE OutputOwned(c)'
    <3>1. /\ build'[b].pc = "reserved" /\ build'[b].kit = build[b].kit
          /\ c # b => build'[c] = build[c]
      BY <1>2, <2>1, <2>2
    <3>2. CASE c = b
      BY <2>1, <2>2, <2>3, <3>1, <3>2, FilesMade DEF OutputOwned
    <3>3. CASE c # b
      <4>1. OutputOwned(c)
        BY <1>1
      <4>2. build[c].pc \notin {"zip reserved", "reserved", "zip written", "ok"}
        BY <2>1, <3>3, <4>1 DEF OutputOwned
      <4> QED
        BY <3>1, <3>3, <4>2 DEF OutputOwned
    <3> QED
      BY <3>2, <3>3
  <2> QED
    BY <2>1, <2>2, <2>3, <2>4, <2>5, BuilderGoesOn DEF PackedSteps
<1>6. CASE WriteZip(b)
  <2>1. build[b].pc = "reserved" /\ out.zip # Absent /\ out.receipt # Absent /\ out.zip.by = b
        /\ out.receipt.by = b
        /\ ~out.receipt.whole
    BY <1>1, <1>6 DEF WriteZip, OutputOwned
  <2>2. out' = [out EXCEPT !.zip = Whole(b)] /\ Goes(b, "zip written")
    BY <1>6 DEF WriteZip
  <2>3. out' \in OutTypes /\ out'.zip = Whole(b) /\ out'.receipt = out.receipt
    BY <1>1, <2>1, <2>2, FilesMade DEF PackedSteps
  <2>4. ReceiptWithZip'
    BY <2>1, <2>3, FilesMade DEF ReceiptWithZip, PackedSteps
  <2>5. ASSUME NEW c \in Builders PROVE OutputOwned(c)'
    <3>1. /\ build'[b].pc = "zip written" /\ build'[b].kit = build[b].kit
          /\ c # b => build'[c] = build[c]
      BY <1>2, <2>1, <2>2
    <3>2. CASE c = b
      BY <2>1, <2>2, <2>3, <3>1, <3>2, FilesMade DEF PackedSteps, OutputOwned
    <3>3. CASE c # b
      <4>1. OutputOwned(c)
        BY <1>1
      <4>2. build[c].pc \notin {"zip reserved", "reserved", "zip written", "ok"}
        BY <2>1, <3>3, <4>1 DEF OutputOwned
      <4> QED
        BY <3>1, <3>3, <4>2 DEF OutputOwned
    <3> QED
      BY <3>2, <3>3
  <2> QED
    BY <2>1, <2>2, <2>3, <2>4, <2>5, BuilderGoesOn DEF PackedSteps
<1>7. CASE WriteReceipt(b)
  <2>1. build[b].pc = "zip written" /\ out.zip # Absent /\ out.receipt # Absent /\ out.zip.by = b
        /\ out.receipt.by = b
        /\ out.zip.whole /\ out.zip.kit = build[b].kit
    BY <1>1, <1>7 DEF WriteReceipt, OutputOwned
  <2>2. out' = [out EXCEPT !.receipt = Whole(b)] /\ Goes(b, "ok")
    BY <1>7 DEF WriteReceipt
  <2>3. out' \in OutTypes /\ out'.receipt = Whole(b) /\ out'.zip = out.zip
    BY <1>1, <2>1, <2>2, FilesMade DEF PackedSteps
  <2>4. ReceiptWithZip'
    BY <2>1, <2>3, FilesMade DEF ReceiptWithZip, PackedSteps
  <2>5. ASSUME NEW c \in Builders PROVE OutputOwned(c)'
    <3>1. /\ build'[b].pc = "ok" /\ build'[b].kit = build[b].kit
          /\ c # b => build'[c] = build[c]
      BY <1>2, <2>1, <2>2
    <3>2. CASE c = b
      BY <2>1, <2>2, <2>3, <3>1, <3>2, FilesMade DEF PackedSteps, OutputOwned
    <3>3. CASE c # b
      <4>1. OutputOwned(c)
        BY <1>1
      <4>2. build[c].pc \notin {"zip reserved", "reserved", "zip written", "ok"}
        BY <2>1, <3>3, <4>1 DEF OutputOwned
      <4> QED
        BY <3>1, <3>3, <4>2 DEF OutputOwned
    <3> QED
      BY <3>2, <3>3
  <2> QED
    BY <2>1, <2>2, <2>3, <2>4, <2>5, BuilderGoesOn DEF PackedSteps
<1>8. CASE WriteFails(b)
  <2>1. out' = [zip |-> Absent, receipt |-> Absent] /\ Goes(b, "failed")
        /\ out.zip # Absent /\ out.receipt # Absent /\ out.zip.by = b /\ out.receipt.by = b
    BY <1>1, <1>8 DEF WriteFails, OutputOwned
  <2>2. ReceiptWithZip' /\ out' \in OutTypes
    BY <2>1 DEF ReceiptWithZip
  <2>3. ASSUME NEW c \in Builders \ {b} PROVE OutputOwned(c)'
    BY <1>1, <1>2, <2>1 DEF OutputOwned
  <2> QED
    BY <2>1, <2>2, <2>3, BuilderGone
<1> QED
  BY <1>3, <1>4, <1>5, <1>6, <1>7, <1>8

(* The output is cleared when no builder holds it.                          *)
LEMMA OutputCleared ==
    ASSUME KitInv, Clear, UNCHANGED <<head, work, sourceEdits>>
    PROVE  KitInv'
<1>1. /\ \A b \in Builders : build[b].pc \in {"new", "failed", "killed"}
      /\ out' = [zip |-> Absent, receipt |-> Absent]
      /\ build' = [b \in Builders |-> IF build[b].pc = "killed" THEN [pc |-> "new"] ELSE build[b]]
  BY DEF Clear
<1>2. [pc |-> "new"] \in [pc : KitSteps]
  BY DEF KitSteps
<1>3. build' \in [Builders ->
                  [pc : KitSteps] \union CleanBuilds \union DatedBuilds \union PackedBuilds]
      /\ \A b \in Builders : build'[b].pc \in {"new", "failed"}
  BY <1>1, <1>2 DEF KitInv, KitTypes
<1>4. KitTypes'
  BY <1>1, <1>3 DEF KitInv, KitTypes, PackedSteps
<1>5. ReceiptWithZip' /\ \A b \in Builders : ReadInPeace(b)' /\ OutputOwned(b)'
  BY <1>1, <1>3 DEF ReceiptWithZip, ReadInPeace, OutputOwned, PackedSteps
<1> QED
  BY <1>4, <1>5 DEF KitInv

(* KitInv is an invariant of the builders, for any number of them and any   *)
(* edits, commits and kills.                                                *)
THEOREM KitInvariance == KitSpec => []KitInv
<1>1. ASSUME KitInv, [KitNext]_kitVars PROVE KitInv'
  <2>1. CASE (EditSource \/ CommitSource) /\ UNCHANGED <<build, out, buildKills, userVars>>
    BY <1>1, <2>1, SourceMoves
  <2>2. ASSUME NEW b \in Builders,
               CheckClean(b) \/ ReadRevision(b) \/ ReadSources(b) \/ ReserveZip(b)
                     \/ ReserveReceipt(b)
                 \/ WriteZip(b) \/ WriteReceipt(b) \/ WriteFails(b),
               UNCHANGED <<repoVars, buildKills, userVars>>
        PROVE  KitInv'
    BY <1>1, <2>2, SourcesRead, OutputMoves DEF repoVars
  <2>3. ASSUME NEW b \in Builders, KillBuilder(b), UNCHANGED <<repoVars, userVars>> PROVE KitInv'
    BY <1>1, <2>3, BuilderStops DEF KillBuilder, repoVars
  <2>4. CASE Clear /\ UNCHANGED <<repoVars, buildKills, userVars>>
    BY <1>1, <2>4, OutputCleared DEF repoVars
  <2>5. CASE UNCHANGED <<repoVars, build, out>>
    BY <1>1, <2>5 DEF KitInv, KitTypes, ReceiptWithZip, ReadInPeace, OutputOwned, repoVars
  <2>6. CASE UNCHANGED kitVars
    BY <2>5, <2>6 DEF kitVars, repoVars
  <2> QED
    BY <1>1, <2>1, <2>2, <2>3, <2>4, <2>5, <2>6 DEF KitNext
<1> QED
  BY <1>1, KitStarts, PTL DEF KitSpec

(* A receipt of build-agent-kit.mjs that says something stands beside the   *)
(* whole archive it is the digest of, whoever was killed or failed; a       *)
(* builder that reports success left both (ReceiptMeansArchive).            *)
THEOREM ReceiptsMeanArchives == KitSpec => []ReceiptMeansArchive
<1>1. ASSUME KitInv PROVE ReceiptMeansArchive
  BY <1>1 DEF KitInv, ReceiptWithZip, OutputOwned, ReceiptMeansArchive
<1> QED
  BY <1>1, KitInvariance, PTL

(* A kit packed while nothing moved names the revision its files were read  *)
(* at, whatever other builders, edits and kills there were.                 *)
QuietKitsAreDated ==
    \A b \in Builders : build[b].pc \in PackedSteps /\ build[b].quiet =>
        build[b].kit.read = build[b].kit.named

(* The revision in the manifest build-agent-kit.mjs writes is the one the   *)
(* files come from, unless the sources moved while it read them.            *)
THEOREM QuietKitsNameTheirRevision == KitSpec => []QuietKitsAreDated
<1>1. KitInv => QuietKitsAreDated
  BY DEF KitInv, ReadInPeace, QuietKitsAreDated
<1> QED
  BY <1>1, KitInvariance, PTL

=============================================================================
