------------------------- MODULE BrowserResources -------------------------
(***************************************************************************)
(* Leases on the raw resources of the isolated browser adapter             *)
(* (packages/computer-use-browser-adapter/src/index.mjs, createSession and *)
(* the quarantine).  A session acquires a network guard, then a browser    *)
(* context (the driver) behind it.  Both are host objects that several     *)
(* acquisitions may share, in either role.  An acquisition that failed,    *)
(* arrived after its caller had gone, or is being closed is kept in        *)
(* quarantine until its driver and then its guard are given up; the        *)
(* physical close of a resource starts only when every claim asked for it  *)
(* and no guard claim on it still has a driver to wait for.                *)
(*                                                                         *)
(* External and left open: the host's open, createContext and close, which *)
(* answer at any time, or fail.                                            *)
(***************************************************************************)
EXTENDS Naturals, FiniteSets

CONSTANTS Acquisitions,   \* calls of createSession
          Guards,         \* raw objects the host hands out as guards
          Drivers,        \* raw objects the host hands out as contexts
          MaxFailures     \* bound: failed closes of each raw object

Raws == Guards \union Drivers
None == "none"
NoResource == "no resource"

(* The host's objects are objects: none of them is one of the marks.        *)
ASSUME LeaseAssumption ==
    /\ MaxFailures \in Nat
    /\ NoResource \notin Raws
    /\ "pending" \notin Drivers /\ "satisfied" \notin Drivers

Roles == {"guard", "driver"}
Claims == Acquisitions \X Roles

VARIABLES
    res,    \* raw object -> its claims, requests, admission, close
    acq     \* acquisition -> createSession's progress and its record

leaseVars == <<res, acq>>

NewResource == [claims |-> {}, requested |-> {}, accepting |-> TRUE,
                closing |-> FALSE, closed |-> FALSE, failures |-> 0]

NewAcquisition == [pc |-> "idle", guard |-> NoResource, driver |-> NoResource,
                   rejected |-> NoResource, dependency |-> "pending",
                   quarantined |-> FALSE, advance |-> None, completed |-> FALSE]

LeaseInit ==
    /\ res = [r \in Raws |-> NewResource]
    /\ acq = [a \in Acquisitions |-> NewAcquisition]

----------------------------------------------------------------------------
(* claimResource: a resource that is closing, closed, or whose every claim  *)
(* already asked for its close takes no other claim.                        *)
(* Faulty variant: only a closed resource refuses a claim.                   *)
ClaimableUntilClosed(r) == ~res[r].closed

Claimable(r) == ~res[r].closed /\ ~res[r].closing /\ res[r].accepting

WithClaim(rs, r, a, role) == [rs EXCEPT ![r].claims = @ \union {<<a, role>>}]

(* requestClaim: when the last claim asks, admission ends.                  *)
Requested(rs, r, a, role) ==
    LET asked == rs[r].requested \union {<<a, role>>}
    IN  [rs EXCEPT ![r].requested = asked,
                   ![r].accepting = @ /\ ~(rs[r].claims \subseteq asked)]

(* dependencySatisfied, for the guard claim of acquisition a.               *)
DependencySatisfied(a) ==
    LET d == acq[a].dependency
    IN  d = "satisfied" \/ (d # "pending" /\ res[d].closed)

(* A guard claim on r that still waits for its driver.                      *)
Blocked(r) ==
    \E a \in Acquisitions : <<a, "guard">> \in res[r].claims /\ ~DependencySatisfied(a)

----------------------------------------------------------------------------
(* createSession                                                            *)

OpenGuard(a) ==
    /\ acq[a].pc = "idle"
    /\ acq' = [acq EXCEPT ![a].pc = "guard"]
    /\ UNCHANGED res

(* The guard arrives, well formed or not.  A malformed one goes straight to *)
(* quarantine with nothing to wait for.  A guard that may not be claimed is *)
(* left to the lifecycle it already has.                                    *)
GuardArrives(a, r) ==
    /\ acq[a].pc = "guard"
    /\ IF Claimable(r)
       THEN /\ res' = WithClaim(res, r, a, "guard")
            /\ \/ acq' = [acq EXCEPT ![a].pc = "context", ![a].guard = r]
               \/ acq' = [acq EXCEPT ![a].pc = "failed", ![a].guard = r,
                                     ![a].dependency = "satisfied",
                                     ![a].quarantined = TRUE, ![a].advance = "start"]
       ELSE acq' = [acq EXCEPT ![a].pc = "dropped"] /\ UNCHANGED res

(* The caller's signal aborts while the host opens the guard.               *)
AbortGuard(a) ==
    /\ acq[a].pc = "guard"
    /\ acq' = [acq EXCEPT ![a].pc = "late guard"]
    /\ UNCHANGED res

LateGuard(a, r) ==
    /\ acq[a].pc = "late guard"
    /\ IF Claimable(r)
       THEN /\ res' = WithClaim(res, r, a, "guard")
            /\ acq' = [acq EXCEPT ![a].pc = "failed", ![a].guard = r,
                                  ![a].dependency = "satisfied",
                                  ![a].quarantined = TRUE, ![a].advance = "start"]
       ELSE acq' = [acq EXCEPT ![a].pc = "dropped"] /\ UNCHANGED res

(* The context arrives.  A context that may not be claimed makes the guard  *)
(* wait for that context's own close.                                       *)
ContextArrives(a, r) ==
    /\ acq[a].pc = "context"
    /\ IF Claimable(r)
       THEN /\ res' = WithClaim(res, r, a, "driver")
            /\ \/ acq' = [acq EXCEPT ![a].pc = "ready", ![a].driver = r, ![a].dependency = r]
               \/ acq' = [acq EXCEPT ![a].pc = "failed", ![a].driver = r, ![a].dependency = r,
                                     ![a].quarantined = TRUE, ![a].advance = "start"]
       ELSE /\ acq' = [acq EXCEPT ![a].pc = "failed", ![a].rejected = r, ![a].dependency = r,
                                  ![a].quarantined = TRUE, ![a].advance = "start"]
            /\ UNCHANGED res

(* Faulty variant: an abandoned context is taken for one that never comes.   *)
AbortContextForgets(a) ==
    /\ acq[a].pc = "context"
    /\ res' = Requested(res, acq[a].guard, a, "guard")
    /\ acq' = [acq EXCEPT ![a].pc = "late context", ![a].quarantined = TRUE,
                          ![a].dependency = "satisfied"]

(* Faulty variant: the late failure does not settle the guard's dependency.  *)
LateContextFailsPending(a) ==
    /\ acq[a].pc = "late context"
    /\ acq' = [acq EXCEPT ![a].pc = "failed"]
    /\ UNCHANGED res

(* createContext fails before the caller leaves: there is no driver.        *)
ContextFails(a) ==
    /\ acq[a].pc = "context"
    /\ acq' = [acq EXCEPT ![a].pc = "failed", ![a].dependency = "satisfied",
                          ![a].quarantined = TRUE, ![a].advance = "start"]
    /\ UNCHANGED res

(* The caller's signal aborts while the host creates the context: the guard *)
(* is asked for and quarantined, and stays pending until the late answer.   *)
AbortContext(a) ==
    /\ acq[a].pc = "context"
    /\ res' = Requested(res, acq[a].guard, a, "guard")
    /\ acq' = [acq EXCEPT ![a].pc = "late context", ![a].quarantined = TRUE]

LateContext(a, r) ==
    /\ acq[a].pc = "late context"
    /\ IF Claimable(r)
       THEN /\ res' = WithClaim(res, r, a, "driver")
            /\ acq' = [acq EXCEPT ![a].pc = "failed", ![a].driver = r, ![a].dependency = r,
                                  ![a].advance = IF @ = None THEN "start" ELSE @]
       ELSE /\ acq' = [acq EXCEPT ![a].pc = "failed", ![a].rejected = r, ![a].dependency = r,
                                  ![a].advance = IF @ = None THEN "start" ELSE @]
            /\ UNCHANGED res

LateContextFails(a) ==
    /\ acq[a].pc = "late context"
    /\ acq' = [acq EXCEPT ![a].pc = "failed", ![a].dependency = "satisfied",
                          ![a].advance = IF @ = None THEN "start" ELSE @]
    /\ UNCHANGED res

(* close of the session, or poisonHandle: quarantine and a first attempt.   *)
CloseHandle(a) ==
    /\ acq[a].pc \in {"ready", "shut"}
    /\ ~acq[a].completed /\ acq[a].advance = None
    /\ acq' = [acq EXCEPT ![a].pc = "shut", ![a].quarantined = TRUE, ![a].advance = "start"]
    /\ UNCHANGED res

(* reapQuarantine: another attempt for a quarantined acquisition.           *)
ReapQuarantine(a) ==
    /\ acq[a].quarantined /\ ~acq[a].completed /\ acq[a].advance = None
    /\ acq' = [acq EXCEPT ![a].advance = "start"]
    /\ UNCHANGED res

----------------------------------------------------------------------------
(* advanceAcquisition: asks for both claims, then the driver, then the      *)
(* guard.  One attempt at a time; an attempt that cannot go on, or whose    *)
(* close fails, ends and leaves the acquisition in quarantine.              *)

StartAdvance(a) ==
    /\ acq[a].advance = "start"
    /\ LET byDriver == IF acq[a].driver # NoResource
                       THEN Requested(res, acq[a].driver, a, "driver") ELSE res
       IN  res' = Requested(byDriver, acq[a].guard, a, "guard")
    /\ acq' = [acq EXCEPT ![a].advance =
                 IF acq[a].driver # NoResource THEN "driver"
                 ELSE IF acq[a].rejected # NoResource
                      THEN (IF res[acq[a].rejected].closed THEN "guard" ELSE None)
                 ELSE IF acq[a].dependency = "pending" THEN None ELSE "guard",
                 ![a].dependency =
                 IF acq[a].driver = NoResource /\ acq[a].rejected # NoResource
                    /\ res[acq[a].rejected].closed
                 THEN "satisfied" ELSE @]

(* requestResourceClose up to its first wait.                               *)
MayClose(r) == res[r].claims \subseteq res[r].requested /\ ~Blocked(r)

BeginResourceClose(r) == [res EXCEPT ![r].closing = TRUE, ![r].accepting = FALSE]

CloseDriver(a) ==
    /\ acq[a].advance = "driver"
    /\ LET r == acq[a].driver
       IN  \/ /\ res[r].closed
              /\ acq' = [acq EXCEPT ![a].advance = "guard", ![a].dependency = "satisfied"]
              /\ UNCHANGED res
           \/ /\ ~res[r].closed /\ ~res[r].closing /\ MayClose(r)
              /\ res' = BeginResourceClose(r)
              /\ UNCHANGED acq
           \/ /\ ~res[r].closed /\ ~res[r].closing /\ ~MayClose(r)
              /\ acq' = [acq EXCEPT ![a].advance = None]
              /\ res' = IF res[r].claims \subseteq res[r].requested
                        THEN [res EXCEPT ![r].accepting = FALSE] ELSE res

(* A guard other acquisitions still claim is left to them.                  *)
CloseGuard(a) ==
    /\ acq[a].advance = "guard"
    /\ LET r == acq[a].guard
       IN  \/ /\ \/ res[r].closed
                 \/ ~res[r].closing /\ ~(res[r].claims \subseteq res[r].requested)
              /\ acq' = [acq EXCEPT ![a].advance = None, ![a].completed = TRUE,
                                    ![a].quarantined = FALSE]
              /\ UNCHANGED res
           \/ /\ ~res[r].closed /\ ~res[r].closing /\ MayClose(r)
              /\ res' = BeginResourceClose(r)
              /\ UNCHANGED acq
           \/ /\ ~res[r].closed /\ ~res[r].closing
              /\ res[r].claims \subseteq res[r].requested /\ Blocked(r)
              /\ acq' = [acq EXCEPT ![a].advance = None]
              /\ res' = [res EXCEPT ![r].accepting = FALSE]

(* The host's close answers.                                                *)
ResourceClosed(r) ==
    /\ res[r].closing /\ ~res[r].closed
    /\ res' = [res EXCEPT ![r].closed = TRUE]
    /\ UNCHANGED acq

Waiting(a, r) ==
    \/ acq[a].advance = "driver" /\ acq[a].driver = r
    \/ acq[a].advance = "guard" /\ acq[a].guard = r

ResourceCloseFails(r) ==
    /\ res[r].closing /\ ~res[r].closed /\ res[r].failures < MaxFailures
    /\ res' = [res EXCEPT ![r].closing = FALSE, ![r].failures = @ + 1]
    /\ acq' = [a \in Acquisitions |->
                 IF Waiting(a, r) THEN [acq[a] EXCEPT !.advance = None] ELSE acq[a]]

----------------------------------------------------------------------------
Advance(a) == StartAdvance(a) \/ CloseDriver(a) \/ CloseGuard(a)

LeaseNext ==
    \/ \E a \in Acquisitions :
          \/ OpenGuard(a) \/ AbortGuard(a) \/ ContextFails(a) \/ AbortContext(a)
          \/ LateContextFails(a) \/ CloseHandle(a) \/ ReapQuarantine(a)
          \/ \E r \in Guards : GuardArrives(a, r) \/ LateGuard(a, r)
          \/ \E r \in Drivers : ContextArrives(a, r) \/ LateContext(a, r)
          \/ Advance(a)
    \/ \E r \in Raws : ResourceClosed(r) \/ ResourceCloseFails(r)

LeaseSafetySpec == LeaseInit /\ [][LeaseNext]_leaseVars

(***************************************************************************)
(* Fairness: promise continuations run; the host answers a close and an     *)
(* abandoned createContext; the integrator keeps calling reapQuarantine.    *)
(***************************************************************************)
LeaseFairness ==
    /\ \A a \in Acquisitions :
          /\ WF_leaseVars(Advance(a))
          /\ WF_leaseVars(ReapQuarantine(a))
          /\ WF_leaseVars(\E r \in Drivers : LateContext(a, r))
    /\ \A r \in Raws : SF_leaseVars(ResourceClosed(r))

LeaseSpec == LeaseSafetySpec /\ LeaseFairness

----------------------------------------------------------------------------
(* Properties.                                                              *)

(* Types of the resources and of the acquisition records.                   *)
LeaseTypeOK ==
    /\ res \in [Raws -> [claims : SUBSET Claims, requested : SUBSET Claims,
                         accepting : BOOLEAN, closing : BOOLEAN, closed : BOOLEAN,
                         failures : 0..MaxFailures]]
    /\ acq \in [Acquisitions ->
                  [pc : {"idle", "guard", "late guard", "context", "late context",
                         "ready", "shut", "failed", "dropped"},
                   guard : Guards \union {NoResource}, driver : Drivers \union {NoResource},
                   rejected : Drivers \union {NoResource},
                   dependency : {"pending", "satisfied"} \union Drivers,
                   quarantined : BOOLEAN,
                   advance : {None, "start", "driver", "guard"}, completed : BOOLEAN]]

(* The browser may be at work behind the guard of acquisition a.            *)
DriverMayRun(a) ==
    \/ acq[a].pc \in {"context", "late context"}
    \/ acq[a].driver # NoResource /\ ~res[acq[a].driver].closed
    \/ acq[a].rejected # NoResource /\ ~res[acq[a].rejected].closed

(* A guard is not taken away from a browser that may still run behind it:   *)
(* its physical close starts after every driver it protects confirmed its   *)
(* own, late, rejected and shared drivers included.                         *)
GuardOutlivesDriver ==
    \A a \in Acquisitions :
        acq[a].guard # NoResource
        /\ (res[acq[a].guard].closing \/ res[acq[a].guard].closed) => ~DriverMayRun(a)

(* A session that is open keeps what it uses: nothing it claims is closing  *)
(* because another acquisition of the same raw object gave it up.           *)
OpenSessionsKeepResources ==
    \A a \in Acquisitions :
        acq[a].pc = "ready" =>
            /\ ~res[acq[a].guard].closing /\ ~res[acq[a].guard].closed
            /\ ~res[acq[a].driver].closing /\ ~res[acq[a].driver].closed

(* Both, with the types.                                                    *)
LeaseInv == LeaseTypeOK /\ GuardOutlivesDriver /\ OpenSessionsKeepResources

(* A raw object that started to close gets no new user: claimResource.      *)
NoClaimAfterClose ==
    [][\A r \in Raws : res[r].closing \/ res[r].closed
                           => res'[r].claims = res[r].claims]_leaseVars

(* What goes to quarantine leaves it: reapQuarantine retries every failed   *)
(* or blocked attempt.  Two tombstones stay: a driver that an open session  *)
(* still shares, and raw objects used as guard and as driver at once.       *)
SharedWithOpen(a) ==
    \E b \in Acquisitions : acq[b].pc = "ready"
        /\ acq[b].driver \in {acq[a].driver, acq[a].rejected}

CrossRole == \E a, b \in Acquisitions :
    acq[a].guard # NoResource /\ acq[a].guard \in {acq[b].driver, acq[b].rejected}

QuarantineDrains ==
    \A a \in Acquisitions :
        acq[a].quarantined ~> acq[a].completed \/ SharedWithOpen(a) \/ CrossRole
==========================================================================
