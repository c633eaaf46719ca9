--------------------------- MODULE ComputerUse ---------------------------
(***************************************************************************)
(* One session of the Computer Use controller                              *)
(* (packages/computer-use-contract/src/index.mjs) over the isolated        *)
(* browser adapter (packages/computer-use-browser-adapter/src/index.mjs).  *)
(* The controller gives a session one operation slot, consumes a step and  *)
(* the latest observation digest per execute, asks for approvals, writes   *)
(* an authorization event and only then commits.  An operation is an       *)
(* asynchronous closure raced against its deadline and its abort signal:   *)
(* the caller can be told it failed while the closure, the adapter's call  *)
(* or the browser driver is still at work.                                 *)
(*                                                                         *)
(* External and left open: the browser driver, the network guard, the      *)
(* approval callback and the audit sink, which answer at any time, fail,   *)
(* or answer after the caller has gone.                                    *)
(***************************************************************************)
EXTENDS Naturals, FiniteSets

CONSTANTS MaxSteps,   \* policy.maxSteps
          MaxOps,     \* bound: calls of observe and execute
          MaxDocs,    \* bound: documents the browser shows, one after another
          MaxCloses   \* bound: attempts to close the session

ASSUME SessionBounds ==
    /\ MaxSteps \in Nat \ {0} /\ MaxOps \in Nat \ {0}
    /\ MaxDocs \in Nat \ {0} /\ MaxCloses \in Nat \ {0}

Ops == 1..MaxOps
Docs == 1..MaxDocs
NoDoc == 0

VARIABLES
    ctl,      \* the controller's state of the session
    slot,     \* operationPromise: the operation in the slot, 0 when free
    op,       \* the operations: promise, place of the closure, signal, request
    h,        \* the adapter's handle
    page,     \* the document in the browser (external)
    drv,      \* driver actions called and not yet performed (external)
    acted,    \* history: operations whose input reached the page
    granted,  \* history: operations whose every safety check was approved
    closeAt   \* progress of the close attempt: its attempts and where it is

sessionVars == <<ctl, slot, op, h, page, drv, acted, granted, closeAt>>

NoOp == [kind |-> "none", promise |-> "none", pc |-> "none", aborted |-> FALSE,
         gen |-> 0, hgen |-> 0, step |-> 0, seen |-> NoDoc, high |-> FALSE,
         commit |-> "none"]

----------------------------------------------------------------------------
(* Places of a closure in which the adapter's call is active, and those in  *)
(* which the driver's action may have reached the page.                     *)

AdapterPcs == {"observing", "hashing", "preparing", "acting", "evidence"}
ActedPcs   == {"acting", "evidence"}

Pending(i) == op[i].promise = "pending"

(* Faulty variant: the signal is not handed to the calls below.              *)
SignalNotWired(i) == TRUE

(* runBounded hands its AbortSignal to every call below it.                 *)
SignalLive(i) == ~op[i].aborted

(* assertCurrent: the signal, then the generation, then poison.             *)
Current(i) ==
    /\ SignalLive(i)
    /\ ctl.gen = op[i].gen /\ ~ctl.closing /\ ctl.phase # "closed"
    /\ ~ctl.poisoned

(* assertGeneration of the adapter.                                         *)
SameGeneration(i) == h.gen = op[i].hgen /\ ~h.closed /\ ~h.poisoned

(* begin: admission of a call to the handle.                                *)
Admits == ~h.shutdown /\ ~h.closed /\ ~h.poisoned /\ h.active = 0

(* getSession: the session is open for a new operation.  A session past its *)
(* total deadline takes none, which is a caller that asks for none: the     *)
(* deadline is not kept as state, its effect on an operation is AbortOp's.  *)
Usable == ctl.phase = "open" /\ ~ctl.closing /\ ~ctl.poisoned

(* The rejection handler of execute runs in the microtasks after the        *)
(* rejection: before any timer, driver or audit answer, not before another  *)
(* call of the same turn.                                                   *)
NoHandlerDue == \A i \in Ops : op[i].promise # "rejected"

Poisoned(handle) ==
    [handle EXCEPT !.poisoned = TRUE, !.shutdown = TRUE,
                   !.gen = IF handle.shutdown THEN @ ELSE @ + 1]

Released(handle, i) == [handle EXCEPT !.active = IF @ = i THEN 0 ELSE @]

(* The controller's side of a settled operation: the slot is free and an    *)
(* execute has used up its step.                                            *)
AfterSettled(c, i) ==
    [c EXCEPT !.nextStep = IF op[i].kind = "execute" /\ @ <= op[i].step
                           THEN op[i].step + 1 ELSE @]

(* A closure that ended: what it had captured is dropped.                   *)
Ended(o) == [o EXCEPT !.pc = "gone", !.gen = 0, !.hgen = 0, !.seen = NoDoc, !.aborted = FALSE]

Rejected(o) == [o EXCEPT !.promise = IF o.kind = "execute" THEN "rejected" ELSE "done"]

(* The closure of operation i throws: its promise rejects, unless an abort  *)
(* has already rejected it.                                                 *)
Throw(i, handle) ==
    /\ op' = [op EXCEPT ![i] = Ended(IF Pending(i) THEN Rejected(@) ELSE @)]
    /\ h' = Released(handle, i)
    /\ slot' = IF slot = i THEN 0 ELSE slot
    /\ ctl' = IF Pending(i) THEN AfterSettled(ctl, i) ELSE ctl

(* The abort listeners: the controller's race rejects, the adapter poisons  *)
(* its handle if the driver's action was under way.                         *)
AbortedOp(i) ==
    IF op[i].pc \in AdapterPcs \union {"call", "prepare", "observed", "emit"}
    THEN [Rejected(op[i]) EXCEPT !.aborted = TRUE]
    ELSE Ended(Rejected(op[i]))

(* Faulty variant: an abort while the driver acts leaves the handle open.    *)
AbortedHandleOpen(i) == h

AbortedHandle(i) == IF op[i].pc \in ActedPcs THEN Poisoned(h) ELSE h

----------------------------------------------------------------------------
SessionInit ==
    /\ ctl = [phase |-> "none", closing |-> FALSE, poisoned |-> FALSE,
              gen |-> 1, nextStep |-> 1, used |-> {}, latest |-> NoDoc, commitStarted |-> FALSE]
    /\ slot = 0
    /\ op = [i \in Ops |-> NoOp]
    /\ h = [gen |-> 1, obs |-> 0, doc |-> NoDoc, nextStep |-> 1, latest |-> NoDoc,
            prepared |-> {}, active |-> 0, poisoned |-> FALSE, shutdown |-> FALSE,
            closed |-> FALSE, released |-> FALSE]
    /\ page = 1
    /\ drv = {} /\ acted = {} /\ granted = {}
    /\ closeAt = [at |-> "idle", tries |-> 0]

----------------------------------------------------------------------------
(* close: shuts admission, fences the generation, aborts the operation in   *)
(* the slot and waits for it.  A second call gets the first one's promise.  *)
BeginClose(c) ==
    /\ ctl.phase \in {"auditing", "open"} /\ closeAt.at = "idle"
    /\ closeAt.tries < MaxCloses
    /\ ctl' = [(IF slot # 0 THEN AfterSettled(c, slot) ELSE c)
                 EXCEPT !.closing = TRUE, !.gen = @ + 1]
    /\ h' = IF slot # 0 THEN AbortedHandle(slot) ELSE h
    /\ closeAt' = [at |-> "waiting", tries |-> closeAt.tries + 1]
    /\ slot' = 0

CloseSession ==
    /\ ctl.phase = "open"
    /\ BeginClose(ctl)
    /\ op' = IF slot # 0 THEN [op EXCEPT ![slot] = AbortedOp(slot)] ELSE op
    /\ UNCHANGED <<page, drv, acted, granted>>

(* Faulty variant: reap skips the tombstones of a failed close.              *)
ReapSkipsPoisoned == ~ctl.poisoned /\ CloseSession

(* reap: a close of the sessions that are poisoned (of those past their     *)
(* deadline, it is CloseSession).                                           *)
Reap ==
    /\ ctl.poisoned
    /\ CloseSession

(* The adapter's close: admission is shut for good and the resources go to  *)
(* quarantine, whose lifecycle releases them (module BrowserResources).     *)
CloseProvider ==
    /\ closeAt.at = "waiting" /\ NoHandlerDue
    /\ h' = [h EXCEPT !.shutdown = TRUE, !.gen = IF h.shutdown THEN @ ELSE @ + 1]
    /\ closeAt' = [closeAt EXCEPT !.at = "provider"]
    /\ UNCHANGED <<ctl, slot, op, page, drv, acted, granted>>

(* The driver confirmed its close: it has stopped its work.                 *)
ReleaseResources ==
    /\ h.shutdown /\ ~h.released
    /\ h' = [h EXCEPT !.released = TRUE]
    /\ drv' = {}
    /\ UNCHANGED <<ctl, slot, op, page, acted, granted, closeAt>>

CloseConfirmed ==
    /\ closeAt.at = "provider" /\ h.released
    /\ h' = [h EXCEPT !.closed = TRUE, !.prepared = {}]
    /\ ctl' = [ctl EXCEPT !.phase = "closed", !.closing = FALSE]
    /\ closeAt' = [closeAt EXCEPT !.at = "idle"]
    /\ UNCHANGED <<slot, op, page, drv, acted, granted>>

(* The provider's close failed, or did not answer before its deadline: the  *)
(* session stays as a poisoned tombstone that reap can retry.               *)
CloseFailed ==
    /\ closeAt.at = "provider" /\ closeAt.tries < MaxCloses
    /\ ctl' = [ctl EXCEPT !.closing = FALSE, !.poisoned = TRUE]
    /\ closeAt' = [closeAt EXCEPT !.at = "idle"]
    /\ UNCHANGED <<slot, op, h, page, drv, acted, granted>>

----------------------------------------------------------------------------
(* createSession: the provider's session, then the audit event; a sink      *)
(* that fails poisons the session and closes it.                            *)
CreateSession ==
    /\ ctl.phase = "none"
    /\ ctl' = [ctl EXCEPT !.phase = "auditing"]
    /\ UNCHANGED <<slot, op, h, page, drv, acted, granted, closeAt>>

SessionAudited ==
    /\ ctl.phase = "auditing" /\ ~ctl.poisoned
    /\ \/ /\ ctl' = [ctl EXCEPT !.phase = "open"]
          /\ UNCHANGED <<slot, h, closeAt>>
       \/ BeginClose([ctl EXCEPT !.phase = "open", !.poisoned = TRUE])
    /\ UNCHANGED <<op, page, drv, acted, granted>>

(* The step's deadline, the session's, or the caller's own signal.          *)
AbortOp(i) ==
    /\ slot = i /\ Pending(i) /\ NoHandlerDue
    /\ op' = [op EXCEPT ![i] = AbortedOp(i)]
    /\ h' = AbortedHandle(i)
    /\ ctl' = AfterSettled(ctl, i)
    /\ slot' = 0
    /\ UNCHANGED <<page, drv, acted, granted, closeAt>>

----------------------------------------------------------------------------
(* observe                                                                  *)

Observe(i) ==
    /\ op[i].kind = "none" /\ \A j \in Ops : j < i => op[j].kind # "none"
    /\ Usable /\ slot = 0
    /\ op' = [op EXCEPT ![i] = [NoOp EXCEPT !.kind = "observe", !.promise = "pending",
                                            !.pc = "call", !.gen = ctl.gen]]
    /\ slot' = i
    /\ UNCHANGED <<ctl, h, page, drv, acted, granted, closeAt>>

(* The adapter admits the call, drops what was prepared on an older         *)
(* observation and asks the driver.                                         *)
AdapterObserve(i) ==
    /\ op[i].kind = "observe" /\ op[i].pc = "call" /\ NoHandlerDue
    /\ IF Admits /\ SignalLive(i)
       THEN /\ h' = [h EXCEPT !.active = i, !.prepared = {}]
            /\ op' = [op EXCEPT ![i].pc = "observing", ![i].hgen = h.gen]
            /\ UNCHANGED <<ctl, slot>>
       ELSE Throw(i, h)
    /\ UNCHANGED <<page, drv, acted, granted, closeAt>>

(* The driver answers with the document it shows; or an abort or an invalid *)
(* answer ends the call.                                                    *)
DriverObserved(i) ==
    /\ op[i].pc = "observing" /\ NoHandlerDue
    /\ \/ /\ SignalLive(i) /\ SameGeneration(i)
          /\ op' = [op EXCEPT ![i].pc = "hashing", ![i].seen = page]
          /\ UNCHANGED <<ctl, slot, h>>
       \/ Throw(i, h)
    /\ UNCHANGED <<page, drv, acted, granted, closeAt>>

(* The guard's evidence ends at the observed URL and the digest is bound to *)
(* the document.                                                            *)
ObservationHashed(i) ==
    /\ op[i].pc = "hashing" /\ NoHandlerDue
    /\ \/ /\ SignalLive(i) /\ SameGeneration(i)
          /\ h' = Released([h EXCEPT !.latest = op[i].seen, !.doc = op[i].seen,
                                     !.obs = @ + 1], i)
          /\ op' = [op EXCEPT ![i].pc = "observed"]
          /\ UNCHANGED <<ctl, slot>>
       \/ Throw(i, h)
    /\ UNCHANGED <<page, drv, acted, granted, closeAt>>

(* Back in the controller: the digest becomes the latest before the audit   *)
(* event is written.                                                        *)
TakeObservation(i) ==
    /\ op[i].pc = "observed" /\ NoHandlerDue
    /\ \/ /\ Current(i)
          /\ ctl' = [ctl EXCEPT !.latest = op[i].seen]
          /\ op' = [op EXCEPT ![i].pc = "emit"]
          /\ UNCHANGED <<slot, h>>
       \/ Throw(i, h)
    /\ UNCHANGED <<page, drv, acted, granted, closeAt>>

(* The audit sink answers, if need be long after the observation was given  *)
(* up: a failure takes the latest digest away, whoever set it.              *)
ObservationAudited(i) ==
    /\ op[i].pc = "emit" /\ NoHandlerDue
    /\ \/ /\ op' = [op EXCEPT ![i] = [Ended(@) EXCEPT !.promise = "done"]]
          /\ slot' = IF slot = i THEN 0 ELSE slot
          /\ UNCHANGED <<ctl, h>>
       \/ /\ op' = [op EXCEPT ![i] = [Ended(@) EXCEPT !.promise = "done"]]
          /\ slot' = IF slot = i THEN 0 ELSE slot
          /\ ctl' = [ctl EXCEPT !.latest = NoDoc]
          /\ UNCHANGED h
    /\ UNCHANGED <<page, drv, acted, granted, closeAt>>

----------------------------------------------------------------------------
(* execute                                                                  *)

(* The synchronous half: every check passes (a request that fails one       *)
(* changes nothing), the step and the digest are used up.                   *)
Execute(i, high) ==
    /\ op[i].kind = "none" /\ \A j \in Ops : j < i => op[j].kind # "none"
    /\ Usable /\ slot = 0
    /\ ctl.nextStep \notin ctl.used /\ ctl.nextStep <= MaxSteps
    /\ ctl.latest # NoDoc
    /\ ctl' = [ctl EXCEPT !.used = @ \union {ctl.nextStep}, !.latest = NoDoc,
                          !.commitStarted = FALSE]
    /\ op' = [op EXCEPT ![i] = [NoOp EXCEPT !.kind = "execute", !.promise = "pending",
                                  !.pc = "prepare", !.gen = ctl.gen, !.step = ctl.nextStep,
                                  !.seen = ctl.latest, !.high = high]]
    /\ slot' = i
    /\ UNCHANGED <<h, page, drv, acted, granted, closeAt>>

(* prepare at the adapter: the step and the digest must be the handle's.    *)
PrepareAccepted(i) ==
    /\ Admits /\ SignalLive(i)
    /\ op[i].step = h.nextStep
    /\ op[i].seen = h.latest
    /\ \A r \in h.prepared : r.step # op[i].step

AdapterPrepare(i) ==
    /\ op[i].kind = "execute" /\ op[i].pc = "prepare" /\ NoHandlerDue
    /\ IF PrepareAccepted(i) /\ Current(i)
       THEN /\ h' = [h EXCEPT !.active = i]
            /\ op' = [op EXCEPT ![i].pc = "preparing", ![i].hgen = h.gen]
            /\ UNCHANGED <<ctl, slot>>
       ELSE Throw(i, h)
    /\ UNCHANGED <<page, drv, acted, granted, closeAt>>

ActionHashed(i) ==
    /\ op[i].pc = "preparing" /\ NoHandlerDue
    /\ IF SignalLive(i) /\ SameGeneration(i)
       THEN /\ h' = Released([h EXCEPT !.prepared = @ \union
                        {[id |-> i, step |-> op[i].step, seen |-> op[i].seen,
                          doc |-> h.doc, obs |-> h.obs, gen |-> h.gen]}], i)
            /\ op' = [op EXCEPT ![i].pc = "checks"]
            /\ UNCHANGED <<ctl, slot>>
       ELSE Throw(i, h)
    /\ UNCHANGED <<page, drv, acted, granted, closeAt>>

(* The model's, the provider's and the contract's checks; a high-impact     *)
(* action always has one, another action may have one.                      *)
CollectChecks(i) ==
    /\ op[i].pc = "checks" /\ NoHandlerDue
    /\ \/ /\ Current(i)
          /\ op' = [op EXCEPT ![i].pc = "approval", ![i].high = TRUE]
          /\ UNCHANGED <<ctl, slot, h>>
       \/ /\ Current(i) /\ ~op[i].high
          /\ op' = [op EXCEPT ![i].pc = "authorize"]
          /\ UNCHANGED <<ctl, slot, h>>
       \/ Throw(i, h)
    /\ UNCHANGED <<page, drv, acted, granted, closeAt>>

(* Every check is approved, bound to this action; or one is refused.        *)
ApprovalAnswered(i) ==
    /\ op[i].pc = "approval" /\ NoHandlerDue
    /\ \/ /\ Current(i)
          /\ op' = [op EXCEPT ![i].pc = "authorize"]
          /\ granted' = granted \union {i}
          /\ UNCHANGED <<ctl, slot, h>>
       \/ Throw(i, h) /\ UNCHANGED granted
    /\ UNCHANGED <<page, drv, acted, closeAt>>

(* commit at the adapter: the prepared record is bound to the session's     *)
(* generation, to the observation and to the document.                      *)
CommitAccepted(i) ==
    /\ Admits /\ SignalLive(i)
    /\ \E r \in h.prepared :
          /\ r.id = i /\ r.gen = h.gen /\ r.obs = h.obs /\ r.doc = h.doc
          /\ r.step = op[i].step /\ r.step = h.nextStep
          /\ r.seen = op[i].seen /\ r.seen = h.latest

(* The authorization event is written, then the commit is sent in the same  *)
(* turn: the adapter consumes the record and calls the driver.              *)
Authorized(i) ==
    /\ op[i].pc = "authorize" /\ NoHandlerDue
    /\ \/ /\ Current(i) /\ CommitAccepted(i)
          /\ ctl' = [ctl EXCEPT !.commitStarted = TRUE]
          /\ h' = [h EXCEPT !.active = i, !.latest = NoDoc, !.nextStep = @ + 1,
                            !.prepared = {r \in @ : r.id # i}]
          /\ drv' = drv \union {[id |-> i, doc |-> h.doc]}
          /\ op' = [op EXCEPT ![i].pc = "acting", ![i].hgen = h.gen, ![i].commit = "sent"]
          /\ UNCHANGED slot
       \/ /\ Current(i) /\ ~CommitAccepted(i)
          /\ op' = [op EXCEPT ![i] = [Ended(Rejected(@)) EXCEPT !.commit = "sent"]]
          /\ slot' = 0
          /\ ctl' = [AfterSettled(ctl, i) EXCEPT !.commitStarted = TRUE]
          /\ UNCHANGED <<h, drv>>
       \/ Throw(i, h) /\ UNCHANGED drv
    /\ UNCHANGED <<page, acted, granted, closeAt>>

(* The driver performs the input, unless the document has changed under it. *)
DriverPerforms(r) ==
    /\ r \in drv
    /\ drv' = drv \ {r}
    /\ acted' = IF r.doc = page THEN acted \union {r.id} ELSE acted
    /\ UNCHANGED <<ctl, slot, op, h, page, granted, closeAt>>

(* The driver answers, rightly or not; an answer that is no success, or     *)
(* that comes to a handle that moved on, poisons the handle.                *)
DriverAnswered(i) ==
    /\ op[i].pc = "acting" /\ NoHandlerDue
    /\ \/ /\ SignalLive(i) /\ SameGeneration(i)
          /\ \A r \in drv : r.id # i
          /\ op' = [op EXCEPT ![i].pc = "evidence"]
          /\ UNCHANGED <<ctl, slot, h>>
       \/ Throw(i, Poisoned(h))
    /\ UNCHANGED <<page, drv, acted, granted, closeAt>>

EvidenceAnswered(i) ==
    /\ op[i].pc = "evidence" /\ NoHandlerDue
    /\ \/ /\ SignalLive(i) /\ SameGeneration(i)
          /\ op' = [op EXCEPT ![i].pc = "committed"]
          /\ h' = Released(h, i)
          /\ UNCHANGED <<ctl, slot>>
       \/ Throw(i, Poisoned(h))
    /\ UNCHANGED <<page, drv, acted, granted, closeAt>>

(* The controller checks the answer and writes the action event; only then  *)
(* is the commit known to be complete.                                      *)
ActionAudited(i) ==
    /\ op[i].pc = "committed" /\ NoHandlerDue
    /\ \/ /\ Current(i)
          /\ op' = [op EXCEPT ![i] = [Ended(@) EXCEPT !.promise = "done", !.commit = "complete"]]
          /\ slot' = 0
          /\ ctl' = [AfterSettled(ctl, i) EXCEPT !.commitStarted = FALSE]
          /\ UNCHANGED h
       \/ Throw(i, h)
    /\ UNCHANGED <<page, drv, acted, granted, closeAt>>

(* The rejection handler: once a commit was sent, an error of any kind      *)
(* leaves the outcome unknown, so the session is poisoned and closed.       *)
HandleRejection(i) ==
    /\ op[i].promise = "rejected"
    /\ IF ctl.commitStarted
       THEN IF ctl.phase = "open" /\ closeAt.at = "idle"
            THEN /\ BeginClose([ctl EXCEPT !.poisoned = TRUE])
                 /\ op' = [j \in Ops |->
                             IF j = i THEN [op[i] EXCEPT !.promise = "done"]
                             ELSE IF j = slot THEN AbortedOp(j) ELSE op[j]]
            ELSE /\ ctl' = [ctl EXCEPT !.poisoned = TRUE]
                 /\ op' = [op EXCEPT ![i].promise = "done"]
                 /\ UNCHANGED <<slot, h, closeAt>>
       ELSE /\ op' = [op EXCEPT ![i].promise = "done"]
            /\ UNCHANGED <<ctl, slot, h, closeAt>>
    /\ UNCHANGED <<page, drv, acted, granted>>

(* The page navigates: the host issues a new document token.                *)
PageChanges ==
    /\ page < MaxDocs
    /\ page' = page + 1
    /\ UNCHANGED <<ctl, slot, op, h, drv, acted, granted, closeAt>>

----------------------------------------------------------------------------
Answers(i) ==
    \/ AdapterObserve(i) \/ DriverObserved(i) \/ ObservationHashed(i)
    \/ TakeObservation(i) \/ ObservationAudited(i)
    \/ AdapterPrepare(i) \/ ActionHashed(i) \/ CollectChecks(i)
    \/ ApprovalAnswered(i) \/ Authorized(i) \/ DriverAnswered(i)
    \/ EvidenceAnswered(i) \/ ActionAudited(i)

SessionNext ==
    \/ CreateSession \/ SessionAudited \/ PageChanges
    \/ CloseSession \/ Reap \/ CloseProvider \/ ReleaseResources
    \/ CloseConfirmed \/ CloseFailed
    \/ \E i \in Ops :
          \/ Observe(i) \/ AbortOp(i) \/ HandleRejection(i)
          \/ \E high \in BOOLEAN : Execute(i, high)
          \/ Answers(i)
    \/ \E r \in drv : DriverPerforms(r)

SessionSafetySpec == SessionInit /\ [][SessionNext]_sessionVars

(***************************************************************************)
(* Fairness.  A timer ends every operation; a rejection handler runs; a     *)
(* call whose signal was aborted ends (awaitWithSignal rejects on abort);   *)
(* the integrator calls reap, again after a close that failed, and the      *)
(* host's close, which must stop the driver, does not fail for ever.        *)
(***************************************************************************)
SessionFairness ==
    /\ \A i \in Ops :
          /\ WF_sessionVars(AbortOp(i))
          /\ WF_sessionVars(HandleRejection(i))
          /\ WF_sessionVars(~Pending(i) /\ Answers(i))
    /\ WF_sessionVars(SessionAudited)
    /\ WF_sessionVars(Reap)
    /\ WF_sessionVars(CloseProvider)
    /\ WF_sessionVars(ReleaseResources)
    /\ SF_sessionVars(CloseConfirmed)

SessionSpec == SessionSafetySpec /\ SessionFairness

----------------------------------------------------------------------------
(* Properties.                                                              *)

(* Types of the controller's, the operations' and the handle's state.       *)
SessionTypeOK ==
    /\ ctl \in [phase : {"none", "auditing", "open", "closed"}, closing : BOOLEAN,
                poisoned : BOOLEAN, gen : Nat, nextStep : Nat,
                used : SUBSET (1..MaxSteps), latest : Docs \union {NoDoc},
                commitStarted : BOOLEAN]
    /\ slot \in Ops \union {0}
    /\ DOMAIN op = Ops
    /\ \A i \in Ops : op[i].promise \in {"none", "pending", "rejected", "done"}
    /\ slot # 0 => Pending(slot)
    /\ h.active \in Ops \union {0} /\ h.latest \in Docs \union {NoDoc}
    /\ page \in Docs
    /\ drv \in SUBSET [id : Ops, doc : Docs]
    /\ acted \in SUBSET Ops /\ granted \in SUBSET Ops
    /\ closeAt \in [at : {"idle", "waiting", "provider"}, tries : 0..MaxCloses]

(* Input that reached the page and needed a confirmation had every check    *)
(* approved for that very operation: execute of the controller.             *)
ActedOnlyWithApproval == \A i \in acted : op[i].high => i \in granted

(* An input the driver still holds after its caller was told the operation  *)
(* failed belongs to a handle that is shut: the adapter's abort listeners   *)
(* (poisonHandle) leave no moment in which another call could be admitted.  *)
AbandonedInputIsFenced == \A r \in drv : ~Pending(r.id) => h.shutdown

(* Once the caller of an execute whose commit was sent has its error, the   *)
(* controller has poisoned the session: the handler's reading of            *)
(* commitStarted is never undone by a later call.                           *)
UnknownOutcomePoisons ==
    \A i \in Ops : op[i].commit = "sent" /\ op[i].promise = "done" => ctl.poisoned

(* A session reported closed has no input on its way to the page: the       *)
(* adapter answers close only after the driver confirmed its own.           *)
ClosedMeansStopped == ctl.phase = "closed" => drv = {}

(* What the session guarantees at any moment: its input was approved, an    *)
(* abandoned input is fenced off, an unknown outcome has poisoned the       *)
(* session, and a closed one has stopped.                                   *)
SessionInv ==
    /\ SessionTypeOK
    /\ ActedOnlyWithApproval
    /\ AbandonedInputIsFenced
    /\ UnknownOutcomePoisons
    /\ ClosedMeansStopped

(* The commit of an operation is sent only while its caller waits: a late   *)
(* prepare, a late approval or a late audit answer cannot start it.         *)
NoLateCommit == [][\A r \in drv' \ drv : Pending(r.id)]_sessionVars

(* A call the adapter admitted ends, also when its caller left (the finally *)
(* of observe and execute); and a poisoned session is closed in the end,    *)
(* for close keeps a failed attempt as a tombstone that reap takes up.      *)
SessionsEnd ==
    /\ h.active # 0 ~> h.active = 0
    /\ ctl.poisoned ~> ctl.phase = "closed"

(* The documentation of the contract: after success or failure the caller   *)
(* observes again and uses the next step.  The step the controller hands    *)
(* out must then be the one the adapter expects.                            *)
NextStepIsAccepted ==
    \A i \in Ops :
        op[i].pc = "prepare" /\ Current(i) /\ Admits /\ op[i].seen = h.latest
            => op[i].step = h.nextStep
==========================================================================
