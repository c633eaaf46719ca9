---------------------------- MODULE ActionRun ----------------------------
(***************************************************************************)
(* Running actions (packages/action-runtime/src: recipe.mjs, executor.mjs, *)
(* node-office.mjs, node-regex.mjs): a recipe of steps, or one direct      *)
(* call, under a caller's signal, the recipe's timer and the timer of the  *)
(* step.  A handler runs in a worker thread of its own, used once, or in   *)
(* the process; a handler in the process may go on after its caller left.  *)
(* Every action is one turn of the event loop with the promise callbacks   *)
(* that follow from it.                                                    *)
(***************************************************************************)
EXTENDS Integers, Sequences, FiniteSets, SequencesExt

CONSTANTS RunJobs,            \* recipes and direct calls that may be run
          MaxIntermediate, \* ACTION_RECIPE_LIMITS.intermediateBytes
          MaxSteps         \* ACTION_RECIPE_LIMITS.steps

ASSUME RunLimits == MaxIntermediate \in Nat /\ MaxSteps \in Nat

VARIABLES
    job,      \* the recipe, or the direct call as a job of one step
    run,      \* how far runActionRecipe is
    call,     \* guardedCall of the step: pending or settled, and whether the handler was told
    worker,   \* the step's handler: "none", "alive" (worker), "local", "ending"
    caller    \* the caller's signal
runVars == <<job, run, call, worker, caller>>

NoCall == [settled |-> TRUE, told |-> FALSE]
RunInit ==
    /\ job \in RunJobs
    /\ run = [pc |-> "new", bytes |-> 0, receipts |-> <<>>, code |-> "none", timedOut |-> FALSE]
    /\ call = NoCall /\ worker = "none"
    /\ caller \in {"live", "aborted"}

(* A descriptor a recipe may use: read-only, closed, asking for nothing.    *)
Eligible(d) == d.harmless /\ ~d.confirm /\ d.permissions = {} /\ d.mode # "ui-only"

Ids(steps) == {steps[i].id : i \in DOMAIN steps}

(* validateRecipe: step ids are new, references go to completed steps only, *)
(* every action is known by its own name and eligible.                      *)
NoForwardReference(steps, i) == steps[i].refs \subseteq Ids(SubSeq(steps, 1, i - 1))

RecipeRefused(r) ==
    \/ Len(r.steps) = 0 \/ Len(r.steps) > MaxSteps
    \/ \E i \in DOMAIN r.steps :
           \/ r.steps[i].id \in Ids(SubSeq(r.steps, 1, i - 1))
           \/ r.steps[i].alias
           \/ ~Eligible(r.steps[i].action)
           \/ ~NoForwardReference(r.steps, i)
    \/ ~(r.outRefs \subseteq Ids(r.steps))

Failed(code) == run' = [run EXCEPT !.pc = "failed", !.code = code]

Start ==
    /\ run.pc = "new"
    /\ IF job.recipe /\ RecipeRefused(job) THEN Failed("refused")
       ELSE run' = [run EXCEPT !.pc = "between", !.bytes = job.inputBytes]
    /\ UNCHANGED <<job, call, worker, caller>>

----------------------------------------------------------------------------
Step == job.steps[Len(run.receipts) + 1]

(* execute: the checks in their order, before the handler is called.        *)
Refusal(step) ==
    LET d == step.action IN
    IF d.mode = "ui-only" THEN "NOT_HEADLESS"
    ELSE IF d.confirm /\ ~job.confirmed THEN "CONFIRMATION_REQUIRED"
    ELSE IF ~(d.permissions \subseteq job.granted) THEN "PERMISSION_DENIED"
    ELSE IF step.input = "too large" THEN "INPUT_TOO_LARGE"
    ELSE IF step.input = "invalid" THEN "INPUT_INVALID"
    ELSE "none"

(* The loop's head: the signal, the expanded input and its budget, the      *)
(* executor's checks; then the handler is called, or a worker fails to start*)
StepStarts ==
    /\ run.pc = "between" /\ Len(run.receipts) < Len(job.steps)
    /\ LET spent == run.bytes + Step.bytes IN
       IF job.recipe /\ caller = "aborted" THEN Failed("CANCELLED") /\ UNCHANGED <<call, worker>>
       ELSE IF job.recipe /\ spent > MaxIntermediate
            THEN Failed("INTERMEDIATE_TOO_LARGE") /\ UNCHANGED <<call, worker>>
       ELSE IF Refusal(Step) # "none" THEN Failed(Refusal(Step)) /\ UNCHANGED <<call, worker>>
       ELSE IF caller = "aborted" THEN Failed("CANCELLED") /\ UNCHANGED <<call, worker>>
       ELSE \/ /\ run' = [run EXCEPT !.pc = "waiting", !.bytes = spent]
               /\ call' = [settled |-> FALSE, told |-> FALSE]
               /\ worker' = IF Step.action.worker THEN "alive" ELSE "local"
            \/ Step.action.worker /\ Failed("ACTION_FAILED") /\ UNCHANGED <<call, worker>>
    /\ UNCHANGED <<job, caller>>

(* settle: once; the guard's signal reaches the handler, and a worker is    *)
(* terminated when it is told or has answered.                              *)
(* Faulty variant: the handler's signal is not wired to the guard's.        *)
NotTold == worker' = worker
Told == worker' = IF worker = "alive" THEN "ending" ELSE worker

Settles(code) ==
    /\ call' = [settled |-> TRUE, told |-> TRUE]
    /\ Told
    /\ Failed(code)

(* Outcomes of the handler, if its call still waits: an output, which the   *)
(* executor checks and the recipe adds to its budget, or an error.          *)
OutputCode(bytes) ==
    IF Step.output = "too large" THEN "OUTPUT_TOO_LARGE"
    ELSE IF Step.output = "invalid" THEN "OUTPUT_INVALID"
    ELSE IF job.recipe /\ run.bytes + bytes > MaxIntermediate THEN "INTERMEDIATE_TOO_LARGE"
    ELSE "none"

HandlerAnswers ==
    /\ worker \in {"alive", "local"} /\ ~call.settled
    /\ call' = [call EXCEPT !.settled = TRUE]
    /\ worker' = IF worker = "alive" THEN "ending" ELSE "none"
    /\ \E bytes \in Step.outputs :
           IF OutputCode(bytes) # "none" THEN Failed(OutputCode(bytes))
           ELSE run' = [run EXCEPT !.pc = "between", !.bytes = @ + bytes,
                                   !.receipts = Append(@, [id |-> Step.id, input |-> Step.bytes,
                                                           output |-> bytes])]
    /\ UNCHANGED <<job, caller>>

HandlerFails(code) ==
    /\ worker \in {"alive", "local"} /\ ~call.settled
    /\ call' = [call EXCEPT !.settled = TRUE]
    /\ worker' = IF worker = "alive" THEN "ending" ELSE "none"
    /\ Failed(code)
    /\ UNCHANGED <<job, caller>>

(* A handler whose call is settled: a local one answers to nobody, a worker *)
(* that was terminated is gone; a message it had sent is not looked at.     *)
HandlerLeaves ==
    /\ worker = "ending" \/ (worker = "local" /\ call.settled)
    /\ worker' = "none"
    /\ UNCHANGED <<job, run, call, caller>>

StepTimer ==
    /\ run.pc = "waiting"
    /\ Settles("TIMEOUT")
    /\ UNCHANGED <<job, caller>>

RecipeTimer ==
    /\ run.pc = "waiting" /\ job.recipe
    /\ call' = [settled |-> TRUE, told |-> TRUE]
    /\ Told
    /\ run' = [run EXCEPT !.pc = "failed", !.timedOut = TRUE, !.code = "TIMEOUT"]
    /\ UNCHANGED <<job, caller>>

CallerAborts ==
    /\ caller = "live"
    /\ caller' = "aborted"
    /\ IF run.pc = "waiting" THEN Settles("CANCELLED") ELSE UNCHANGED <<run, call, worker>>
    /\ UNCHANGED job

RecipeDone ==
    /\ run.pc = "between" /\ Len(run.receipts) = Len(job.steps)
    /\ IF job.recipe /\ run.bytes + job.outBytes > MaxIntermediate
       THEN Failed("INTERMEDIATE_TOO_LARGE")
       ELSE run' = [run EXCEPT !.pc = "done", !.bytes = @ + job.outBytes]
    /\ UNCHANGED <<job, call, worker, caller>>

RunNext ==
    \/ Start \/ StepStarts \/ HandlerAnswers \/ HandlerLeaves
    \/ \E code \in {"ACTION_FAILED", "INPUT_INVALID", "OUTPUT_TOO_LARGE"} : HandlerFails(code)
    \/ StepTimer \/ RecipeTimer \/ CallerAborts \/ RecipeDone

(* Code runs when it can, timers fire, a terminated worker exits and a      *)
(* promise in the process settles; that a handler answers is not assumed.   *)
RunFairness == WF_runVars(Start \/ StepStarts \/ RecipeDone) /\ WF_runVars(StepTimer)
               /\ WF_runVars(HandlerLeaves)

----------------------------------------------------------------------------
Charged ==
    job.inputBytes + FoldLeft(LAMBDA sum, r : sum + r.input + r.output, 0, run.receipts)

(* A recipe's answer is complete, in order and within its budget: one       *)
(* receipt for each step, bytes that add up, nothing the executor refuses   *)
(* for consent, and no reference that was not there when its step ran.      *)
AnswerAddsUp ==
    /\ \A i \in DOMAIN run.receipts : run.receipts[i].id = job.steps[i].id
    /\ run.pc = "done" => /\ Len(run.receipts) = Len(job.steps)
                          /\ run.bytes = Charged + job.outBytes
    /\ job.recipe => run.code \notin {"NOT_HEADLESS", "CONFIRMATION_REQUIRED", "PERMISSION_DENIED"}
    /\ job.recipe /\ run.pc # "failed" => run.bytes <= MaxIntermediate
    /\ job.recipe /\ run.pc = "waiting" => Step.refs \subseteq {r.id : r \in Range(run.receipts)}

(* A handler runs only with all it needs granted, and once its caller has   *)
(* an answer no worker of the run goes on computing.                        *)
NoStrayHandler ==
    /\ worker = "alive" => run.pc = "waiting" /\ ~call.settled
    /\ run.pc = "waiting" => /\ Step.action.permissions \subseteq job.granted
                             /\ Step.action.confirm => job.confirmed
                             /\ Step.input = "valid"

(* The reason is the true one: CANCELLED only if the caller had aborted,    *)
(* TIMEOUT never for a caller that had.                                     *)
TrueReason ==
    /\ run.code = "CANCELLED" => caller = "aborted" /\ ~run.timedOut
    /\ caller = "aborted" => run.pc # "waiting"

(* Whatever its handlers do, a run ends, and its workers go away.           *)
RunsEnd == (run.pc = "new" ~> run.pc \in {"done", "failed"})
           /\ (worker = "alive" ~> worker = "none")
ActionRunSafe == [](AnswerAddsUp /\ NoStrayHandler /\ TrueReason) /\ RunsEnd
=============================================================================
