--------------------------- MODULE EffectExecution ---------------------------
(***************************************************************************)
(* One executor.execute() call of the driver through a MiddlewareExecutor  *)
(* (middleware.py): timeout and retry layers around a base executor, in    *)
(* one task that may be cancelled from outside, with the effect's progress *)
(* channel.  Layer 1 is the first configured middleware, the outermost.    *)
(*                                                                         *)
(* The effect behind the base executor and the retry policy are the        *)
(* environment, and so is asyncio: Task.cancel() counts requests and has   *)
(* one CancelledError raised at the current await; asyncio.timeout() turns *)
(* it into TimeoutError if no request but its own is left.  The effect     *)
(* re-raises a cancellation, possibly after awaiting in its cleanup.       *)
(***************************************************************************)
EXTENDS Naturals, Sequences, FiniteSets

CONSTANTS
    Chains,          \* middleware configurations: sequences of layers
    MaxAttempts,     \* max_attempts of every retry layer
    MaxCancels,      \* bound: external cancellations
    RetriesTimeouts  \* the retry policies select TimeoutError

ASSUME ExecutionAssumption ==
    /\ Chains \subseteq Seq({"timeout", "retry"})
    /\ MaxAttempts \in Nat \ {0} /\ MaxCancels \in Nat
    /\ RetriesTimeouts \in BOOLEAN

VARIABLES
    chain,       \* the layers of this executor
    pc,          \* "enter" and "leave" layers, "run" the effect, "sleep", "done"
    level,       \* the layer entered, left or sleeping; past the chain is the base
    attempt,     \* attempt[i]: `attempt` of retry layer i
    deadline,    \* deadline[i]: state of the asyncio.timeout of layer i
    baseline,    \* baseline[i]: cancel requests of the task when it was entered
    cancels,     \* cancel requests of the task not undone: Task.cancelling()
    pending,     \* a CancelledError waits to be raised at the current await
    unwinding,   \* the effect has seen a CancelledError and is in its cleanup
    outcome,     \* what is returned or raised through the layers
    latched,     \* the progress channel holds a dispatch error
    external,    \* history: cancellations requested from outside
    executions   \* history: calls of the base executor, counted up to the limit

layerVars == <<attempt, deadline, baseline>>
taskVars  == <<cancels, pending, external>>
vars == <<chain, pc, level, layerVars, taskVars, unwinding, outcome, latched, executions>>

Layers   == 1 .. Len(chain)
Timeouts == {i \in Layers : chain[i] = "timeout"}
Retries  == {i \in Layers : chain[i] = "retry"}

(* What the retry layers allow together: each repeats all that is inside it. *)
MaxExecutions ==
    LET upto[n \in 0 .. Len(chain)] ==
            IF n = 0 THEN 1
            ELSE IF chain[n] = "retry" THEN MaxAttempts * upto[n - 1] ELSE upto[n - 1]
    IN  upto[Len(chain)]

Outcomes == {"value", "selected", "refused", "timeout", "ede", "cancelled", "base"}

Init == /\ chain \in Chains
        /\ pc = "enter"
        /\ level = 1
        /\ attempt = [i \in Layers |-> 0]
        /\ deadline = [i \in Layers |-> "off"]
        /\ baseline = [i \in Layers |-> 0]
        /\ cancels = 0
        /\ pending = FALSE
        /\ unwinding = FALSE
        /\ outcome = "none"
        /\ latched = FALSE
        /\ external = 0
        /\ executions = 0

-----------------------------------------------------------------------------
(* The way in.  Nothing here awaits, so nothing can be cancelled here. *)

EnterTimeout(i) ==
    /\ pc = "enter" /\ level = i /\ i \in Timeouts
    /\ deadline' = [deadline EXCEPT ![i] = "armed"]
    /\ baseline' = [baseline EXCEPT ![i] = cancels]
    /\ level' = i + 1
    /\ UNCHANGED <<chain, pc, attempt, taskVars, unwinding, outcome, latched, executions>>

EnterRetry(i) ==
    /\ pc = "enter" /\ level = i /\ i \in Retries
    /\ attempt' = [attempt EXCEPT ![i] = 1]
    /\ level' = i + 1
    /\ UNCHANGED <<chain, pc, deadline, baseline, taskVars, unwinding, outcome, latched,
                   executions>>

(* call_base. *)
Execute ==
    /\ pc = "enter" /\ level = Len(chain) + 1
    /\ pc' = "run"
    /\ unwinding' = FALSE
    /\ executions' = IF executions > MaxExecutions THEN executions ELSE executions + 1
    /\ UNCHANGED <<chain, level, layerVars, taskVars, outcome, latched>>

-----------------------------------------------------------------------------
(* The effect. *)

EffectEnds(how) ==
    /\ pc' = "leave" /\ level' = Len(chain)
    /\ outcome' = how

(* It returns or raises; once cancelled it can only go on to re-raise that. *)
EffectAnswers ==
    /\ pc = "run" /\ ~ pending /\ ~ unwinding
    /\ \E how \in {"value", "selected", "refused", "base"} : EffectEnds(how)
    /\ UNCHANGED <<chain, layerVars, taskVars, unwinding, latched, executions>>

(* context.progress() cannot dispatch: the EventDispatchError ends the effect,  *)
(* or is caught, wrapped or lost with a child task while the effect goes on.    *)
ProgressFails ==
    /\ pc = "run" /\ ~ pending
    /\ latched' = TRUE
    /\ \/ EffectEnds("ede")
       \/ UNCHANGED <<pc, level, outcome>>
    /\ UNCHANGED <<chain, layerVars, taskVars, unwinding, executions>>

Deliver ==
    /\ pc = "run" /\ pending
    /\ pending' = FALSE
    /\ unwinding' = TRUE
    /\ UNCHANGED <<chain, pc, level, layerVars, cancels, external, outcome, latched, executions>>

CleanupEnds ==
    /\ pc = "run" /\ ~ pending /\ unwinding
    /\ EffectEnds("cancelled")
    /\ UNCHANGED <<chain, layerVars, taskVars, unwinding, latched, executions>>

-----------------------------------------------------------------------------
(* What the event loop does while the task awaits. *)

Awaiting == pc \in {"run", "sleep"}

CancelTask == /\ cancels' = cancels + 1
              /\ pending' = TRUE

Expire(i) ==
    /\ Awaiting /\ deadline[i] = "armed"
    /\ deadline' = [deadline EXCEPT ![i] = "fired"]
    /\ CancelTask
    /\ UNCHANGED <<chain, pc, level, attempt, baseline, external, unwinding, outcome, latched,
                   executions>>

CancelFromOutside ==
    /\ Awaiting /\ external < MaxCancels
    /\ external' = external + 1
    /\ CancelTask
    /\ UNCHANGED <<chain, pc, level, layerVars, unwinding, outcome, latched, executions>>

-----------------------------------------------------------------------------
(* The way out. *)

(* Mutant: a deadline that fired claims any CancelledError. *)
ExpiredUncounted(i) == outcome = "cancelled"

(* Timeout.__aexit__ after its deadline fired: only its own request was left. *)
ExpiredAlone(i) == outcome = "cancelled" /\ cancels - 1 <= baseline[i]

LeaveTimeout(i) ==
    /\ pc = "leave" /\ level = i /\ i \in Timeouts
    /\ level' = i - 1
    /\ IF deadline[i] = "fired"
       THEN /\ cancels' = cancels - 1
            /\ outcome' = IF ExpiredAlone(i) THEN "timeout" ELSE outcome
       ELSE UNCHANGED <<cancels, outcome>>
    /\ deadline' = [deadline EXCEPT ![i] = "off"]
    /\ UNCHANGED <<chain, pc, attempt, baseline, pending, external, unwinding, latched, executions>>

(* Mutant: CancelledError is not excluded from a broad policy. *)
NeverRetriedButCancelled == {"value", "ede", "base"}

(* Mutant: EventDispatchError is not excluded from a broad policy. *)
NeverRetriedButDispatch == {"value", "cancelled", "base"}

(* What does not reach, or is re-raised before, `except Exception`. *)
NeverRetried == {"value", "cancelled", "ede", "base"}

Selected(how) == how # "refused" /\ (how = "timeout" => RetriesTimeouts)

AttemptsLeft(i) == attempt[i] < MaxAttempts

Retriable(i) == /\ pc = "leave" /\ level = i /\ i \in Retries
                /\ outcome \notin NeverRetried
                /\ AttemptsLeft(i)

(* Mutant: the attempt counter is not advanced. *)
TryAgainUncounted(i) ==
    /\ pc' = "enter" /\ level' = i + 1
    /\ outcome' = "none"
    /\ UNCHANGED attempt

TryAgain(i) ==
    /\ pc' = "enter" /\ level' = i + 1
    /\ outcome' = "none"
    /\ attempt' = [attempt EXCEPT ![i] = @ + 1]

LeaveRetry(i) ==
    /\ pc = "leave" /\ level = i /\ i \in Retries
    /\ ~ Retriable(i) \/ ~ Selected(outcome)
    /\ level' = i - 1
    /\ UNCHANGED <<chain, pc, layerVars, taskVars, unwinding, outcome, latched, executions>>

(* The predicate or the delay strategy raises, or the delay is negative. *)
PolicyRaises(i) ==
    /\ Retriable(i)
    /\ outcome' \in {"selected", "refused"}
    /\ level' = i - 1
    /\ UNCHANGED <<chain, pc, layerVars, taskVars, unwinding, latched, executions>>

RetryNow(i) ==
    /\ Retriable(i) /\ Selected(outcome)
    /\ TryAgain(i)
    /\ UNCHANGED <<chain, deadline, baseline, taskVars, unwinding, latched, executions>>

RetryLater(i) ==
    /\ Retriable(i) /\ Selected(outcome)
    /\ pc' = "sleep"
    /\ UNCHANGED <<chain, level, layerVars, taskVars, unwinding, outcome, latched, executions>>

Wake ==
    /\ pc = "sleep" /\ ~ pending
    /\ TryAgain(level)
    /\ UNCHANGED <<chain, deadline, baseline, taskVars, unwinding, latched, executions>>

(* The CancelledError leaves the sleep, and the retry layer with it. *)
SleepCancelled ==
    /\ pc = "sleep" /\ pending
    /\ pending' = FALSE
    /\ pc' = "leave" /\ level' = level - 1
    /\ outcome' = "cancelled"
    /\ UNCHANGED <<chain, layerVars, cancels, external, unwinding, latched, executions>>

Finish ==
    /\ pc = "leave" /\ level = 0
    /\ pc' = "done"
    /\ UNCHANGED <<chain, level, layerVars, taskVars, unwinding, outcome, latched, executions>>

-----------------------------------------------------------------------------
LayerStep(i) == \/ EnterTimeout(i) \/ EnterRetry(i)
                \/ LeaveTimeout(i) \/ LeaveRetry(i)
                \/ PolicyRaises(i) \/ RetryNow(i) \/ RetryLater(i)

TaskStep == \/ \E i \in Layers : LayerStep(i)
            \/ Execute
            \/ Deliver
            \/ CleanupEnds
            \/ Wake
            \/ SleepCancelled
            \/ Finish

Next == \/ TaskStep
        \/ EffectAnswers
        \/ ProgressFails
        \/ \E i \in Layers : Expire(i)
        \/ CancelFromOutside

(* The loop runs the task and its timers, a cleanup ends; the effect itself    *)
(* may hang.                                                                    *)
Fairness == /\ WF_vars(TaskStep)
            /\ WF_vars(\E i \in Layers : Expire(i))

Spec == Init /\ [][Next]_vars /\ Fairness

-----------------------------------------------------------------------------
(* Properties. *)

(* A cancellation requested from outside is what execute() ends with, whatever  *)
(* deadlines fired before the task woke: it is never a TimeoutError, a result   *)
(* or a retry's result.  Only a progress failure during the cleanup replaces it.*)
CancellationWins == pc = "done" /\ external > 0 => outcome \in {"cancelled", "ede"}

(* Once the task is cancelled, or a deadline around a retry layer has fired,    *)
(* that layer does not run the effect again.                                    *)
Stopped(i) == external > 0 \/ \E j \in Timeouts : j < i /\ deadline[j] = "fired"
NoRetryOnceStopped ==
    [][\A i \in Retries : Stopped(i) => attempt'[i] = attempt[i]]_vars

(* An EventDispatchError that reached the layers is what execute() ends with:   *)
(* no broad retry policy runs the effect again and no deadline that fired       *)
(* meanwhile, nor a cancellation, takes its place (docs/middleware.md:15-16).   *)
DispatchErrorIsFinal ==
    [][outcome = "ede" => outcome' = "ede" /\ executions' = executions]_vars

(* What docs/middleware.md:15-16 and adr/0004 promise without that condition:   *)
(* once an event of the effect could not be dispatched, its side effects are    *)
(* not repeated.                                                                *)
NoExecutionAfterDispatchFailure == [][latched => executions' = executions]_vars

(* With a timeout among the layers, execute() ends although the effect hangs:   *)
(* attempts are bounded, and a deadline outside the retries ends them all.  The *)
(* effect never runs more often than the retry layers allow together.           *)
ExecutionEnds ==
    /\ [](executions <= MaxExecutions)
    /\ Timeouts # {} ~> pc = "done"
=============================================================================
