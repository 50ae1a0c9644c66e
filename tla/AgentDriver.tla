----------------------------- MODULE AgentDriver -----------------------------
(***************************************************************************)
(* One call of AgentDriver.run (driver.py) with the GeneratorRun it        *)
(* advances (run.py) and the progress channels it hands to effects.        *)
(*                                                                         *)
(* The agent's flow, the executor, the event sink and the clock, monotonic *)
(* and id services are the environment: each call of one of them returns   *)
(* normally or raises.  What they may raise is one of                      *)
(*    "exc"     an ordinary Exception,                                     *)
(*    "ede"     an EventDispatchError,                                     *)
(*    "cancel"  asyncio.CancelledError,                                    *)
(*    "base"    another BaseException.                                     *)
(* An action is the code between two such calls.  Only the await of        *)
(* execute() lets other coroutines of the loop run, so they report         *)
(* progress there; worker threads (sync_policy="thread" tools) report at   *)
(* any time, which is ThreadNext.                                          *)
(***************************************************************************)
EXTENDS Naturals

CONSTANTS
    MaxSteps,       \* bound: how many effects the agent yields at most
    SinkFaults,     \* what event_sink.emit() may raise
    ServiceFaults,  \* what clock(), monotonic() and id_factory() may raise
    FlowFaults,     \* what the agent's own code may raise when advanced
    ExecFaults,     \* what executor.execute() may raise
    CloseFaults     \* what AgentRun.close() may raise

Faults == {"exc", "ede", "cancel", "base"}

ASSUME MaxStepsAssumption == MaxSteps \in Nat \ {0}
ASSUME FaultsAssumption ==
    /\ SinkFaults \subseteq Faults
    /\ ServiceFaults \subseteq Faults
    /\ FlowFaults \subseteq Faults
    /\ ExecFaults \subseteq Faults
    /\ CloseFaults \subseteq Faults

VARIABLES
    pc,          \* the next call the driver makes
    gen,         \* GeneratorRun._state
    state,       \* the RunState the last advancement returned
    step,        \* step_index
    active,      \* active[k]: the progress channel of effect k accepts reports
    result,      \* what the last execute() did: returned a value or raised
    latched,     \* latched[k]: the channel of effect k holds a dispatch_error
    delivered,   \* delivered[k]: what the agent received as the result of effect k
    err,         \* the exception being propagated
    primary,     \* history: the exception that stopped the run
    outcome,     \* what run() did: nothing yet, returned, or raised
    closes,      \* history: calls of agent_run.close()
    last,        \* the last event offered to the sink
    checked      \* effects a worker thread is about to report on, checks passed

driverVars  == <<pc, step, err, primary, outcome>>
runVars     == <<gen, state, closes>>
channelVars == <<active, latched>>
vars == <<driverVars, result, runVars, channelVars, delivered, last, checked>>

Steps == 0 .. MaxSteps - 1

ES == INSTANCE EventStream

Answers == {"ok"} \cup SinkFaults

-----------------------------------------------------------------------------
(* Init: run() has been called with a flow nobody has advanced. *)
Init == /\ pc = "preflight"
        /\ gen = "CREATED"
        /\ state = "none"
        /\ step = 0
        /\ active = [k \in Steps |-> FALSE]
        /\ latched = [k \in Steps |-> FALSE]
        /\ delivered = [k \in Steps |-> "none"]
        /\ result = "none"
        /\ err = "none"
        /\ primary = "none"
        /\ outcome = "running"
        /\ closes = 0
        /\ last = ES!NoEvent
        /\ checked = {}

-----------------------------------------------------------------------------
(* How the pieces of run() act on the state. *)

(* What the caller of _emit sees when the sink gave this answer. *)
Raised(answer) == IF answer = "exc" THEN "ede" ELSE answer

(* The sink receives an event and answers; run events carry no step index. *)
Offer(kind, answer) ==
    last' = [kind |-> kind,
             step |-> IF kind \in ES!RunEvents THEN 0 ELSE step,
             sink |-> answer]

(* Mutant: the EventDispatchError clause is missing, `except Exception` takes it. *)
HandlerWithoutDispatchClause(e) ==
    CASE e = "cancel"         -> "cancelled"
      [] e \in {"ede", "exc"} -> "failed"
      [] e = "base"           -> "aborted"

(* An exception leaves the body of run() and selects one except clause. *)
Handler(e) == CASE e = "cancel" -> "cancelled"
                [] e = "ede"    -> "undelivered"
                [] e = "exc"    -> "failed"
                [] e = "base"   -> "aborted"

UnwindAfter(stopping, e) == /\ pc' = Handler(e)
                            /\ err' = e
                            /\ primary' = stopping
                            /\ UNCHANGED <<step, outcome>>

Unwind(e) == UnwindAfter(e, e)

Continue(where) == pc' = where /\ UNCHANGED <<step, err, primary, outcome>>

(* run() raises e to its caller. *)
Raise(e) == /\ pc' = "done"
            /\ outcome' = e
            /\ err' = e
            /\ UNCHANGED step

(* Mutant: the except clause around close() is missing. *)
ClosedReplacing(closeError, primaryError) ==
    IF closeError = "ok" THEN primaryError ELSE closeError

(* close_preserving(primary_error): what close() raises becomes a note. *)
Closed(closeError, primaryError) == primaryError

(* GeneratorRun.close(): a returned or closed generator stays as it is. *)
GeneratorClose ==
    /\ gen' = IF gen \in {"CLOSED", "RETURNED"} THEN gen ELSE "CLOSED"
    /\ closes' = closes + 1
    /\ UNCHANGED state

CloseAnswers == {"ok"} \cup CloseFaults

(* Emit an event, then go on at `where`, or unwind with what the services that *)
(* build the event or the sink raise.                                          *)
EmitThen(kind, where) ==
    \/ /\ \E f \in ServiceFaults : Unwind(f)
       /\ UNCHANGED last
    \/ \E answer \in Answers :
          /\ Offer(kind, answer)
          /\ IF answer = "ok" THEN Continue(where) ELSE Unwind(Raised(answer))

-----------------------------------------------------------------------------
(* The body of run(). *)

(* id_factory(), dict(metadata) and monotonic() before the first event. *)
Preflight ==
    /\ pc = "preflight"
    /\ \/ Continue("announce") /\ UNCHANGED runVars
       \/ \E f \in ServiceFaults, c \in CloseAnswers :
             /\ Raise(Closed(c, f)) /\ primary' = f
             /\ GeneratorClose
    /\ UNCHANGED <<channelVars, delivered, last, checked, result>>

EmitRunStarted ==
    /\ pc = "announce"
    /\ EmitThen("RunStarted", "start")
    /\ UNCHANGED <<runVars, channelVars, delivered, checked, result>>

GeneratorState(reached) == IF reached = "returned" THEN "RETURNED" ELSE "RUNNING"

(* GeneratorRun._advance and _require_state: the flow runs to its next yield,  *)
(* returns or raises.  "unsupported" is a custom AgentRun breaking the         *)
(* protocol.  `next` is the step index of an effect yielded now.               *)
Advance(expected, next) ==
    IF gen # expected
    THEN Unwind("exc") /\ UNCHANGED <<gen, state>>
    ELSE \/ \E reached \in {"yielded", "returned", "unsupported"} :
               /\ reached = "yielded" => next < MaxSteps
               /\ state' = reached
               /\ gen' = GeneratorState(reached)
               /\ pc' = "dispatch" /\ step' = next
               /\ UNCHANGED <<err, primary, outcome>>
         \/ /\ gen' = "CLOSED" /\ UNCHANGED state
            /\ \E f \in FlowFaults : Unwind(f)

Start ==
    /\ pc = "start"
    /\ Advance("CREATED", 0)
    /\ UNCHANGED <<closes, channelVars, delivered, last, checked, result>>

EmitRunSucceeded ==
    /\ pc = "dispatch" /\ state = "returned"
    /\ \/ \E f \in ServiceFaults : Unwind(f) /\ UNCHANGED last
       \/ \E answer \in Answers :
             /\ Offer("RunSucceeded", answer)
             /\ IF answer = "ok"
                THEN /\ pc' = "done" /\ outcome' = "returned"
                     /\ UNCHANGED <<step, err, primary>>
                ELSE Unwind(Raised(answer))
    /\ UNCHANGED <<runVars, channelVars, delivered, checked, result>>

(* _require_yielded: TypeError. *)
RejectState ==
    /\ pc = "dispatch" /\ state = "unsupported"
    /\ Unwind("exc")
    /\ UNCHANGED <<runVars, channelVars, delivered, last, checked, result>>

(* Announce the effect, then make its progress channel and call execute(). *)
EmitEffectStarted ==
    /\ pc = "dispatch" /\ state = "yielded"
    /\ EmitThen("EffectStarted", "execute")
    /\ active' = [active EXCEPT ![step] = (pc' = "execute")]
    /\ UNCHANGED <<runVars, latched, delivered, checked, result>>

(* Mutant: report_progress does not look at `active`. *)
AcceptsLate(k) == ~ latched[k]

Accepts(k) == active[k] /\ ~ latched[k]

(* The rest of report_progress: build the event, offer it, latch a dispatch    *)
(* error.  Another fault of the clock raises in the caller and changes nothing.*)
OfferProgress(k) ==
    \/ /\ \E answer \in Answers :
             /\ last' = [kind |-> "EffectProgress", step |-> k, sink |-> answer]
             /\ latched' = [latched EXCEPT ![k] = @ \/ Raised(answer) = "ede"]
    \/ /\ "ede" \in ServiceFaults
       /\ latched' = [latched EXCEPT ![k] = TRUE]
       /\ UNCHANGED last

(* report_progress called in the event loop, by the effect or by a coroutine   *)
(* that kept an earlier context; a call that is not accepted raises and        *)
(* changes nothing.                                                            *)
Report(k) ==
    /\ pc = "execute"
    /\ Accepts(k)
    /\ OfferProgress(k)
    /\ UNCHANGED <<driverVars, runVars, active, delivered, checked, result>>

CloseChannel(k) == active' = [active EXCEPT ![k] = FALSE]

(* Mutant: the latch is not read. *)
FinishedUnlatched(k, executed) == executed

(* finish_progress(): a latched dispatch error replaces whatever execute() did. *)
Finished(k, executed) == IF latched[k] THEN "ede" ELSE executed

(* History: what stops the run here.  A cancellation or exit raised by execute() *)
(* would have, whatever finish_progress() then puts in its place; an ordinary     *)
(* exception would have been the agent's to handle.                               *)
Stopping(k, executed) ==
    IF executed \in {"cancel", "base"} THEN executed ELSE Finished(k, executed)

(* execute() returns or raises, the channel closes, the result is classified.  *)
(* A value means the effect is over: asyncio.to_thread returns after its       *)
(* thread.  Only an exception (a cancellation, a timeout) leaves one behind.   *)
ExecuteEnds ==
    /\ pc = "execute"
    /\ CloseChannel(step)
    /\ result' \in {"value"} \cup ExecFaults
    /\ result' = "value" => step \notin checked
    /\ CASE Finished(step, result') = "value" -> Continue("succeeded")
         [] Finished(step, result') = "exc"   -> Continue("errored")
         [] OTHER -> UnwindAfter(Stopping(step, result'), Finished(step, result'))
    /\ UNCHANGED <<runVars, latched, delivered, last, checked>>

EmitEffectSucceeded ==
    /\ pc = "succeeded"
    /\ EmitThen("EffectSucceeded", "send")
    /\ UNCHANGED <<runVars, channelVars, delivered, checked, result>>

EmitEffectFailed ==
    /\ pc = "errored"
    /\ EmitThen("EffectFailed", "throw")
    /\ UNCHANGED <<runVars, channelVars, delivered, checked, result>>

(* agent_run.send(value) and agent_run.throw(error). *)
Resume ==
    /\ pc \in {"send", "throw"}
    /\ Advance("RUNNING", step + 1)
    /\ delivered' = [delivered EXCEPT ![step] = IF pc = "send" THEN "value" ELSE "error"]
    /\ UNCHANGED <<closes, channelVars, last, checked, result>>

-----------------------------------------------------------------------------
(* The except clauses of run(). *)

(* CancelledError: the run is closed before anything is emitted. *)
CloseCancelled ==
    /\ pc = "cancelled"
    /\ \E c \in CloseAnswers : err' = Closed(c, err)
    /\ pc' = "announceCancelled"
    /\ GeneratorClose
    /\ UNCHANGED <<step, primary, outcome, channelVars, delivered, last, checked, result>>

(* An EventDispatchError is only attached to the cancellation, be it the sink's *)
(* or one that clock() or monotonic() raised.                                   *)
CancelledOr(answer) == IF answer \in {"ok", "ede"} THEN err ELSE answer

EmitRunCancelled ==
    /\ pc = "announceCancelled"
    /\ \/ \E f \in ServiceFaults : Raise(CancelledOr(f)) /\ UNCHANGED last
       \/ \E answer \in Answers :
             /\ Offer("RunCancelled", answer)
             /\ Raise(CancelledOr(Raised(answer)))
    /\ UNCHANGED <<primary, runVars, channelVars, delivered, checked, result>>

(* EventDispatchError, and BaseException: close and re-raise, no event. *)
CloseSilently ==
    /\ pc \in {"undelivered", "aborted"}
    /\ \E c \in CloseAnswers : Raise(Closed(c, err))
    /\ GeneratorClose
    /\ UNCHANGED <<primary, channelVars, delivered, last, checked, result>>

(* Mutant: close() is not in a finally block. *)
EmitRunFailedUnprotected ==
    /\ pc = "failed"
    /\ \E answer \in Answers :
          /\ Offer("RunFailed", answer)
          /\ IF answer = "ok" THEN pc' = "closeFailed" /\ UNCHANGED <<step, err, outcome>>
                              ELSE Raise(Raised(answer))
    /\ UNCHANGED <<primary, runVars, channelVars, delivered, checked, result>>

(* Exception: RunFailed first; a failing emit() replaces the exception... *)
EmitRunFailed ==
    /\ pc = "failed"
    /\ pc' = "closeFailed"
    /\ \/ \E f \in ServiceFaults : err' = f /\ UNCHANGED last
       \/ \E answer \in Answers :
             /\ Offer("RunFailed", answer)
             /\ err' = IF answer = "ok" THEN err ELSE Raised(answer)
    /\ UNCHANGED <<step, primary, outcome, runVars, channelVars, delivered, checked, result>>

(* ... but the run is closed either way (finally). *)
CloseFailed ==
    /\ pc = "closeFailed"
    /\ \E c \in CloseAnswers : Raise(Closed(c, err))
    /\ GeneratorClose
    /\ UNCHANGED <<primary, channelVars, delivered, last, checked, result>>

-----------------------------------------------------------------------------
(* Worker threads: report_progress is not atomic there.  A thread that passed  *)
(* both checks offers its event whenever it gets to run, whatever the loop     *)
(* did in between.  At most one thread per effect is in that position.         *)
ThreadCheck(k) ==
    /\ Accepts(k) /\ k \notin checked
    /\ checked' = checked \cup {k}
    /\ UNCHANGED <<driverVars, runVars, channelVars, delivered, last, result>>

ThreadEmit(k) ==
    /\ k \in checked
    /\ checked' = checked \ {k}
    /\ OfferProgress(k)
    /\ UNCHANGED <<driverVars, runVars, active, delivered, result>>

ThreadNext == \E k \in Steps : ThreadCheck(k) \/ ThreadEmit(k)

DriverStep == \/ Preflight
              \/ EmitRunStarted
              \/ Start
              \/ EmitRunSucceeded
              \/ RejectState
              \/ EmitEffectStarted
              \/ ExecuteEnds
              \/ EmitEffectSucceeded
              \/ EmitEffectFailed
              \/ Resume
              \/ CloseCancelled
              \/ EmitRunCancelled
              \/ CloseSilently
              \/ EmitRunFailed
              \/ CloseFailed

Next == DriverStep \/ \E k \in Steps : Report(k)

(* The loop runs the task, and every execute() ends: an effect that never       *)
(* returns is not the driver's to finish.                                       *)
Fairness == WF_vars(DriverStep)

Spec == Init /\ [][Next]_vars /\ Fairness

ThreadedSpec == Init /\ [][Next \/ ThreadNext]_vars /\ Fairness

-----------------------------------------------------------------------------
(* Properties.                                                              *)

Pcs == {"preflight", "announce", "start", "dispatch", "execute", "succeeded",
        "errored", "send", "throw", "cancelled", "announceCancelled",
        "undelivered", "aborted", "failed", "closeFailed", "done"}

(* Every variable keeps its range. *)
TypeOK ==
    /\ pc \in Pcs
    /\ gen \in {"CREATED", "RUNNING", "RETURNED", "CLOSED"}
    /\ state \in {"none", "yielded", "returned", "unsupported"}
    /\ step \in 0 .. MaxSteps
    /\ active \in [Steps -> BOOLEAN]
    /\ latched \in [Steps -> BOOLEAN]
    /\ delivered \in [Steps -> {"none", "value", "error"}]
    /\ result \in Faults \cup {"none", "value"}
    /\ err \in Faults \cup {"none"}
    /\ primary \in Faults \cup {"none"}
    /\ outcome \in Faults \cup {"running", "returned"}
    /\ closes \in Nat
    /\ last \in ES!Events
    /\ checked \subseteq Steps

(* The agent never receives a result for an effect whose progress could not be  *)
(* delivered: not when the effect swallowed the EventDispatchError, not when it *)
(* raised something else after it, and not when a coroutine that kept the       *)
(* context of an earlier effect reports later (driver.py, the latch).           *)
ResultsAreObserved == \A k \in Steps : delivered[k] # "none" => ~ latched[k]

(* The driver never makes a call the linear lifecycle of GeneratorRun refuses,  *)
(* so no InvalidRunStateError replaces the outcome of a run nobody else drives. *)
LinearLifecycle ==
    /\ pc = "start" => gen = "CREATED"
    /\ pc \in {"send", "throw"} => gen = "RUNNING"
    /\ pc = "dispatch" => gen = (IF state = "returned" THEN "RETURNED" ELSE "RUNNING")

(* Every abnormal exit closes the run exactly once, at whatever call it starts, *)
(* and leaves no generator suspended; a normal return never closes.             *)
ClosedOnAbnormalExit ==
    pc = "done" =>
        /\ closes = (IF outcome = "returned" THEN 0 ELSE 1)
        /\ gen \in {"RETURNED", "CLOSED"}
        /\ outcome = "returned" => gen = "RETURNED"

(* What the observer was last told is what the caller got: a delivered          *)
(* RunSucceeded means run() returned, RunFailed that it raised the ordinary     *)
(* exception, RunCancelled that it raised CancelledError; and a return is       *)
(* always announced.                                                            *)
ObserverAgreesWithCaller ==
    pc = "done" =>
        /\ last.sink = "ok" =>
              /\ last.kind = "RunSucceeded" <=> outcome = "returned"
              /\ last.kind = "RunFailed" => outcome = "exc"
              /\ last.kind = "RunCancelled" => outcome = "cancel"
        /\ outcome = "returned" => last.kind = "RunSucceeded" /\ last.sink = "ok"

(* The exception that stopped the run is what the caller sees, whatever close() *)
(* raises, but for three replacements: a failure to announce RunFailed replaces *)
(* the ordinary exception; a failure to announce RunCancelled other than an     *)
(* EventDispatchError replaces the cancellation; and the EventDispatchError     *)
(* latched in the channel of the effect that was executing replaces the         *)
(* cancellation or exit that ended this execute() (finish_progress first).      *)
PrimaryErrorSurvives ==
    pc = "done" /\ outcome # "returned" =>
        \/ outcome = primary
        \/ primary = "exc" /\ outcome \in {Raised(f) : f \in SinkFaults} \cup ServiceFaults
        \/ primary = "cancel" /\ outcome \in (SinkFaults \ {"exc", "ede"})
                                             \cup (ServiceFaults \ {"ede"})
        \/ primary \in {"cancel", "base"} /\ primary = result
              /\ outcome = "ede" /\ latched[step]

(* No lost event replaces a cancellation, RunCancelled itself or any before it: *)
(* adr/0004-executor-and-context.md:17-19, "the cancellation stays the primary  *)
(* exception", next to the sentence on latched progress failures.               *)
CancellationStaysPrimary == pc = "done" /\ primary = "cancel" => outcome # "ede"

(* A progress channel is open only while its own effect executes.               *)
ChannelsCloseWithEffect ==
    \A k \in Steps : active[k] => pc = "execute" /\ k = step

Undelivered == last.sink \in {"exc", "ede"}

(* Once an emit() failed, nothing more is offered to the sink in this run,      *)
(* neither by the driver nor through a kept progress callback.                  *)
SilentAfterDispatchFailure == [][Undelivered => UNCHANGED last]_vars

(* After an effect has returned, failed or been cancelled, no progress event of *)
(* it is appended to the stream, by a thread that kept its context either.      *)
NoLateProgress ==
    [][last' # last /\ last'.kind = "EffectProgress" =>
          last.kind \in ES!InEffect /\ last.step = last'.step]_vars

(* The events of a run are those EventStream allows.                            *)
EventOrder == ES!Spec

=============================================================================
