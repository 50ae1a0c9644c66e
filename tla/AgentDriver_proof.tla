-------------------------- MODULE AgentDriver_proof --------------------------
(***************************************************************************)
(* Proofs about AgentDriver, for every value of its constants.             *)
(*                                                                         *)
(* ControlInv holds with worker threads too: it is about the variables     *)
(* that only the driver's task writes.  StreamInv and ResultInv add what   *)
(* the sink was told and what is latched; they need every report to be     *)
(* made in the event loop.                                                 *)
(***************************************************************************)
EXTENDS AgentDriver, TLAPS

InStep == {"execute", "succeeded", "errored", "send", "throw"}

(* Where run() can be once it does not give the agent what execute() raised. *)
Leaving == {"cancelled", "announceCancelled", "undelivered", "aborted", "done"}

(* Where the generator is at each call of the driver, and when it is closed. *)
LifecycleInv ==
    /\ pc \in {"preflight", "announce", "start"} => gen = "CREATED" /\ step = 0
    /\ pc = "dispatch" => state # "none" /\ gen = GeneratorState(state)
    /\ pc = "dispatch" /\ state = "yielded" => step < MaxSteps
    /\ pc \in InStep => gen = "RUNNING" /\ step < MaxSteps
    /\ result \in {"ede", "cancel", "base"} => step < MaxSteps /\ pc \in Leaving
    /\ pc \in {"announceCancelled", "done"} => gen \in {"RETURNED", "CLOSED"}
    /\ outcome = "running" <=> pc # "done"
    /\ outcome = "returned" => gen = "RETURNED"
    /\ closes = IF pc = "announceCancelled" \/ (pc = "done" /\ outcome # "returned")
                THEN 1 ELSE 0

(* Which exception each except clause works on. *)
Announcement == {Raised(f) : f \in SinkFaults} \cup ServiceFaults

(* The execute() that is over was cancelled, or exited, with a latched channel. *)
LatchWins == primary \in {"cancel", "base"} /\ primary = result /\ latched[step]

PropagationInv ==
    /\ pc \in {"cancelled", "announceCancelled"} => primary = "cancel" /\ err = "cancel"
    /\ pc = "undelivered" => err = "ede" /\ (primary = "ede" \/ LatchWins)
    /\ pc = "aborted" => primary = "base" /\ err = "base"
    /\ pc = "failed" => primary = "exc" /\ err = "exc"
    /\ pc = "closeFailed" => primary = "exc" /\ err \in {"exc"} \cup Announcement
    /\ PrimaryErrorSurvives

ControlInv == TypeOK /\ LifecycleInv /\ PropagationInv /\ ChannelsCloseWithEffect

(* Which event was offered last, and with which answer, at each call.          *)
StreamInv ==
    /\ pc \in {"preflight", "announce"} => last = ES!NoEvent
    /\ pc = "start" => last.kind = "RunStarted" /\ last.sink = "ok"
    /\ pc = "dispatch" =>
          /\ last.sink = "ok"
          /\ \/ last.kind = "RunStarted" /\ step = 0
             \/ last.kind \in ES!EffectEnds /\ step = last.step + 1
    /\ pc = "execute" =>
          /\ last.kind \in ES!InEffect /\ last.step = step
          /\ last.kind = "EffectStarted" => last.sink = "ok"
          /\ Undelivered => latched[step]
    /\ pc \in {"succeeded", "errored"} => ES!InsideEffect /\ last.step = step
    /\ pc \in {"send", "throw"} =>
          last.kind \in ES!EffectEnds /\ last.step = step /\ last.sink = "ok"
    /\ pc \in {"cancelled", "announceCancelled"} =>
          /\ last.sink \in {"ok", "cancel"} \/ ES!Continues
          /\ \/ last.kind \notin ES!RunEnds
             \/ last.kind = "RunSucceeded" /\ last.sink = "cancel"
    /\ pc = "failed" => ES!Continues /\ last.kind \notin ES!RunEnds
    /\ pc \in {"undelivered", "aborted"} /\ last.sink = "ok" => last.kind \notin ES!RunEnds
    /\ pc = "closeFailed" =>
          /\ last.kind \notin {"RunSucceeded", "RunCancelled"}
          /\ last.kind = "RunFailed" /\ last.sink = "ok" => err = "exc"
    /\ ObserverAgreesWithCaller

(* A channel is latched only while, or after, its effect executes, and the      *)
(* result of a latched effect is never on its way to the agent.                 *)
ResultInv ==
    /\ ResultsAreObserved
    /\ \A k \in Steps :
          /\ k > step => delivered[k] = "none" /\ ~ latched[k]
          /\ k = step =>
                /\ pc \in {"preflight", "announce", "start", "dispatch"} \cup InStep =>
                      delivered[k] = "none"
                /\ pc \in {"preflight", "announce", "start", "dispatch",
                           "succeeded", "errored", "send", "throw"} => ~ latched[k]

IInv == ControlInv /\ StreamInv /\ ResultInv

-----------------------------------------------------------------------------
(* The state run() starts in. *)
LEMMA InitControl == Init => ControlInv
  BY MaxStepsAssumption, FaultsAssumption
     DEF Init, ControlInv, TypeOK, LifecycleInv, PropagationInv, PrimaryErrorSurvives,
         ChannelsCloseWithEffect, InStep, Leaving, Pcs, Steps, Faults, ES!NoEvent, ES!Events,
         ES!Kinds, ES!Answers, ES!EffectEnds, ES!RunEnds, ES!InEffect

(* No step of the driver, of a coroutine or of a worker thread breaks it. *)
LEMMA ControlStep == ControlInv /\ [Next \/ ThreadNext]_vars => ControlInv'
<1> SUFFICES ASSUME ControlInv, [Next \/ ThreadNext]_vars
             PROVE  ControlInv'
    OBVIOUS
<1> USE MaxStepsAssumption, FaultsAssumption
        DEF ControlInv, TypeOK, LifecycleInv, PropagationInv, LatchWins, PrimaryErrorSurvives,
            ChannelsCloseWithEffect, InStep, Leaving, Announcement, Pcs, Steps, Faults,
            driverVars, ES!Events, ES!Kinds, ES!Answers, ES!EffectEnds, ES!RunEnds,
            ES!RunEvents, ES!InEffect
<1>1. CASE Preflight
    BY <1>1 DEF Preflight, Continue, Raise, Closed, GeneratorClose, CloseAnswers, runVars, channelVars
<1>2. CASE EmitRunStarted
    BY <1>2 DEF EmitRunStarted, EmitThen, Offer, Raised, Continue, Unwind, UnwindAfter, Handler, Answers, runVars, channelVars
<1>3. CASE Start
    BY <1>3 DEF Start, Advance, Unwind, UnwindAfter, Handler, GeneratorState, channelVars
<1>4. CASE EmitRunSucceeded
  <2>1. CASE \E f \in ServiceFaults : Unwind(f) /\ UNCHANGED last
    BY <1>4, <2>1 DEF EmitRunSucceeded, Unwind, UnwindAfter, Handler, runVars, channelVars
  <2>2. ASSUME NEW answer \in Answers, Offer("RunSucceeded", answer), answer # "ok",
               Unwind(Raised(answer))
        PROVE  ControlInv'
    BY <1>4, <2>2 DEF EmitRunSucceeded, Offer, Raised, Unwind, UnwindAfter, Handler, Answers, runVars, channelVars
  <2>3. CASE /\ Offer("RunSucceeded", "ok") /\ pc' = "done" /\ outcome' = "returned"
             /\ UNCHANGED <<step, err, primary>>
    BY <1>4, <2>3 DEF EmitRunSucceeded, Offer, Answers, GeneratorState, runVars, channelVars
  <2> QED
    BY <1>4, <2>1, <2>2, <2>3 DEF EmitRunSucceeded
<1>5. CASE RejectState
    BY <1>5 DEF RejectState, Unwind, UnwindAfter, Handler, runVars, channelVars
<1>6. CASE EmitEffectStarted
  <2>1. active' \in [Steps -> BOOLEAN] /\ \A k \in Steps : active'[k] => pc' = "execute" /\ k = step
    BY <1>6 DEF EmitEffectStarted
  <2>2. EmitThen("EffectStarted", "execute") /\ pc = "dispatch" /\ state = "yielded"
        /\ UNCHANGED <<runVars, latched, delivered, checked, result>>
    BY <1>6 DEF EmitEffectStarted
  <2> QED
    BY <2>1, <2>2 DEF EmitThen, Offer, Raised, Continue, Unwind, UnwindAfter, Handler, Answers, GeneratorState, runVars
<1>7. CASE ExecuteEnds
  <2>1. /\ pc = "execute" /\ step \in Steps /\ result' \in {"value"} \cup ExecFaults
        /\ active' = [active EXCEPT ![step] = FALSE]
        /\ UNCHANGED <<step, outcome, runVars, latched, delivered, last, checked>>
    BY <1>7 DEF ExecuteEnds, CloseChannel, Continue, UnwindAfter, Unwind
  <2>2. \A k \in Steps : ~ active'[k]
    BY <2>1
  <2>3. CASE latched[step]
    <3>1. /\ pc' = "undelivered" /\ err' = "ede"
          /\ primary' = IF result' \in {"cancel", "base"} THEN result' ELSE "ede"
      BY <1>7, <2>3 DEF ExecuteEnds, Finished, Stopping, UnwindAfter, Handler
    <3> QED
      BY <2>1, <2>2, <2>3, <3>1 DEF runVars
  <2>4. CASE ~ latched[step]
    <3>1. \/ result' \in {"value", "exc"} /\ pc' \in {"succeeded", "errored"}
             /\ UNCHANGED <<err, primary>>
          \/ result' \in {"ede", "cancel", "base"} /\ pc' = Handler(result')
             /\ err' = result' /\ primary' = result'
      BY <1>7, <2>4 DEF ExecuteEnds, Finished, Stopping, UnwindAfter, Continue
    <3> QED
      BY <2>1, <2>2, <3>1 DEF runVars, Handler
  <2> QED
    BY <2>3, <2>4
<1>8. CASE EmitEffectSucceeded
    BY <1>8 DEF EmitEffectSucceeded, EmitThen, Offer, Raised, Continue, Unwind, UnwindAfter, Handler, Answers, runVars, channelVars
<1>9. CASE EmitEffectFailed
    BY <1>9 DEF EmitEffectFailed, EmitThen, Offer, Raised, Continue, Unwind, UnwindAfter, Handler, Answers, runVars, channelVars
<1>10. CASE Resume
    BY <1>10 DEF Resume, Advance, Unwind, UnwindAfter, Handler, GeneratorState, channelVars
<1>11. CASE CloseCancelled
    BY <1>11 DEF CloseCancelled, Closed, GeneratorClose, CloseAnswers, channelVars
<1>12. CASE EmitRunCancelled
    BY <1>12 DEF EmitRunCancelled, CancelledOr, Offer, Raised, Raise, Answers, runVars, channelVars
<1>13. CASE CloseSilently
    BY <1>13 DEF CloseSilently, Closed, Raise, GeneratorClose, CloseAnswers, channelVars
<1>14. CASE EmitRunFailed
    BY <1>14 DEF EmitRunFailed, Offer, Raised, Answers, runVars, channelVars
<1>15. CASE CloseFailed
  <2>1. /\ pc = "closeFailed" /\ pc' = "done" /\ outcome' = err /\ err' = err
        /\ gen' \in {"CLOSED", "RETURNED"} /\ closes' = closes + 1
        /\ UNCHANGED <<step, state, primary, channelVars, delivered, last, checked, result>>
    BY <1>15 DEF CloseFailed, Closed, Raise, GeneratorClose, CloseAnswers
  <2>2. err \in Faults
    BY <2>1 DEF Raised
  <2>3. PrimaryErrorSurvives'
    BY <2>1
  <2> QED
    BY <2>1, <2>2, <2>3 DEF channelVars
<1>16. ASSUME NEW k \in Steps, Report(k)
       PROVE  ControlInv'
  <2>1. UNCHANGED <<driverVars, runVars, active, delivered, result>>
    BY <1>16 DEF Report, Accepts
  <2>2. last' \in ES!Events
    BY <1>16 DEF Report, Accepts, OfferProgress, Answers
  <2>3. /\ latched' \in [Steps -> BOOLEAN] /\ checked' \subseteq Steps
        /\ \A j \in Steps : latched[j] => latched'[j]
    BY <1>16 DEF Report, Accepts, OfferProgress
  <2> QED
    BY <2>1, <2>2, <2>3 DEF runVars
<1>17. ASSUME NEW k \in Steps, ThreadCheck(k) \/ ThreadEmit(k)
       PROVE  ControlInv'
  <2>1. UNCHANGED <<driverVars, runVars, active, delivered, result>>
    BY <1>17 DEF ThreadCheck, ThreadEmit, channelVars
  <2>2. last' \in ES!Events
    BY <1>17 DEF ThreadCheck, ThreadEmit, channelVars, OfferProgress, Answers
  <2>3. /\ latched' \in [Steps -> BOOLEAN] /\ checked' \subseteq Steps
        /\ \A j \in Steps : latched[j] => latched'[j]
    BY <1>17 DEF ThreadCheck, ThreadEmit, channelVars, OfferProgress
  <2> QED
    BY <2>1, <2>2, <2>3 DEF runVars
<1>18. CASE UNCHANGED vars
    BY <1>18 DEF vars, runVars, channelVars
<1> QED
    BY <1>1, <1>2, <1>3, <1>4, <1>5, <1>6, <1>7, <1>8, <1>9, <1>10, <1>11, <1>12,
       <1>13, <1>14, <1>15, <1>16, <1>17, <1>18
       DEF Next, ThreadNext, DriverStep

-----------------------------------------------------------------------------
(* The exceptions, closings and generator states of run() are right whatever    *)
(* worker threads do with the contexts they keep.                               *)
THEOREM ThreadedControl == ThreadedSpec => []ControlInv
<1>1. Init => ControlInv
    BY InitControl
<1>2. ControlInv /\ [Next \/ ThreadNext]_vars => ControlInv'
    BY ControlStep
<1> QED
    BY <1>1, <1>2, PTL DEF ThreadedSpec

(* The same without worker threads. *)
THEOREM Control == Spec => []ControlInv
<1>1. Init => ControlInv
    BY InitControl
<1>2. ControlInv /\ [Next]_vars => ControlInv'
    BY ControlStep
<1> QED
    BY <1>1, <1>2, PTL DEF Spec

-----------------------------------------------------------------------------
(* Steps made in the event loop keep what the sink was told in line with where  *)
(* run() is.                                                                    *)
LEMMA StreamStep == IInv /\ [Next]_vars => StreamInv'
<1> SUFFICES ASSUME IInv, [Next]_vars
             PROVE  StreamInv'
    OBVIOUS
<1> USE MaxStepsAssumption, FaultsAssumption
        DEF IInv, ControlInv, TypeOK, PropagationInv, LifecycleInv, StreamInv, ObserverAgreesWithCaller,
            InStep, Pcs, Steps, Faults, driverVars, Undelivered, ES!Undelivered, ES!Continues,
            ES!InsideEffect, ES!NoEvent, ES!Events, ES!Kinds, ES!Answers, ES!EffectEnds, ES!RunEnds,
            ES!RunEvents, ES!InEffect
<1>1. CASE Preflight
    BY <1>1 DEF Preflight, Continue, Raise, Closed, channelVars
<1>2. CASE EmitRunStarted
    BY <1>2 DEF EmitRunStarted, EmitThen, Offer, Raised, Continue, Unwind, UnwindAfter, Handler, Answers, channelVars
<1>3. CASE Start
    BY <1>3 DEF Start, Advance, Unwind, UnwindAfter, Handler, GeneratorState, channelVars
<1>4. CASE EmitRunSucceeded
    BY <1>4 DEF EmitRunSucceeded, Offer, Raised, Unwind, UnwindAfter, Handler, Answers, channelVars
<1>5. CASE RejectState
    BY <1>5 DEF RejectState, Unwind, UnwindAfter, Handler, channelVars
<1>6. CASE EmitEffectStarted
    BY <1>6 DEF EmitEffectStarted, EmitThen, Offer, Raised, Continue, Unwind, UnwindAfter, Handler, Answers
<1>7. CASE ExecuteEnds
    BY <1>7 DEF ExecuteEnds, Finished, Stopping, Continue, Unwind, UnwindAfter, Handler
<1>8. CASE EmitEffectSucceeded
    BY <1>8 DEF EmitEffectSucceeded, EmitThen, Offer, Raised, Continue, Unwind, UnwindAfter, Handler, Answers, channelVars
<1>9. CASE EmitEffectFailed
    BY <1>9 DEF EmitEffectFailed, EmitThen, Offer, Raised, Continue, Unwind, UnwindAfter, Handler, Answers, channelVars
<1>10. CASE Resume
    BY <1>10 DEF Resume, Advance, Unwind, UnwindAfter, Handler, GeneratorState, channelVars
<1>11. CASE CloseCancelled
    BY <1>11 DEF CloseCancelled, Closed, channelVars
<1>12. CASE EmitRunCancelled
    BY <1>12 DEF EmitRunCancelled, CancelledOr, Offer, Raised, Raise, Answers, channelVars
<1>13. CASE CloseSilently
    BY <1>13 DEF CloseSilently, Closed, Raise, channelVars
<1>14. CASE EmitRunFailed
    BY <1>14 DEF EmitRunFailed, Offer, Raised, Answers, channelVars
<1>15. CASE CloseFailed
    BY <1>15 DEF CloseFailed, Closed, Raise, channelVars
<1>16. ASSUME NEW k \in Steps, Report(k)
       PROVE  StreamInv'
  <2>1. pc = "execute" /\ k = step /\ UNCHANGED <<driverVars, active>>
    BY <1>16 DEF Report, Accepts, ChannelsCloseWithEffect
  <2>2. CASE UNCHANGED last /\ latched'[step]
    BY <2>1, <2>2
  <2>3. ASSUME NEW answer \in Answers,
               last' = [kind |-> "EffectProgress", step |-> k, sink |-> answer],
               latched' = [latched EXCEPT ![k] = @ \/ Raised(answer) = "ede"]
        PROVE  StreamInv'
    <3>1. answer \in {"exc", "ede"} => Raised(answer) = "ede"
      BY DEF Raised
    <3>2. answer \in {"exc", "ede"} => latched'[step]
      BY <2>1, <2>3, <3>1
    <3>3. last'.kind = "EffectProgress" /\ last'.step = step' /\ last'.sink = answer
      BY <2>1, <2>3
    <3> QED
      BY <2>1, <3>2, <3>3
  <2>4. \/ UNCHANGED last /\ latched'[step]
        \/ \E answer \in Answers :
              /\ last' = [kind |-> "EffectProgress", step |-> k, sink |-> answer]
              /\ latched' = [latched EXCEPT ![k] = @ \/ Raised(answer) = "ede"]
    BY <1>16, <2>1 DEF Report, OfferProgress
  <2> QED
    BY <2>2, <2>3, <2>4
<1>17. CASE UNCHANGED vars
    BY <1>17 DEF vars, channelVars
<1> QED
    BY <1>1, <1>2, <1>3, <1>4, <1>5, <1>6, <1>7, <1>8, <1>9, <1>10, <1>11, <1>12, <1>13, <1>14, <1>15, <1>16, <1>17
       DEF Next, DriverStep

(* They keep the latch of every effect ahead of the result the agent gets. *)
LEMMA ResultStep == IInv /\ [Next]_vars => ResultInv'
<1> SUFFICES ASSUME IInv, [Next]_vars
             PROVE  ResultInv'
    OBVIOUS
<1> USE MaxStepsAssumption, FaultsAssumption
        DEF IInv, ControlInv, TypeOK, LifecycleInv, ResultInv, ResultsAreObserved,
            ChannelsCloseWithEffect, InStep, Pcs, Steps, Faults, driverVars
<1>1. CASE Preflight
    BY <1>1 DEF Preflight, Continue, Raise, Closed, channelVars
<1>2. CASE EmitRunStarted
    BY <1>2 DEF EmitRunStarted, EmitThen, Offer, Raised, Continue, Unwind, UnwindAfter, Handler, Answers, channelVars
<1>3. CASE Start
    BY <1>3 DEF Start, Advance, Unwind, UnwindAfter, Handler, GeneratorState, channelVars
<1>4. CASE EmitRunSucceeded
    BY <1>4 DEF EmitRunSucceeded, Offer, Raised, Unwind, UnwindAfter, Handler, Answers, channelVars
<1>5. CASE RejectState
    BY <1>5 DEF RejectState, Unwind, UnwindAfter, Handler, channelVars
<1>6. CASE EmitEffectStarted
    BY <1>6 DEF EmitEffectStarted, EmitThen, Offer, Raised, Continue, Unwind, UnwindAfter, Handler, Answers
<1>7. CASE ExecuteEnds
    BY <1>7 DEF ExecuteEnds, Finished, Stopping, Continue, Unwind, UnwindAfter, Handler
<1>8. CASE EmitEffectSucceeded
    BY <1>8 DEF EmitEffectSucceeded, EmitThen, Offer, Raised, Continue, Unwind, UnwindAfter, Handler, Answers, channelVars
<1>9. CASE EmitEffectFailed
    BY <1>9 DEF EmitEffectFailed, EmitThen, Offer, Raised, Continue, Unwind, UnwindAfter, Handler, Answers, channelVars
<1>10. CASE Resume
    BY <1>10 DEF Resume, Advance, Unwind, UnwindAfter, Handler, GeneratorState, channelVars
<1>11. CASE CloseCancelled
    BY <1>11 DEF CloseCancelled, Closed, channelVars
<1>12. CASE EmitRunCancelled
    BY <1>12 DEF EmitRunCancelled, CancelledOr, Offer, Raised, Raise, Answers, channelVars
<1>13. CASE CloseSilently
    BY <1>13 DEF CloseSilently, Closed, Raise, channelVars
<1>14. CASE EmitRunFailed
    BY <1>14 DEF EmitRunFailed, Offer, Raised, Answers, channelVars
<1>15. CASE CloseFailed
    BY <1>15 DEF CloseFailed, Closed, Raise, channelVars
<1>16. ASSUME NEW k \in Steps, Report(k)
       PROVE  ResultInv'
    BY <1>16 DEF Report, Accepts, OfferProgress, Answers, Raised
<1>17. CASE UNCHANGED vars
    BY <1>17 DEF vars, channelVars
<1> QED
    BY <1>1, <1>2, <1>3, <1>4, <1>5, <1>6, <1>7, <1>8, <1>9, <1>10, <1>11, <1>12, <1>13, <1>14, <1>15, <1>16, <1>17
       DEF Next, DriverStep

LEMMA InitStreamResult == Init => StreamInv /\ ResultInv
  BY MaxStepsAssumption
     DEF Init, StreamInv, ResultInv, ResultsAreObserved, ObserverAgreesWithCaller, InStep, Steps

(* IInv is an invariant of the driver. *)
THEOREM Invariance == Spec => []IInv
<1>1. Init => IInv
    BY InitControl, InitStreamResult DEF IInv
<1>2. IInv /\ [Next]_vars => IInv'
    BY ControlStep, StreamStep, ResultStep DEF IInv
<1> QED
    BY <1>1, <1>2, PTL DEF Spec

-----------------------------------------------------------------------------
(* The variables of the driver keep their ranges. *)
THEOREM TypeCorrect == Spec => []TypeOK
<1>1. IInv => TypeOK
    BY DEF IInv, ControlInv
<1> QED
    BY Invariance, <1>1, PTL

(* The agent never receives the result of an effect whose progress could not be *)
(* delivered, however many effects it yields.                                   *)
THEOREM AgentResultsObserved == Spec => []ResultsAreObserved
<1>1. IInv => ResultsAreObserved
    BY DEF IInv, ResultInv
<1> QED
    BY Invariance, <1>1, PTL

(* The last event the sink accepted and the outcome the caller saw agree. *)
THEOREM ObserverCallerAgreement == Spec => []ObserverAgreesWithCaller
<1>1. IInv => ObserverAgreesWithCaller
    BY DEF IInv, StreamInv
<1> QED
    BY Invariance, <1>1, PTL

(* Every abnormal exit closes the agent run exactly once, even while worker     *)
(* threads report on contexts they kept.                                        *)
THEOREM AbnormalExitCloses == ThreadedSpec => []ClosedOnAbnormalExit
<1>1. ControlInv => ClosedOnAbnormalExit
    BY DEF ControlInv, LifecycleInv, ClosedOnAbnormalExit
<1> QED
    BY ThreadedControl, <1>1, PTL

(* No failing close() replaces the exception that stopped the run, and only the *)
(* faults PrimaryErrorSurvives names do: those of its own announcement, and the *)
(* lost progress event of the effect that was cancelled.  Worker threads may    *)
(* report at any time.                                                          *)
THEOREM PrimarySurvives == ThreadedSpec => []PrimaryErrorSurvives
<1>1. ControlInv => PrimaryErrorSurvives
    BY DEF ControlInv, PropagationInv
<1> QED
    BY ThreadedControl, <1>1, PTL

(* GeneratorRun never has to refuse a call of the driver. *)
THEOREM LifecycleIsLinear == ThreadedSpec => []LinearLifecycle
<1>1. ControlInv => LinearLifecycle
    BY DEF ControlInv, TypeOK, LifecycleInv, LinearLifecycle, InStep, GeneratorState
<1> QED
    BY ThreadedControl, <1>1, PTL

-----------------------------------------------------------------------------
(* One step of the driver is one step of EventStream or offers nothing. *)
LEMMA StreamRefinement == IInv /\ [Next]_vars => [ES!Next]_last
<1> SUFFICES ASSUME IInv, Next, last' # last
             PROVE  ES!Next
    BY DEF vars
<1> USE MaxStepsAssumption, FaultsAssumption
        DEF IInv, ControlInv, TypeOK, LifecycleInv, StreamInv, InStep, Steps, Faults,
            Undelivered, ES!Undelivered, ES!Continues, ES!InsideEffect, ES!BetweenEffects,
            ES!NextIndex, ES!NoEvent, ES!Offer, ES!Answers, Answers, ES!EffectEnds, ES!RunEnds,
            ES!RunEvents, ES!InEffect, ES!Events, ES!Next
<1>1. CASE EmitRunStarted
    BY <1>1 DEF EmitRunStarted, EmitThen, Offer, ES!StartRun
<1>2. CASE EmitRunSucceeded
    BY <1>2 DEF EmitRunSucceeded, Offer, ES!Succeed
<1>3. CASE EmitEffectStarted
    BY <1>3 DEF EmitEffectStarted, EmitThen, Offer, ES!StartEffect
<1>4. CASE EmitEffectSucceeded
    BY <1>4 DEF EmitEffectSucceeded, EmitThen, Offer, ES!EndEffect
<1>5. CASE EmitEffectFailed
    BY <1>5 DEF EmitEffectFailed, EmitThen, Offer, ES!EndEffect
<1>6. CASE EmitRunCancelled
    BY <1>6 DEF EmitRunCancelled, Offer, ES!Cancel
<1>7. CASE EmitRunFailed
    BY <1>7 DEF EmitRunFailed, Offer, ES!Fail
<1>8. ASSUME NEW k \in Steps, Report(k)
      PROVE  ES!ProgressEffect
    BY <1>8 DEF Report, Accepts, OfferProgress, ChannelsCloseWithEffect, ES!ProgressEffect
<1>9. CASE Preflight \/ Start \/ RejectState \/ ExecuteEnds \/ Resume \/ CloseCancelled
           \/ CloseSilently \/ CloseFailed
    BY <1>9 DEF Preflight, Start, RejectState, ExecuteEnds, Resume, CloseCancelled,
                CloseSilently, CloseFailed
<1> QED
    BY <1>1, <1>2, <1>3, <1>4, <1>5, <1>6, <1>7, <1>8, <1>9 DEF Next, DriverStep

(* The events of every run are those EventStream allows: one start, effects     *)
(* numbered without gaps, progress only inside its effect, one terminal event,  *)
(* and nothing after a failed dispatch.                                         *)
THEOREM ImplementsEventStream == Spec => EventOrder
<1>1. Init => ES!Init
    BY DEF Init, ES!Init
<1>2. IInv /\ [Next]_vars => [ES!Next]_last
    BY StreamRefinement
<1> QED
    BY <1>1, <1>2, Invariance, PTL DEF Spec, EventOrder, ES!Spec

(* After a failed dispatch no step offers another event. *)
THEOREM SilentAfterFailure == Spec => SilentAfterDispatchFailure
<1>1. IInv /\ [Next]_vars => [Undelivered => UNCHANGED last]_vars
  <2> SUFFICES ASSUME IInv, [Next]_vars, Undelivered
               PROVE  UNCHANGED last
      OBVIOUS
  <2>1. [ES!Next]_last
      BY StreamRefinement
  <2>2. ~ ES!Next
      BY DEF ES!Next, ES!StartRun, ES!StartEffect, ES!ProgressEffect, ES!EndEffect, ES!Succeed,
             ES!Fail, ES!Cancel, ES!Continues, ES!Undelivered, ES!InsideEffect,
             ES!BetweenEffects, ES!NoEvent, Undelivered
  <2> QED
      BY <2>1, <2>2
<1> QED
    BY <1>1, Invariance, PTL DEF Spec, SilentAfterDispatchFailure
=============================================================================
