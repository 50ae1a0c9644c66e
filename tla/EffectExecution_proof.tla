------------------------- MODULE EffectExecution_proof -------------------------
(***************************************************************************)
(* Proofs about EffectExecution, for chains of any length, any number of   *)
(* attempts and cancellations, and any effect.                             *)
(*                                                                         *)
(* The argument counts cancel requests: those not undone are the external  *)
(* ones and one for each deadline that has fired.  While there is any, the *)
(* task is on its way out, so no layer is entered and every baseline is 0. *)
(* That the retries stay within their attempts is a second argument, with  *)
(* a witness that says how often each layer has called what is inside it.  *)
(***************************************************************************)
EXTENDS EffectExecution, FiniteSetTheorems, TLAPS

Fired == {i \in Layers : deadline[i] = "fired"}

Shape ==
    /\ chain \in Seq({"timeout", "retry"})
    /\ pc \in {"enter", "run", "sleep", "leave", "done"}
    /\ deadline \in [Layers -> {"off", "armed", "fired"}]
    /\ baseline \in [Layers -> {0}]
    /\ external \in Nat /\ cancels \in Nat
    /\ pending \in BOOLEAN /\ unwinding \in BOOLEAN
    /\ IsFiniteSet(Fired)

Counted == cancels = external + Cardinality(Fired)

Out == outcome \in {"cancelled", "ede"}

(* A request not undone is pending, being cleaned up after, or propagating. *)
Unwound ==
    /\ pc # "done" => (cancels > 0 =>
          /\ pc # "enter"
          /\ pc = "run" => pending \/ unwinding
          /\ pc = "sleep" => pending
          /\ pc = "leave" => Out)
    /\ pc = "done" /\ external > 0 => Out

IInv == Shape /\ Counted /\ Unwound

-----------------------------------------------------------------------------
LEMMA InitInv == Init => IInv
<1> SUFFICES ASSUME Init PROVE IInv
    OBVIOUS
<1>1. Fired = {}
    BY DEF Init, Fired
<1>2. Shape
    BY <1>1, FS_EmptySet, ExecutionAssumption DEF Init, Shape
<1> QED
    BY <1>1, <1>2, FS_EmptySet DEF Init, IInv, Counted, Unwound

(* The deadlines that have fired are at most the requests not undone.          *)
LEMMA FiredCounted ==
  ASSUME IInv
  PROVE  /\ Cardinality(Fired) \in Nat /\ cancels >= external
         /\ Fired # {} => cancels > 0
         /\ external > 0 => cancels > 0
  BY FS_CardinalityType, FS_EmptySet DEF IInv, Shape, Counted

(* Steps that neither fire nor disarm a deadline nor cancel the task.          *)
LEMMA SameCount ==
  ASSUME IInv, UNCHANGED <<chain, deadline, baseline, cancels, external>>,
         pc' \in {"enter", "run", "sleep", "leave", "done"},
         pending' \in BOOLEAN, unwinding' \in BOOLEAN
  PROVE  Shape' /\ Counted'
<1>1. Fired' = Fired
    BY DEF Fired, Layers
<1> QED
    BY <1>1 DEF IInv, Shape, Counted, Layers

(* A request, by a deadline or from outside.                                   *)
LEMMA ExpireKeeps ==
  ASSUME IInv, NEW i \in Layers, Expire(i)
  PROVE  IInv'
<1> USE DEF IInv
<1>1. deadline \in [Layers -> {"off", "armed", "fired"}] /\ deadline[i] = "armed"
      /\ deadline' = [deadline EXCEPT ![i] = "fired"] /\ Layers' = Layers
    BY DEF Expire, Shape, Layers
<1>2. Fired' = Fired \cup {i} /\ i \notin Fired
    BY <1>1 DEF Fired
<1>3. IsFiniteSet(Fired') /\ Cardinality(Fired') = Cardinality(Fired) + 1
    BY <1>2, FS_AddElement DEF Shape
<1>4. Shape'
    BY <1>1, <1>3 DEF Expire, CancelTask, Shape
<1>5. Counted'
    BY <1>3, FiredCounted DEF Expire, CancelTask, Shape, Counted
<1>6. Unwound'
    BY DEF Expire, CancelTask, Awaiting, Unwound
<1> QED
    BY <1>4, <1>5, <1>6

LEMMA CancelKeeps ==
  ASSUME IInv, CancelFromOutside
  PROVE  IInv'
<1> USE DEF IInv
<1>1. /\ UNCHANGED <<chain, pc, deadline, baseline, unwinding>>
      /\ external' = external + 1 /\ cancels' = cancels + 1 /\ pending' = TRUE
    BY DEF CancelFromOutside, CancelTask, layerVars
<1>2. Layers' = Layers /\ Fired' = Fired
    BY <1>1 DEF Layers, Fired
<1>3. Shape' /\ Counted'
    BY <1>1, <1>2, FiredCounted DEF Shape, Counted
<1>4. Unwound'
    BY <1>1 DEF CancelFromOutside, Awaiting, Unwound
<1> QED
    BY <1>3, <1>4

(* A layer is entered only when no request is left, so its baseline is 0.      *)
LEMMA EnterTimeoutKeeps ==
  ASSUME IInv, NEW i \in Layers, EnterTimeout(i)
  PROVE  IInv'
<1> USE DEF IInv
<1>1. cancels = 0 /\ Fired = {}
    BY FiredCounted DEF EnterTimeout, Unwound, Shape
<1>2. Layers' = Layers /\ baseline' = [baseline EXCEPT ![i] = 0]
      /\ deadline' = [deadline EXCEPT ![i] = "armed"]
    BY <1>1 DEF EnterTimeout, Layers
<1>3. Fired' = {}
    BY <1>1, <1>2 DEF Fired, Shape
<1>4. Shape'
    BY <1>2, <1>3, FS_EmptySet DEF EnterTimeout, taskVars, Shape
<1>5. Counted'
    BY <1>1, <1>3 DEF EnterTimeout, taskVars, Counted
<1>6. Unwound'
    BY <1>1 DEF EnterTimeout, taskVars, Unwound
<1> QED
    BY <1>4, <1>5, <1>6

(* A deadline that fired undoes its request, and claims the cancellation only  *)
(* if that was the last one.                                                   *)
LEMMA LeaveTimeoutKeeps ==
  ASSUME IInv, NEW i \in Layers, LeaveTimeout(i)
  PROVE  IInv'
<1> USE DEF IInv
<1>1. /\ pc = "leave" /\ UNCHANGED <<chain, pc, baseline, pending, external, unwinding>>
      /\ deadline' = [deadline EXCEPT ![i] = "off"] /\ Layers' = Layers
    BY DEF LeaveTimeout, Layers
<1>2. Fired' = Fired \ {i}
    BY <1>1 DEF Fired, Shape
<1>3. IsFiniteSet(Fired')
      /\ Cardinality(Fired') = IF i \in Fired THEN Cardinality(Fired) - 1 ELSE Cardinality(Fired)
    BY <1>2, FS_RemoveElement DEF Shape
<1>4. CASE deadline[i] = "fired"
  <2>1. i \in Fired /\ cancels > 0 /\ cancels' = cancels - 1
        /\ outcome' = IF ExpiredAlone(i) THEN "timeout" ELSE outcome
      BY <1>4, FiredCounted DEF LeaveTimeout, Fired
  <2>2. Out /\ baseline[i] = 0
      BY <1>1, <2>1 DEF Unwound, Shape
  <2>3. Shape'
      BY <1>1, <1>3, <2>1 DEF Shape
  <2>4. Counted'
      BY <1>1, <1>3, <2>1, FiredCounted DEF Shape, Counted
  <2>5. cancels' > 0 => Out'
      BY <2>1, <2>2 DEF ExpiredAlone, Out, Shape
  <2> QED
      BY <1>1, <2>3, <2>4, <2>5 DEF Unwound
<1>5. CASE deadline[i] # "fired"
  <2>1. i \notin Fired /\ UNCHANGED <<cancels, outcome>>
      BY <1>5 DEF LeaveTimeout, Fired
  <2>2. Shape' /\ Counted'
      BY <1>1, <1>3, <2>1 DEF Shape, Counted
  <2> QED
      BY <1>1, <2>1, <2>2 DEF Unwound, Out
<1> QED
    BY <1>4, <1>5

(* A retry layer acts only on an outcome that no request is behind.            *)
LEMMA RetriableUncancelled ==
  ASSUME IInv, NEW i \in Layers, Retriable(i)
  PROVE  cancels = 0
  BY DEF Retriable, NeverRetried, IInv, Shape, Unwound, Out

LEMMA StepKeeps == IInv /\ [Next]_vars => IInv'
<1> SUFFICES ASSUME IInv, [Next]_vars
             PROVE  IInv'
    OBVIOUS
<1> USE DEF IInv, taskVars, layerVars
<1>1. ASSUME NEW i \in Layers, EnterRetry(i) \/ LeaveRetry(i)
      PROVE  IInv'
  <2>1. UNCHANGED <<chain, pc, deadline, baseline, taskVars, unwinding, outcome>>
      BY <1>1 DEF EnterRetry, LeaveRetry
  <2>2. Shape' /\ Counted'
      BY <2>1, SameCount DEF Shape
  <2> QED
      BY <2>1, <2>2 DEF Unwound, Out
<1>2. ASSUME NEW i \in Layers, PolicyRaises(i) \/ RetryNow(i) \/ RetryLater(i)
      PROVE  IInv'
  <2>1. /\ UNCHANGED <<chain, deadline, baseline, taskVars, unwinding>>
        /\ pc' \in {"leave", "enter", "sleep"} /\ cancels = 0
      BY <1>2, RetriableUncancelled
         DEF PolicyRaises, RetryNow, RetryLater, TryAgain, Retriable
  <2>2. Shape' /\ Counted'
      BY <2>1, SameCount DEF Shape
  <2> QED
      BY <2>1, <2>2 DEF Unwound, Out
<1>3. ASSUME NEW i \in Layers, LayerStep(i)
      PROVE  IInv'
    BY <1>1, <1>2, <1>3, EnterTimeoutKeeps, LeaveTimeoutKeeps DEF LayerStep
<1>4. CASE Execute
  <2>1. UNCHANGED <<chain, deadline, baseline, taskVars>> /\ pc' = "run" /\ unwinding' = FALSE
        /\ cancels = 0
      BY <1>4 DEF Execute, Unwound, Shape
  <2>2. Shape' /\ Counted'
      BY <2>1, SameCount DEF Shape
  <2> QED
      BY <2>1, <2>2 DEF Unwound
<1>5. CASE EffectAnswers
  <2>1. UNCHANGED <<chain, deadline, baseline, taskVars, unwinding>> /\ pc' = "leave"
        /\ cancels = 0
      BY <1>5 DEF EffectAnswers, EffectEnds, Unwound, Shape
  <2>2. Shape' /\ Counted'
      BY <2>1, SameCount DEF Shape
  <2> QED
      BY <2>1, <2>2 DEF Unwound
<1>6. CASE ProgressFails
  <2>1. UNCHANGED <<chain, deadline, baseline, taskVars, unwinding>>
        /\ \/ pc' = "leave" /\ outcome' = "ede"
           \/ UNCHANGED <<pc, outcome>>
      BY <1>6 DEF ProgressFails, EffectEnds
  <2>2. Shape' /\ Counted'
      BY <2>1, SameCount DEF Shape
  <2> QED
      BY <2>1, <2>2 DEF Unwound, Out
<1>7. CASE Deliver
  <2>1. UNCHANGED <<chain, deadline, baseline, cancels, external, pc>> /\ pc = "run"
        /\ pending' = FALSE /\ unwinding' = TRUE
      BY <1>7 DEF Deliver
  <2>2. Shape' /\ Counted'
      BY <2>1, SameCount DEF Shape
  <2> QED
      BY <2>1, <2>2 DEF Unwound
<1>8. CASE CleanupEnds
  <2>1. UNCHANGED <<chain, deadline, baseline, taskVars, unwinding>>
        /\ pc' = "leave" /\ outcome' = "cancelled"
      BY <1>8 DEF CleanupEnds, EffectEnds
  <2>2. Shape' /\ Counted'
      BY <2>1, SameCount DEF Shape
  <2> QED
      BY <2>1, <2>2 DEF Unwound, Out
<1>9. CASE Wake
  <2>1. UNCHANGED <<chain, deadline, baseline, taskVars, unwinding>> /\ pc' = "enter"
        /\ cancels = 0
      BY <1>9 DEF Wake, TryAgain, Unwound, Shape
  <2>2. Shape' /\ Counted'
      BY <2>1, SameCount DEF Shape
  <2> QED
      BY <2>1, <2>2 DEF Unwound
<1>10. CASE SleepCancelled
  <2>1. UNCHANGED <<chain, deadline, baseline, cancels, external, unwinding>>
        /\ pending' = FALSE /\ pc' = "leave" /\ outcome' = "cancelled"
      BY <1>10 DEF SleepCancelled
  <2>2. Shape' /\ Counted'
      BY <2>1, SameCount DEF Shape
  <2> QED
      BY <2>1, <2>2 DEF Unwound, Out
<1>11. CASE Finish
  <2>1. UNCHANGED <<chain, deadline, baseline, taskVars, unwinding, outcome>>
        /\ pc = "leave" /\ pc' = "done"
      BY <1>11 DEF Finish
  <2>2. Shape' /\ Counted'
      BY <2>1, SameCount DEF Shape
  <2>3. external > 0 => Out
      BY <2>1, FiredCounted DEF Unwound
  <2> QED
      BY <2>1, <2>2, <2>3 DEF Unwound, Out
<1>12. CASE UNCHANGED vars
  <2>1. UNCHANGED <<chain, pc, deadline, baseline, taskVars, unwinding, outcome>>
      BY <1>12 DEF vars
  <2>2. Shape' /\ Counted'
      BY <2>1, SameCount DEF Shape
  <2> QED
      BY <2>1, <2>2 DEF Unwound, Out
<1> QED
    BY <1>3, <1>4, <1>5, <1>6, <1>7, <1>8, <1>9, <1>10, <1>11, <1>12,
       ExpireKeeps, CancelKeeps DEF Next, TaskStep

THEOREM Invariance == Spec => []IInv
<1>1. IInv /\ [Next]_vars => IInv'
    BY StepKeeps
<1> QED
    BY InitInv, <1>1, PTL DEF Spec

-----------------------------------------------------------------------------
(* A cancellation from outside is what execute() ends with, under any chain of  *)
(* timeouts and retries; only a failed dispatch may replace it.                 *)
THEOREM CancellationsWin == Spec => []CancellationWins
<1>1. IInv => CancellationWins
    BY DEF IInv, Unwound, Out, CancellationWins
<1> QED
    BY Invariance, <1>1, PTL

(* No retry layer calls again once the task is cancelled or a deadline around   *)
(* the layer has fired.                                                         *)
THEOREM StoppedLayersStayStopped == Spec => NoRetryOnceStopped
<1>1. IInv /\ [Next]_vars =>
         \A i \in Retries : Stopped(i) => attempt'[i] = attempt[i]
  <2> SUFFICES ASSUME IInv, [Next]_vars, NEW i \in Retries, Stopped(i)
               PROVE  attempt'[i] = attempt[i]
      OBVIOUS
  <2>1. cancels > 0
    <3>1. CASE external > 0
        BY <3>1, FiredCounted
    <3>2. CASE \E j \in Timeouts : j < i /\ deadline[j] = "fired"
        BY <3>2, FiredCounted DEF Timeouts, Fired
    <3> QED
        BY <3>1, <3>2 DEF Stopped
  <2>2. pc # "enter" /\ ~ (pc = "sleep" /\ ~ pending)
      BY <2>1, FiredCounted DEF IInv, Shape, Unwound, Out
  <2>3. \A j \in Layers : ~ Retriable(j)
      BY <2>1, RetriableUncancelled
  <2> QED
      BY <2>2, <2>3
         DEF Next, TaskStep, LayerStep, EnterTimeout, EnterRetry, LeaveTimeout, LeaveRetry,
             PolicyRaises, RetryNow, RetryLater, Execute, Deliver, CleanupEnds, Wake,
             SleepCancelled, Finish, EffectAnswers, ProgressFails, Expire,
             CancelFromOutside, layerVars, vars
<1> QED
    BY Invariance, <1>1, PTL DEF Spec, NoRetryOnceStopped
-----------------------------------------------------------------------------
(* An EventDispatchError is only ever an outcome on its way out. *)
DispatchInv == outcome = "ede" => pc \in {"leave", "done"}

LEMMA StepKeepsDispatch == DispatchInv /\ [Next]_vars => DispatchInv'
<1> SUFFICES ASSUME DispatchInv, [Next]_vars
             PROVE  DispatchInv'
    OBVIOUS
<1> USE DEF DispatchInv
<1>1. ASSUME NEW i \in Layers, EnterTimeout(i) \/ EnterRetry(i)
      PROVE  DispatchInv'
    BY <1>1 DEF EnterTimeout, EnterRetry
<1>2. ASSUME NEW i \in Layers, LeaveTimeout(i)
      PROVE  DispatchInv'
    BY <1>2 DEF LeaveTimeout
<1>3. ASSUME NEW i \in Layers, LeaveRetry(i)
      PROVE  DispatchInv'
    BY <1>3 DEF LeaveRetry
<1>4. ASSUME NEW i \in Layers, Retriable(i), PolicyRaises(i) \/ RetryNow(i) \/ RetryLater(i)
      PROVE  DispatchInv'
    BY <1>4 DEF Retriable, NeverRetried, PolicyRaises, RetryNow, RetryLater, TryAgain
<1>5. CASE Execute \/ EffectAnswers \/ Deliver \/ CleanupEnds
    BY <1>5 DEF Execute, EffectAnswers, EffectEnds, Deliver, CleanupEnds
<1>6. CASE ProgressFails
    BY <1>6 DEF ProgressFails, EffectEnds
<1>7. CASE Wake \/ SleepCancelled \/ Finish
    BY <1>7 DEF Wake, TryAgain, SleepCancelled, Finish
<1>8. CASE CancelFromOutside \/ \E i \in Layers : Expire(i)
    BY <1>8 DEF CancelFromOutside, Expire, Awaiting
<1>9. CASE UNCHANGED vars
    BY <1>9 DEF vars
<1> QED
    BY <1>1, <1>2, <1>3, <1>4, <1>5, <1>6, <1>7, <1>8, <1>9
       DEF Next, TaskStep, LayerStep, PolicyRaises, RetryNow, RetryLater

(* An EventDispatchError that reaches the layers of any chain, in whatever      *)
(* order deadlines fire and cancellations come, is never retried and is what    *)
(* leaves execute().                                                            *)
THEOREM DispatchErrorsAreFinal == Spec => DispatchErrorIsFinal
<1>1. Init => DispatchInv
    BY DEF Init, DispatchInv
<1>2. DispatchInv /\ [Next]_vars => DispatchInv'
    BY StepKeepsDispatch
<1>3. DispatchInv /\ [Next]_vars
        => [outcome = "ede" => outcome' = "ede" /\ executions' = executions]_vars
  <2> SUFFICES ASSUME DispatchInv, Next, outcome = "ede"
               PROVE  outcome' = "ede" /\ executions' = executions
      BY DEF vars
  <2>1. pc \in {"leave", "done"}
      BY DEF DispatchInv
  <2>2. ASSUME NEW i \in Layers
        PROVE  ~ Retriable(i)
      BY DEF Retriable, NeverRetried
  <2>3. ASSUME NEW i \in Layers, LayerStep(i)
        PROVE  outcome' = "ede" /\ executions' = executions
      BY <2>1, <2>2, <2>3 DEF LayerStep, EnterTimeout, EnterRetry, LeaveTimeout, ExpiredAlone,
                              LeaveRetry, PolicyRaises, RetryNow, RetryLater
  <2>4. CASE Finish
      BY <2>4 DEF Finish
  <2>5. ~ (Execute \/ EffectAnswers \/ Deliver \/ CleanupEnds \/ ProgressFails \/ Wake
             \/ SleepCancelled \/ CancelFromOutside \/ \E i \in Layers : Expire(i))
      BY <2>1 DEF Execute, EffectAnswers, Deliver, CleanupEnds, ProgressFails, Wake,
                  SleepCancelled, CancelFromOutside, Expire, Awaiting
  <2> QED
      BY <2>3, <2>4, <2>5 DEF Next, TaskStep
<1> QED
    BY <1>1, <1>2, <1>3, PTL DEF Spec, DispatchErrorIsFinal

-----------------------------------------------------------------------------
(* How often the effect is executed.  calls[i] is how often layer i has called *)
(* what is inside it, calls[0] the one call of execute(): no variable of the   *)
(* code, but it exists at every step.                                          *)

Factor(i) == IF chain[i] = "retry" THEN MaxAttempts ELSE 1
Used(i)   == IF chain[i] = "retry" THEN attempt[i] ELSE 1
Allowed(i, n) == Factor(i) * n

(* The layers whose call is in progress are 1 .. Entered. *)
Entered == IF pc \in {"enter", "run"} THEN level - 1 ELSE level

(* What is called is allowed: by the calls that are over, by the one in        *)
(* progress as far as it has come, or, about to be made, not yet by that one.  *)
WithinLayer(i, calls) ==
    IF i <= Entered
    THEN calls[i] + Factor(i) <= Allowed(i, calls[i - 1]) + Used(i) /\ Used(i) <= Factor(i)
    ELSE IF pc = "enter" /\ i = level THEN calls[i] + Factor(i) <= Allowed(i, calls[i - 1])
    ELSE calls[i] <= Allowed(i, calls[i - 1])

Counts(calls) ==
    /\ calls \in [0 .. Len(chain) -> Nat] /\ calls[0] = 1
    /\ \A i \in Layers : WithinLayer(i, calls)
    /\ executions <= calls[Len(chain)]
    /\ pc = "enter" /\ level = Len(chain) + 1 => executions < calls[Len(chain)]

PlaceInv ==
    /\ chain \in Seq({"timeout", "retry"})
    /\ attempt \in [Layers -> Nat] /\ executions \in Nat
    /\ pc \in {"enter", "run", "sleep", "leave", "done"}
    /\ pc = "enter" => level \in 1 .. Len(chain) + 1
    /\ pc = "run" => level = Len(chain) + 1
    /\ pc = "sleep" => level \in Retries /\ AttemptsLeft(level)
    /\ pc = "leave" => level \in 0 .. Len(chain)
    /\ pc = "done" => level = 0

BoundInv == PlaceInv /\ \E calls : Counts(calls)

LEMMA OneMore ==
  ASSUME NEW i, Factor(i) \in Nat, NEW n \in Nat
  PROVE  Allowed(i, n) \in Nat /\ Allowed(i, n + 1) = Allowed(i, n) + Factor(i)
<1> DEFINE f == Factor(i)
<1>1. f \in Nat
    OBVIOUS
<1> HIDE DEF f
<1>2. f * (n + 1) = f * n + f /\ f * n \in Nat
    BY <1>1
<1> QED
    BY <1>2 DEF f, Allowed

LEMMA Factors ==
  ASSUME PlaceInv
  PROVE  /\ Len(chain) \in Nat /\ Layers = 1 .. Len(chain)
         /\ \A i \in Layers : Factor(i) \in Nat /\ 1 <= Factor(i) /\ Used(i) \in Nat
    BY ExecutionAssumption DEF PlaceInv, Layers, Factor, Used

LEMMA InitBound == Init => BoundInv
<1> SUFFICES ASSUME Init PROVE BoundInv
    OBVIOUS
<1>1. PlaceInv
    BY ExecutionAssumption DEF Init, PlaceInv, Layers
<1> DEFINE calls == [i \in 0 .. Len(chain) |-> IF i = 0 THEN 1 ELSE 0]
<1>2. Len(chain) \in Nat /\ Layers = 1 .. Len(chain)
    BY <1>1, Factors
<1>3. /\ calls \in [0 .. Len(chain) -> Nat] /\ calls[0] = 1
      /\ \A i \in Layers : calls[i] = 0
    BY <1>2
<1> HIDE DEF calls
<1>4. ASSUME NEW i \in Layers PROVE WithinLayer(i, calls)
  <2>1. i \in Nat /\ 1 <= i /\ i - 1 \in 0 .. Len(chain)
      BY <1>2
  <2>2. pc = "enter" /\ level = 1 /\ Entered = 0
      BY DEF Init, Entered
  <2>3. calls[i] = 0 /\ Factor(i) \in Nat /\ calls[i - 1] \in Nat
      BY <1>1, <1>3, <2>1, Factors
  <2>4. Allowed(i, calls[i - 1]) \in Nat
      BY <2>3, OneMore
  <2>5. i = 1 => Allowed(i, calls[i - 1]) = Factor(i)
      BY <1>3, <2>3 DEF Allowed
  <2> HIDE DEF Allowed
  <2> QED
      BY <2>1, <2>2, <2>3, <2>4, <2>5 DEF WithinLayer
<1>5. Counts(calls)
  <2>1. executions = 0 /\ pc = "enter" /\ level = 1
      BY DEF Init
  <2>2. level = Len(chain) + 1 => calls[Len(chain)] = 1
      BY <1>2, <1>3, <2>1
  <2>3. calls[Len(chain)] \in Nat
      BY <1>2, <1>3
  <2> QED
      BY <1>3, <1>4, <2>1, <2>2, <2>3 DEF Counts
<1> QED
    BY <1>1, <1>5 DEF BoundInv

(* Layer i calls what is inside it: for the first time, or again. *)
LEMMA Calling ==
  ASSUME BoundInv, NEW i \in Layers, pc' = "enter", level' = i + 1, PlaceInv',
         UNCHANGED <<chain, executions>>,
         Entered <= i, i - 1 <= Entered,
         \A j \in Layers : j # i => attempt'[j] = attempt[j],
         \/ pc = "enter" /\ level = i /\ (chain[i] = "retry" => attempt'[i] = 1)
         \/ Entered = i /\ chain[i] = "retry" /\ AttemptsLeft(i) /\ attempt'[i] = attempt[i] + 1
            /\ pc # "enter"
  PROVE  BoundInv'
<1>1. PICK calls : Counts(calls)
    BY DEF BoundInv
<1> DEFINE n == Len(chain)
           more == [calls EXCEPT ![i] = calls[i] + 1]
<1>2. n \in Nat /\ Layers = 1 .. n /\ i \in 1 .. n
    BY Factors DEF BoundInv
<1>3. /\ calls \in [0 .. n -> Nat] /\ calls[0] = 1 /\ executions \in Nat
      /\ \A j \in Layers : WithinLayer(j, calls)
      /\ executions <= calls[n]
    BY <1>1 DEF Counts, BoundInv, PlaceInv
<1> HIDE DEF n
<1>4. /\ more \in [0 .. n -> Nat] /\ more[0] = 1 /\ more[i] = calls[i] + 1
      /\ \A j \in 0 .. n : j # i => more[j] = calls[j]
    BY <1>2, <1>3
<1> HIDE DEF more
<1>5. Layers' = Layers /\ Entered' = i /\ Len(chain)' = n
      /\ \A j \in Layers : Factor(j)' = Factor(j) /\ (j # i => Used(j)' = Used(j))
    BY <1>2 DEF Layers, Entered, Factor, Used, n
<1>6. \A j \in Layers : /\ Factor(j) \in Nat /\ 1 <= Factor(j) /\ Used(j) \in Nat
                        /\ calls[j] \in Nat /\ calls[j - 1] \in Nat
                        /\ Allowed(j, calls[j - 1]) \in Nat
                        /\ Allowed(j, calls[j - 1] + 1) = Allowed(j, calls[j - 1]) + Factor(j)
  <2> SUFFICES ASSUME NEW j \in Layers
               PROVE  /\ Factor(j) \in Nat /\ 1 <= Factor(j) /\ Used(j) \in Nat
                      /\ calls[j] \in Nat /\ calls[j - 1] \in Nat
                      /\ Allowed(j, calls[j - 1]) \in Nat
                      /\ Allowed(j, calls[j - 1] + 1) = Allowed(j, calls[j - 1]) + Factor(j)
      OBVIOUS
  <2>1. j \in 0 .. n /\ j - 1 \in 0 .. n
      BY <1>2
  <2>2. Factor(j) \in Nat /\ 1 <= Factor(j) /\ Used(j) \in Nat
      BY Factors DEF BoundInv
  <2> QED
      BY <1>3, <2>1, <2>2, OneMore
<1>7. ASSUME NEW j \in Layers PROVE WithinLayer(j, more)'
  <2>1. j \in 1 .. n /\ j - 1 \in 0 .. n
      BY <1>2
  <2>2. Allowed(j, more[j - 1])' = Allowed(j, more[j - 1])
      BY <1>5 DEF Allowed
  <2>3. CASE j = i
    <3>1. more[j] = calls[i] + 1 /\ more[j - 1] = calls[i - 1]
        BY <1>2, <1>4, <2>1, <2>3
    <3>2. CASE pc = "enter" /\ level = i
      <4>1. calls[i] + Factor(i) <= Allowed(i, calls[i - 1])
          BY <1>2, <1>3, <3>2 DEF WithinLayer, Entered
      <4>2. Used(i)' = 1
          BY <3>2 DEF Used
      <4>3. more[j] + Factor(j) <= Allowed(j, more[j - 1]) + Used(i)' /\ Used(i)' <= Factor(j)
          BY <1>6, <2>3, <3>1, <4>1, <4>2
      <4>4. j <= Entered' /\ Factor(j)' = Factor(j)
          BY <1>2, <1>5, <2>3
      <4> QED
          BY <2>2, <2>3, <4>3, <4>4 DEF WithinLayer
    <3>3. CASE Entered = i /\ chain[i] = "retry" /\ AttemptsLeft(i)
               /\ attempt'[i] = attempt[i] + 1 /\ pc # "enter"
      <4>1. calls[i] + Factor(i) <= Allowed(i, calls[i - 1]) + Used(i)
          BY <1>2, <1>3, <3>3 DEF WithinLayer
      <4>2. Used(i)' = Used(i) + 1 /\ Used(i) + 1 <= Factor(i)
          BY <1>6, <3>3, ExecutionAssumption DEF Used, Factor, AttemptsLeft
      <4>3. more[j] + Factor(j) <= Allowed(j, more[j - 1]) + Used(i)' /\ Used(i)' <= Factor(j)
          BY <1>6, <2>3, <3>1, <4>1, <4>2
      <4>4. j <= Entered' /\ Factor(j)' = Factor(j)
          BY <1>2, <1>5, <2>3
      <4> QED
          BY <2>2, <2>3, <4>3, <4>4 DEF WithinLayer
    <3> QED
        BY <3>2, <3>3
  <2>4. CASE j = i + 1
    <3>1. more[j] = calls[j] /\ more[j - 1] = calls[j - 1] + 1
        BY <1>2, <1>4, <2>1, <2>4
    <3>2. calls[j] <= Allowed(j, calls[j - 1])
        BY <1>2, <1>3, <2>4 DEF WithinLayer, Entered
    <3>3. ~ (j <= Entered') /\ pc' = "enter" /\ j = level'
        BY <1>2, <1>5, <2>4
    <3> QED
        BY <1>5, <1>6, <2>2, <3>1, <3>2, <3>3 DEF WithinLayer
  <2>5. CASE j < i
    <3>1. more[j] = calls[j] /\ more[j - 1] = calls[j - 1]
        BY <1>2, <1>4, <2>1, <2>5
    <3>2. j <= Entered /\ j <= Entered'
      <4>1. Entered \in Int
          BY DEF Entered, BoundInv, PlaceInv, Retries, Layers
      <4> QED
          BY <1>2, <1>5, <2>1, <2>5, <4>1
    <3> QED
        BY <1>2, <1>3, <1>5, <2>1, <2>2, <2>5, <3>1, <3>2 DEF WithinLayer
  <2>6. CASE j > i + 1
    <3>1. more[j] = calls[j] /\ more[j - 1] = calls[j - 1]
        BY <1>2, <1>4, <2>1, <2>6
    <3>2. ~ (j <= Entered) /\ ~ (pc = "enter" /\ j = level)
          /\ ~ (j <= Entered') /\ ~ (pc' = "enter" /\ j = level')
      <4>1. Entered \in Int
          BY DEF Entered, BoundInv, PlaceInv, Retries, Layers
      <4> QED
          BY <1>2, <1>5, <2>1, <2>6, <4>1
    <3> QED
        BY <1>3, <1>5, <2>2, <3>1, <3>2 DEF WithinLayer
  <2> QED
      BY <1>2, <2>1, <2>3, <2>4, <2>5, <2>6
<1>8. executions <= more[n] /\ (level' = n + 1 => executions < more[n])
  <2>1. CASE i = n
      BY <1>2, <1>3, <1>4, <2>1
  <2>2. CASE i # n
    <3>1. more[n] = calls[n] /\ level' # n + 1
        BY <1>2, <1>4, <2>2
    <3> QED
        BY <1>3, <3>1
  <2> QED
      BY <2>1, <2>2
<1>9. Counts(more)'
    BY <1>4, <1>5, <1>7, <1>8 DEF Counts
<1> QED
    BY <1>9 DEF BoundInv

(* Layer i is done with the call it was given. *)
LEMMA Leaving ==
  ASSUME BoundInv, NEW i \in Layers, Entered = i, pc # "enter", pc' = "leave", level' = i - 1,
         PlaceInv', UNCHANGED <<chain, attempt, executions>>
  PROVE  BoundInv'
<1>1. PICK calls : Counts(calls)
    BY DEF BoundInv
<1>2. Layers = 1 .. Len(chain) /\ i \in Nat /\ Len(chain) \in Nat
    BY Factors DEF BoundInv
<1>3. Layers' = Layers /\ Entered' = i - 1
      /\ \A j \in Layers : Factor(j)' = Factor(j) /\ Used(j)' = Used(j)
    BY DEF Layers, Entered, Factor, Used
<1>4. ASSUME NEW j \in Layers PROVE WithinLayer(j, calls)'
  <2>1. WithinLayer(j, calls) /\ j \in Nat
      BY <1>1, <1>2 DEF Counts
  <2>2. Allowed(j, calls[j - 1])' = Allowed(j, calls[j - 1])
      BY <1>3 DEF Allowed
  <2>3. CASE j < i
    <3>1. j <= Entered /\ j <= Entered'
        BY <1>2, <1>3, <2>1, <2>3
    <3> QED
        BY <1>3, <2>1, <2>2, <3>1 DEF WithinLayer
  <2>4. CASE j = i
    <3>1. calls[j] + Factor(j) <= Allowed(j, calls[j - 1]) + Used(j) /\ Used(j) <= Factor(j)
        BY <1>2, <2>1, <2>4 DEF WithinLayer
    <3>2. /\ Factor(j) \in Nat /\ Used(j) \in Nat /\ calls[j] \in Nat
          /\ Allowed(j, calls[j - 1]) \in Nat
      <4>1. j \in 0 .. Len(chain) /\ j - 1 \in 0 .. Len(chain)
          BY <1>2
      <4>2. Factor(j) \in Nat /\ Used(j) \in Nat
          BY Factors DEF BoundInv
      <4> QED
          BY <1>1, <4>1, <4>2, OneMore DEF Counts
    <3>3. calls[j] <= Allowed(j, calls[j - 1])
        BY <3>1, <3>2
    <3>4. ~ (j <= Entered') /\ pc' # "enter"
        BY <1>2, <1>3, <2>4
    <3> QED
        BY <2>2, <3>3, <3>4 DEF WithinLayer
  <2>5. CASE j > i
    <3>1. ~ (j <= Entered) /\ ~ (j <= Entered') /\ pc' # "enter"
        BY <1>2, <1>3, <2>1, <2>5
    <3> QED
        BY <1>3, <2>1, <2>2, <3>1 DEF WithinLayer
  <2> QED
      BY <1>2, <2>1, <2>3, <2>4, <2>5
<1>5. Counts(calls)'
    BY <1>1, <1>3, <1>4 DEF Counts
<1> QED
    BY <1>5 DEF BoundInv

(* Steps that neither make nor finish the call of a layer. *)
LEMMA Within ==
  ASSUME BoundInv, UNCHANGED <<chain, attempt>>, Entered' = Entered, PlaceInv',
         \/ UNCHANGED <<pc, level, executions>>
         \/ pc # "enter" /\ pc' # "enter" /\ executions' = executions
         \/ Execute
  PROVE  BoundInv'
<1>1. PICK calls : Counts(calls)
    BY DEF BoundInv
<1>2. Layers' = Layers
      /\ \A j \in Layers : Factor(j)' = Factor(j) /\ Used(j)' = Used(j)
    BY DEF Layers, Factor, Used
<1>3. Layers = 1 .. Len(chain) /\ Len(chain) \in Nat
    BY Factors DEF BoundInv
<1>4. ASSUME NEW j \in Layers PROVE WithinLayer(j, calls)'
  <2>1. WithinLayer(j, calls)
      BY <1>1 DEF Counts
  <2>2. Allowed(j, calls[j - 1])' = Allowed(j, calls[j - 1])
      BY <1>2 DEF Allowed
  <2>3. (pc' = "enter" /\ j = level') <=> (pc = "enter" /\ j = level)
      BY <1>3 DEF Execute
  <2> QED
      BY <1>2, <2>1, <2>2, <2>3 DEF WithinLayer
<1>5. executions' <= calls[Len(chain)]
      /\ (pc' = "enter" /\ level' = Len(chain) + 1 => executions' < calls[Len(chain)])
  <2>1. /\ executions <= calls[Len(chain)] /\ executions \in Nat
        /\ calls[Len(chain)] \in Nat
        /\ pc = "enter" /\ level = Len(chain) + 1 => executions < calls[Len(chain)]
      BY <1>1, <1>3 DEF Counts, BoundInv, PlaceInv
  <2>2. CASE Execute
    <3>1. executions' = executions \/ executions' = executions + 1
        BY <2>2 DEF Execute
    <3> QED
        BY <2>1, <2>2, <3>1 DEF Execute
  <2> QED
      BY <2>1, <2>2
<1>6. Counts(calls)'
    BY <1>1, <1>2, <1>4, <1>5 DEF Counts
<1> QED
    BY <1>6 DEF BoundInv

LEMMA StepPlace == PlaceInv /\ [Next]_vars => PlaceInv'
<1> SUFFICES ASSUME PlaceInv, [Next]_vars
             PROVE  PlaceInv'
    OBVIOUS
<1> USE DEF PlaceInv, layerVars
<1>1. Len(chain) \in Nat /\ Layers = 1 .. Len(chain)
    BY Factors
<1>2. chain' = chain
    BY DEF Next, TaskStep, LayerStep, EnterTimeout, EnterRetry, LeaveTimeout, LeaveRetry,
           PolicyRaises, RetryNow, RetryLater, Execute, Deliver, CleanupEnds, Wake,
           SleepCancelled, Finish, EffectAnswers, ProgressFails, Expire,
           CancelFromOutside, vars
<1>3. Layers' = Layers /\ Retries' = Retries /\ Retries \subseteq Layers
    BY <1>2 DEF Layers, Retries
<1>4. ASSUME NEW i \in Layers, EnterTimeout(i) \/ EnterRetry(i)
      PROVE  PlaceInv'
  <2>1. /\ pc' = "enter" /\ level' = i + 1 /\ executions' = executions
        /\ attempt' = attempt \/ attempt' = [attempt EXCEPT ![i] = 1]
      BY <1>4 DEF EnterTimeout, EnterRetry
  <2> QED
      BY <1>1, <1>2, <1>3, <2>1
<1>5. ASSUME NEW i \in Layers, LeaveTimeout(i) \/ LeaveRetry(i) \/ PolicyRaises(i)
      PROVE  PlaceInv'
  <2>1. pc' = "leave" /\ level' = i - 1 /\ UNCHANGED <<attempt, executions>>
      BY <1>5 DEF LeaveTimeout, LeaveRetry, PolicyRaises, Retriable
  <2> QED
      BY <1>1, <1>2, <1>3, <2>1
<1>6. ASSUME NEW i \in Layers, TryAgain(i), executions' = executions
      PROVE  PlaceInv'
  <2>1. pc' = "enter" /\ level' = i + 1 /\ attempt' = [attempt EXCEPT ![i] = @ + 1]
      BY <1>6 DEF TryAgain
  <2> QED
      BY <1>1, <1>2, <1>3, <1>6, <2>1
<1>7. ASSUME NEW i \in Layers, RetryLater(i)
      PROVE  PlaceInv'
  <2>1. /\ pc' = "sleep" /\ level' = i /\ i \in Retries /\ AttemptsLeft(i)
        /\ UNCHANGED <<attempt, executions>>
      BY <1>7 DEF RetryLater, Retriable
  <2> QED
      BY <1>1, <1>2, <1>3, <2>1 DEF AttemptsLeft
<1>8. CASE Execute
    BY <1>1, <1>2, <1>3, <1>8 DEF Execute
<1>9. ASSUME NEW how, EffectEnds(how), UNCHANGED <<attempt, executions>>
      PROVE  PlaceInv'
    BY <1>1, <1>2, <1>3, <1>9 DEF EffectEnds
<1>10. ASSUME UNCHANGED <<pc, level, attempt, executions>>
       PROVE  PlaceInv'
    BY <1>2, <1>3, <1>10 DEF AttemptsLeft
<1>11. CASE SleepCancelled \/ Finish
  <2>1. \/ pc' = "leave" /\ level' = level - 1 /\ level \in Layers
        \/ pc' = "done" /\ level' = 0
      BY <1>3, <1>11 DEF SleepCancelled, Finish
  <2>2. UNCHANGED <<attempt, executions>>
      BY <1>11 DEF SleepCancelled, Finish
  <2> QED
      BY <1>1, <1>2, <1>3, <2>1, <2>2
<1>12. CASE \E i \in Layers : LayerStep(i)
    BY <1>4, <1>5, <1>6, <1>7, <1>12 DEF LayerStep, RetryNow
<1>13. CASE Wake
    BY <1>3, <1>6, <1>13 DEF Wake
<1>14. CASE EffectAnswers \/ ProgressFails \/ CleanupEnds
    BY <1>9, <1>10, <1>14 DEF EffectAnswers, ProgressFails, CleanupEnds
<1>15. CASE Deliver \/ CancelFromOutside \/ (\E i \in Layers : Expire(i)) \/ UNCHANGED vars
    BY <1>10, <1>15 DEF Deliver, CancelFromOutside, Expire, vars
<1> QED
    BY <1>8, <1>11, <1>12, <1>13, <1>14, <1>15 DEF Next, TaskStep

LEMMA StepBound == BoundInv /\ [Next]_vars => BoundInv'
<1> SUFFICES ASSUME BoundInv, [Next]_vars
             PROVE  BoundInv'
    OBVIOUS
<1>1. PlaceInv /\ PlaceInv'
    BY StepPlace DEF BoundInv
<1>2. Len(chain) \in Nat /\ Layers = 1 .. Len(chain) /\ attempt \in [Layers -> Nat]
    BY <1>1, Factors DEF PlaceInv
<1>3. ASSUME NEW i \in Layers, EnterTimeout(i) \/ EnterRetry(i)
      PROVE  BoundInv'
  <2>1. /\ pc = "enter" /\ level = i /\ pc' = "enter" /\ level' = i + 1
        /\ UNCHANGED <<chain, executions>> /\ Entered = i - 1
        /\ chain[i] = "retry" => attempt' = [attempt EXCEPT ![i] = 1]
        /\ attempt' = attempt \/ attempt' = [attempt EXCEPT ![i] = 1]
      BY <1>3 DEF EnterTimeout, EnterRetry, Entered, Timeouts, Retries
  <2>2. Entered <= i /\ i - 1 <= Entered
      BY <1>2, <2>1
  <2>3. \A j \in Layers : j # i => attempt'[j] = attempt[j]
      BY <1>2, <2>1
  <2>4. chain[i] = "retry" => attempt'[i] = 1
      BY <1>2, <2>1
  <2> QED
      BY <1>1, <2>1, <2>2, <2>3, <2>4, Calling
<1>4. ASSUME NEW i \in Retries, TryAgain(i), AttemptsLeft(i), pc \in {"leave", "sleep"},
             level = i, UNCHANGED <<chain, executions>>
      PROVE  BoundInv'
  <2>1. /\ pc' = "enter" /\ level' = i + 1 /\ attempt' = [attempt EXCEPT ![i] = @ + 1]
        /\ Entered = i /\ i \in Layers /\ chain[i] = "retry"
      BY <1>4 DEF TryAgain, Entered, Retries
  <2>2. attempt'[i] = attempt[i] + 1 /\ \A j \in Layers : j # i => attempt'[j] = attempt[j]
      BY <1>2, <2>1
  <2>3. Entered <= i /\ i - 1 <= Entered
      BY <1>2, <2>1
  <2> QED
      BY <1>1, <1>4, <2>1, <2>2, <2>3, Calling
<1>5. ASSUME NEW i \in Layers, LeaveTimeout(i) \/ LeaveRetry(i) \/ PolicyRaises(i)
      PROVE  BoundInv'
  <2>1. /\ pc = "leave" /\ pc' = "leave" /\ level = i /\ level' = i - 1
        /\ UNCHANGED <<chain, attempt, executions>>
      BY <1>5 DEF LeaveTimeout, LeaveRetry, PolicyRaises, Retriable, layerVars
  <2> QED
      BY <1>1, <2>1, Leaving DEF Entered
<1>6. CASE SleepCancelled
  <2>1. /\ pc = "sleep" /\ pc' = "leave" /\ level' = level - 1 /\ level \in Layers
        /\ UNCHANGED <<chain, attempt, executions>>
      BY <1>1, <1>6 DEF SleepCancelled, layerVars, PlaceInv, Retries
  <2> QED
      BY <1>1, <2>1, Leaving DEF Entered
<1>7. ASSUME NEW i \in Layers, RetryNow(i)
      PROVE  BoundInv'
    BY <1>4, <1>7 DEF RetryNow, Retriable
<1>8. CASE Wake
    BY <1>1, <1>4, <1>8 DEF Wake, PlaceInv
<1>9. CASE Execute
  <2>1. Entered' = Entered
      BY <1>9 DEF Execute, Entered
  <2> QED
      BY <1>1, <1>9, <2>1, Within DEF Execute, layerVars
<1>10. ASSUME UNCHANGED <<chain, pc, level, attempt, executions>>
       PROVE  BoundInv'
    BY <1>1, <1>10, Within DEF Entered
<1>11. ASSUME NEW how, pc = "run", EffectEnds(how), UNCHANGED <<chain, attempt, executions>>
       PROVE  BoundInv'
  <2>1. Entered' = Entered
      BY <1>1, <1>2, <1>11 DEF EffectEnds, Entered, PlaceInv
  <2> QED
      BY <1>1, <1>11, <2>1, Within DEF EffectEnds
<1>12. ASSUME NEW i \in Layers, RetryLater(i)
       PROVE  BoundInv'
  <2>1. /\ pc = "leave" /\ pc' = "sleep" /\ UNCHANGED <<chain, level, attempt, executions>>
      BY <1>12 DEF RetryLater, Retriable, layerVars
  <2> QED
      BY <1>1, <2>1, Within DEF Entered
<1>13. CASE Finish
  <2>1. /\ pc = "leave" /\ pc' = "done" /\ UNCHANGED <<chain, level, attempt, executions>>
      BY <1>13 DEF Finish, layerVars
  <2> QED
      BY <1>1, <2>1, Within DEF Entered
<1>14. CASE EffectAnswers \/ ProgressFails \/ CleanupEnds
    BY <1>10, <1>11, <1>14 DEF EffectAnswers, ProgressFails, CleanupEnds, layerVars
<1>15. CASE Deliver \/ CancelFromOutside \/ (\E i \in Layers : Expire(i)) \/ UNCHANGED vars
    BY <1>10, <1>15 DEF Deliver, CancelFromOutside, Expire, vars, layerVars
<1> QED
    BY <1>3, <1>5, <1>6, <1>7, <1>8, <1>9, <1>12, <1>13, <1>14, <1>15
       DEF Next, TaskStep, LayerStep

LEMMA InductionUpTo ==
  ASSUME NEW n \in Nat, NEW S, 0 \in S, \A i \in 1 .. n : i - 1 \in S => i \in S
  PROVE  \A i \in 0 .. n : i \in S
<1> DEFINE Rest == {i \in Nat : i <= n /\ i \notin S}
<1> SUFFICES ASSUME Rest # {} PROVE FALSE
    OBVIOUS
<1>1. PICK i \in Rest : \A k \in Rest : ~ (<<k, i>> \in OpToRel(<, Nat))
  <2>1. Rest \subseteq Nat
      OBVIOUS
  <2> HIDE DEF Rest
  <2> QED
      BY <2>1, NatLessThanWellFounded, WFMin, Zenon
<1>2. \A k \in Rest : ~ (k < i)
    BY <1>1 DEF OpToRel
<1>3. i \in 1 .. n /\ i - 1 \in Nat /\ i - 1 <= n /\ i - 1 < i
    OBVIOUS
<1>4. i - 1 \in S
    BY <1>2, <1>3
<1> QED
    BY <1>3, <1>4

(* The product of the attempts, layer by layer. *)
Products(upto, n) ==
    /\ upto \in [0 .. n -> Nat] /\ upto[0] = 1
    /\ \A i \in 1 .. n : upto[i] = Allowed(i, upto[i - 1])

LEMMA ProductsExist ==
  ASSUME PlaceInv
  PROVE  \E upto : Products(upto, Len(chain))
<1> DEFINE n == Len(chain)
           S == {i \in 0 .. n : \E upto : Products(upto, i)}
<1>1. n \in Nat /\ Layers = 1 .. n
    BY Factors
<1> HIDE DEF n
<1>2. 0 \in S
  <2>1. Products([i \in 0 .. 0 |-> 1], 0)
      BY DEF Products
  <2> QED
      BY <1>1, <2>1
<1>3. ASSUME NEW i \in 1 .. n, i - 1 \in S
      PROVE  i \in S
  <2>1. PICK f : Products(f, i - 1)
      BY <1>3
  <2> DEFINE g == [k \in 0 .. i |-> IF k = i THEN Allowed(i, f[i - 1]) ELSE f[k]]
  <2>2. /\ f \in [0 .. (i - 1) -> Nat] /\ f[0] = 1
        /\ \A k \in 1 .. (i - 1) : f[k] = Allowed(k, f[k - 1])
      BY <2>1 DEF Products
  <2>3. Allowed(i, f[i - 1]) \in Nat
    <3>1. f[i - 1] \in Nat /\ Factor(i) \in Nat
        BY <1>1, <2>2, Factors
    <3> QED
        BY <3>1, OneMore
  <2> HIDE DEF Allowed
  <2>4. g \in [0 .. i -> Nat] /\ g[0] = 1
      BY <2>2, <2>3
  <2>5. ASSUME NEW k \in 1 .. i
        PROVE  g[k] = Allowed(k, g[k - 1])
    <3>1. g[k - 1] = f[k - 1]
        OBVIOUS
    <3>2. CASE k = i
        BY <3>1, <3>2
    <3>3. CASE k # i
      <4>1. k \in 1 .. (i - 1) /\ g[k] = f[k]
          BY <3>3
      <4> QED
          BY <2>2, <3>1, <4>1
    <3> QED
        BY <3>2, <3>3
  <2> HIDE DEF g
  <2>6. Products(g, i)
      BY <2>4, <2>5 DEF Products
  <2> QED
      BY <1>1, <2>6
<1> HIDE DEF S
<1>4. n \in S
  <2>1. \A i \in 0 .. n : i \in S
      BY <1>1, <1>2, <1>3, InductionUpTo
  <2> QED
      BY <1>1, <2>1
<1> QED
    BY <1>4 DEF S, n

LEMMA MaxIsProduct ==
  ASSUME PlaceInv
  PROVE  \E upto : Products(upto, Len(chain)) /\ MaxExecutions = upto[Len(chain)]
<1> DEFINE n == Len(chain)
           Eq(f) == f = [i \in 0 .. n |->
                           IF i = 0 THEN 1
                           ELSE IF chain[i] = "retry" THEN MaxAttempts * f[i - 1] ELSE f[i - 1]]
           upto == CHOOSE f : Eq(f)
<1>1. MaxExecutions = upto[n]
    BY DEF MaxExecutions
<1>2. n \in Nat /\ Layers = 1 .. n
    BY Factors
<1> HIDE DEF n
<1>3. ASSUME NEW i \in 1 .. n, NEW x \in Nat
      PROVE  Allowed(i, x) = IF chain[i] = "retry" THEN MaxAttempts * x ELSE x
    BY DEF Allowed, Factor
<1>4. \E f : Eq(f)
  <2>1. PICK f : Products(f, n)
      BY ProductsExist DEF n
  <2>2. /\ f \in [0 .. n -> Nat] /\ f[0] = 1
        /\ \A i \in 1 .. n : f[i] = Allowed(i, f[i - 1])
      BY <2>1 DEF Products
  <2>3. ASSUME NEW i \in 0 .. n
        PROVE  f[i] = IF i = 0 THEN 1
                      ELSE IF chain[i] = "retry" THEN MaxAttempts * f[i - 1] ELSE f[i - 1]
    <3>1. CASE i = 0
        BY <2>2, <3>1
    <3>2. CASE i # 0
      <4>1. i \in 1 .. n /\ f[i - 1] \in Nat
          BY <1>2, <2>2, <3>2
      <4> QED
          BY <1>3, <2>2, <3>2, <4>1
    <3> QED
        BY <3>1, <3>2
  <2>4. Eq(f)
      BY <2>2, <2>3
  <2> QED
      BY <2>4
<1>5. Eq(upto)
    BY <1>4
<1> HIDE DEF upto
<1>6. /\ upto[0] = 1
      /\ \A i \in 1 .. n : upto[i] = IF chain[i] = "retry" THEN MaxAttempts * upto[i - 1]
                                                           ELSE upto[i - 1]
      /\ upto = [i \in 0 .. n |-> upto[i]]
    BY <1>2, <1>5
<1> HIDE DEF Eq
<1>7. \A i \in 0 .. n : upto[i] \in Nat
  <2> DEFINE S == {i \in 0 .. n : upto[i] \in Nat}
  <2>1. 0 \in S
      BY <1>2, <1>6
  <2>2. ASSUME NEW i \in 1 .. n, i - 1 \in S PROVE i \in S
    <3>1. upto[i - 1] \in Nat /\ MaxAttempts \in Nat
        BY <2>2, ExecutionAssumption
    <3>2. MaxAttempts * upto[i - 1] \in Nat
        BY <3>1
    <3>3. i \in 0 .. n
        BY <1>2
    <3>4. upto[i] = IF chain[i] = "retry" THEN MaxAttempts * upto[i - 1] ELSE upto[i - 1]
        BY <1>6
    <3>5. upto[i] \in Nat
        BY <3>1, <3>2, <3>4, Zenon
    <3> QED
        BY <3>3, <3>5
  <2> HIDE DEF S
  <2>3. \A i \in 0 .. n : i \in S
      BY <1>2, <2>1, <2>2, InductionUpTo
  <2> QED
      BY <2>3 DEF S
<1>8. Products(upto, n)
  <2>1. upto \in [0 .. n -> Nat]
      BY <1>6, <1>7
  <2>2. \A i \in 1 .. n : upto[i] = Allowed(i, upto[i - 1])
    <3> TAKE i \in 1 .. n
    <3>1. upto[i - 1] \in Nat
        BY <1>2, <1>7
    <3> QED
        BY <1>3, <1>6, <3>1
  <2> QED
      BY <1>6, <2>1, <2>2 DEF Products
<1> QED
    BY <1>1, <1>8 DEF n

LEMMA AllowedGrows ==
  ASSUME NEW i, Factor(i) \in Nat, NEW a \in Nat, NEW b \in Nat, a <= b
  PROVE  Allowed(i, a) <= Allowed(i, b)
<1> DEFINE f == Factor(i)
<1>1. f \in Nat
    OBVIOUS
<1> HIDE DEF f
<1>2. f * a <= f * b
    BY <1>1
<1> QED
    BY <1>2 DEF f, Allowed

LEMMA Bounded == BoundInv => executions <= MaxExecutions
<1> SUFFICES ASSUME BoundInv PROVE executions <= MaxExecutions
    OBVIOUS
<1>1. PICK calls : Counts(calls)
    BY DEF BoundInv
<1>2. PICK upto : Products(upto, Len(chain)) /\ MaxExecutions = upto[Len(chain)]
    BY MaxIsProduct DEF BoundInv
<1> DEFINE n == Len(chain)
           S == {i \in 0 .. n : calls[i] <= upto[i]}
<1>3. n \in Nat /\ Layers = 1 .. n /\ executions \in Nat
    BY Factors DEF BoundInv, PlaceInv
<1>4. /\ calls \in [0 .. n -> Nat] /\ upto \in [0 .. n -> Nat] /\ calls[0] = 1 /\ upto[0] = 1
      /\ \A i \in 1 .. n : WithinLayer(i, calls) /\ upto[i] = Allowed(i, upto[i - 1])
      /\ executions <= calls[n]
    BY <1>1, <1>2, <1>3 DEF Counts, Products
<1> HIDE DEF n
<1>5. 0 \in S
    BY <1>3, <1>4
<1>6. ASSUME NEW i \in 1 .. n, i - 1 \in S
      PROVE  i \in S
  <2>1. calls[i - 1] <= upto[i - 1] /\ i - 1 \in 0 .. n /\ i \in 0 .. n
      BY <1>3, <1>6
  <2>2. /\ calls[i - 1] \in Nat /\ upto[i - 1] \in Nat /\ calls[i] \in Nat /\ upto[i] \in Nat
      BY <1>4, <2>1
  <2>3. Factor(i) \in Nat /\ Used(i) \in Nat
      BY <1>3, Factors DEF BoundInv
  <2>4. Allowed(i, calls[i - 1]) \in Nat /\ Allowed(i, calls[i - 1]) <= Allowed(i, upto[i - 1])
      BY <2>1, <2>2, <2>3, OneMore, AllowedGrows
  <2>5. calls[i] <= Allowed(i, calls[i - 1])
      BY <1>4, <2>2, <2>3, <2>4 DEF WithinLayer
  <2>6. calls[i] <= upto[i]
      BY <1>4, <2>2, <2>4, <2>5
  <2> QED
      BY <2>1, <2>6
<1> HIDE DEF S
<1>7. n \in S
  <2>1. \A i \in 0 .. n : i \in S
      BY <1>3, <1>5, <1>6, InductionUpTo
  <2> QED
      BY <1>3, <2>1
<1>8. calls[n] <= upto[n] /\ calls[n] \in Nat /\ upto[n] \in Nat
    BY <1>3, <1>4, <1>7 DEF S
<1>9. executions <= upto[n]
    BY <1>3, <1>4, <1>8
<1> QED
    BY <1>2, <1>9 DEF n

(* The effect is never executed more often than the retry layers allow         *)
(* together, whatever fails, expires or is cancelled: the product of their     *)
(* attempts, for every chain, the bound half of ExecutionEnds.                 *)
THEOREM ExecutionsAreBounded == Spec => [](executions <= MaxExecutions)
    BY InitBound, StepBound, Bounded, PTL DEF Spec
===============================================================================
