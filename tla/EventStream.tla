----------------------------- MODULE EventStream -----------------------------
(***************************************************************************)
(* What one agent run promises to an event sink: the order of the          *)
(* lifecycle events of docs/events.md, and what may still be offered after *)
(* an emit() call that did not return normally.  It is the abstract        *)
(* specification of the driver; AgentDriver implements it.                 *)
(*                                                                         *)
(* The state is only the last event offered, so that the specification     *)
(* has no unbounded log and an implementation can be mapped to it.         *)
(***************************************************************************)
EXTENDS Naturals

CONSTANT
    SinkFaults   \* what a sink's emit() may do instead of returning None

VARIABLE
    last         \* the last event offered: its kind, effect index, and the sink's answer

Answers == {"ok"} \cup SinkFaults

EffectEnds == {"EffectSucceeded", "EffectFailed"}
RunEnds    == {"RunSucceeded", "RunFailed", "RunCancelled"}
InEffect   == {"EffectStarted", "EffectProgress"}
RunEvents  == {"RunStarted"} \cup RunEnds
Kinds      == {"none", "RunStarted"} \cup InEffect \cup EffectEnds \cup RunEnds

Events == [kind : Kinds, step : Nat, sink : Answers]

NoEvent == [kind |-> "none", step |-> 0, sink |-> "ok"]

Offer(kind, k) == \E answer \in Answers :
                      last' = [kind |-> kind, step |-> k, sink |-> answer]

-----------------------------------------------------------------------------
(* emit() raised an ordinary exception: the dispatch itself failed. *)
Undelivered == last.sink \in {"exc", "ede"}

(* The run can go on: a progress event interrupted by a cancellation or by a  *)
(* BaseException is the one case an executor can swallow.                     *)
Continues == \/ last.sink = "ok"
             \/ last.kind = "EffectProgress" /\ ~ Undelivered

InsideEffect == last.kind \in InEffect /\ Continues
BetweenEffects == last.kind \in {"RunStarted"} \cup EffectEnds /\ last.sink = "ok"
NextIndex == IF last.kind = "RunStarted" THEN 0 ELSE last.step + 1

StartRun == last = NoEvent /\ Offer("RunStarted", 0)

StartEffect == BetweenEffects /\ Offer("EffectStarted", NextIndex)

ProgressEffect == InsideEffect /\ Offer("EffectProgress", last.step)

EndEffect == InsideEffect /\ \E kind \in EffectEnds : Offer(kind, last.step)

Succeed == BetweenEffects /\ Offer("RunSucceeded", 0)

Fail == Continues /\ last.kind \notin RunEnds /\ Offer("RunFailed", 0)

(* A sink that answers RunSucceeded with CancelledError cancels a run that     *)
(* had already returned: the only event that can follow a terminal one.        *)
Cancel == /\ last.sink \in {"ok", "cancel"} \/ Continues
          /\ \/ last.kind \notin RunEnds
             \/ last.kind = "RunSucceeded" /\ last.sink = "cancel"
          /\ Offer("RunCancelled", 0)

Init == last = NoEvent

Next == \/ StartRun
        \/ StartEffect
        \/ ProgressEffect
        \/ EndEffect
        \/ Succeed
        \/ Fail
        \/ Cancel

Spec == Init /\ [][Next]_last
=============================================================================
