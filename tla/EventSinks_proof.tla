--------------------------- MODULE EventSinks_proof ---------------------------
(***************************************************************************)
(* Proofs about EventSinks, for any tree of sinks and any callbacks.       *)
(*                                                                         *)
(* The walk of one emit() call leaves sinks out in two ways: it ends early *)
(* and then emit() has not returned normally, or a guard jumps behind its  *)
(* part of the tree, where every observer is guarded.  WalkInv says that   *)
(* every other observer the walk has passed accepted the event.            *)
(* HearInv adds, for the observers it has not passed, that they can hear   *)
(* the event: leaving out an undelivered one makes no gap (SkippingIsSafe).*)
(***************************************************************************)
EXTENDS EventSinks, WellFoundedInduction, TLAPS

WalkInv == at > 0 =>
    \A l \in Unguarded : l < at => heard[l] = [offered EXCEPT !.sink = "ok"]

Lost == \E l \in Unguarded : heard[l].sink \in Ordinary

(* A lost observer has ended its walk, and the driver knows. *)
LostInv == Lost => at = 0 /\ offered.sink \in Ordinary

IInv == TypeOK /\ (at = 0 => guard = 0) /\ WalkInv /\ AcceptedByAll /\ LostInv

-----------------------------------------------------------------------------
(* The sinks around a sink come before it; one of them is the innermost.       *)
LEMMA SinkFacts ==
  /\ Len(Sinks) \in Nat /\ DOMAIN Sinks = 1 .. Len(Sinks)
  /\ \A n \in 1 .. Len(Sinks) : /\ Sinks[n].kind \in Kinds
                                /\ Sinks[n].end \in n .. Len(Sinks)
<1>1. /\ Sinks \in Seq([kind : Kinds, end : Nat])
      /\ \A n \in DOMAIN Sinks : Sinks[n].end \in n .. Len(Sinks)
    BY SinksAssumption DEF SinksAssumption
<1>2. Len(Sinks) \in Nat /\ DOMAIN Sinks = 1 .. Len(Sinks)
    BY <1>1
<1>3. \A n \in 1 .. Len(Sinks) : Sinks[n] \in [kind : Kinds, end : Nat]
  <2> DEFINE Nodes == [kind : Kinds, end : Nat]
  <2>1. Sinks \in Seq(Nodes)
      BY <1>1
  <2> HIDE DEF Nodes
  <2>2. \A n \in 1 .. Len(Sinks) : Sinks[n] \in Nodes
      BY <1>2, <2>1
  <2> QED
      BY <2>2 DEF Nodes
<1> QED
    BY <1>1, <1>2, <1>3

LEMMA GuardsPrecede ==
  ASSUME NEW n \in Nat, NEW g \in Guards(n)
  PROVE  /\ g \in 1 .. Len(Sinks) /\ g < n /\ n <= Sinks[g].end
         /\ Sinks[g].kind \in {"safe", "reporting"}
BY SinkFacts DEF Guards

LEMMA InnermostExists ==
  ASSUME NEW n \in Nat, Guards(n) # {}
  PROVE  Innermost(Guards(n)) \in Guards(n)
<1> DEFINE Depths == {Len(Sinks) - g : g \in Guards(n)}
<1>1. Depths \subseteq Nat /\ Depths # {}
    BY SinkFacts, GuardsPrecede
<1>2. PICK d \in Depths : \A e \in Depths : ~ (<<e, d>> \in OpToRel(<, Nat))
  <2> HIDE DEF Depths
  <2> QED
      BY <1>1, NatLessThanWellFounded, WFMin, Zenon
<1>3. PICK g \in Guards(n) : d = Len(Sinks) - g
    BY <1>2
<1>4. \A h \in Guards(n) : h <= g
  <2> SUFFICES ASSUME NEW h \in Guards(n), h > g PROVE FALSE
      BY GuardsPrecede, <1>3
  <2>1. Len(Sinks) - h \in Depths /\ Len(Sinks) - h < d
      BY <1>3, SinkFacts, GuardsPrecede
  <2>2. <<Len(Sinks) - h, d>> \in OpToRel(<, Nat)
      BY <2>1, <1>1 DEF OpToRel
  <2> QED
      BY <1>2, <2>1, <2>2
<1> QED
    BY <1>4, <1>3 DEF Innermost

(* Whatever guards a guard guards what is inside it. *)
LEMMA GuardsNest ==
  ASSUME NEW n \in Nat, NEW g \in Guards(n), NEW h \in Guards(g)
  PROVE  h \in Guards(n)
<1>1. g \in 1 .. Len(Sinks) /\ g < n /\ n <= Sinks[g].end
    BY GuardsPrecede
<1>2. h \in 1 .. Len(Sinks) /\ h < g /\ g <= Sinks[h].end
    BY <1>1, GuardsPrecede
<1>3. Sinks[g].end <= Sinks[h].end
  <2>1. \A k \in 1 .. Len(Sinks) : \A m \in k .. Sinks[k].end : Sinks[m].end <= Sinks[k].end
      BY SinkFacts, SinksAssumption DEF SinksAssumption
  <2>2. g \in h .. Sinks[h].end
      BY <1>1, <1>2, SinkFacts
  <2> QED
      BY <1>2, <2>1, <2>2
<1> QED
    BY <1>1, <1>2, <1>3, SinkFacts DEF Guards

LEMMA DriverEvents ==
  /\ Driver!NoEvent \in Driver!Events
  /\ Driver!NoEvent = [kind |-> "none", step |-> 0, sink |-> "ok"]
  /\ Driver!Events = [kind : Driver!Kinds, step : Nat, sink : {"ok", "pending"} \cup SinkFaults]
BY DEF Driver!NoEvent, Driver!Events, Driver!Kinds, Driver!Answers

LEMMA FaultFacts == SinkFaults \subseteq {"exc", "ede", "cancel", "base"}
BY SinksAssumption DEF Ordinary

(* A failed dispatch is final: the driver offers nothing more. *)
LEMMA SilentDriver ==
  ASSUME offered.sink \in Ordinary, offered \in Driver!Events
  PROVE  ~ Driver!Next
<1>1. offered.sink # "ok" /\ offered.sink # "cancel" /\ Driver!Undelivered
    BY DEF Ordinary, Driver!Undelivered
<1>2. ~ Driver!Continues
    BY <1>1 DEF Driver!Continues
<1>3. offered # Driver!NoEvent
    BY <1>1, DriverEvents
<1> QED
    BY <1>1, <1>2, <1>3 DEF Driver!Next, Driver!StartRun, Driver!StartEffect,
       Driver!ProgressEffect, Driver!EndEffect, Driver!Succeed, Driver!Fail, Driver!Cancel,
       Driver!InsideEffect, Driver!BetweenEffects

-----------------------------------------------------------------------------
LEMMA Initially == Init => IInv
<1> SUFFICES ASSUME Init PROVE IInv
    OBVIOUS
<1>1. TypeOK
    BY SinkFacts, DriverEvents DEF Init, TypeOK, Observers
<1> QED
    BY <1>1, DriverEvents DEF Init, IInv, WalkInv, AcceptedByAll, LostInv, Lost, Unguarded, Ordinary

(* emit() raises out of the outermost sink, or a guard takes the exception. *)
LEMMA EscapePreserves ==
  ASSUME IInv, NEW n \in 1 .. Len(Sinks), NEW how \in SinkFaults, Escapes(n, how),
         at \in 1 .. Len(Sinks),
         n = at \/ n \in Guards(at),
         heard' \in [Observers -> Driver!Events],
         \A l \in Unguarded : l < at => heard'[l] = heard[l],
         \A l \in Unguarded : heard'[l].sink \in Ordinary =>
             heard'[l] = heard[l] \/ (l = n /\ how \in Ordinary)
  PROVE  IInv'
<1> USE SinkFacts, FaultFacts DEF Ordinary
<1>0. ~ Lost /\ TypeOK /\ WalkInv
    BY DEF IInv, LostInv
<1>1. CASE how \in Ordinary /\ Guards(n) # {}
  <2>1. /\ guard' = Innermost(Guards(n)) /\ error' = how
        /\ offered' = offered /\ at' = at
      BY <1>1 DEF Escapes
  <2>2. guard' \in Guards(n)
      BY <1>1, <2>1, InnermostExists
  <2>3. guard' \in Guards(at)
      BY <2>2, GuardsNest
  <2>4. guard' \in 1 .. Len(Sinks)
      BY <2>3, GuardsPrecede
  <2>5. TypeOK'
      BY <1>0, <1>1, <2>1, <2>3, <2>4 DEF TypeOK
  <2>6. ~ Lost'
      BY <1>0, <1>1 DEF Lost, Unguarded
  <2> QED
      BY <1>0, <2>1, <2>4, <2>5, <2>6 DEF IInv, WalkInv, AcceptedByAll, LostInv
<1>2. CASE ~ (how \in Ordinary /\ Guards(n) # {})
  <2>1. /\ offered' = [offered EXCEPT !.sink = how]
        /\ at' = 0 /\ guard' = 0 /\ error' = "none"
      BY <1>2 DEF Escapes, EmitEnds
  <2>2. offered' \in Driver!Events /\ offered'.sink = how
      BY <1>0, <2>1, DriverEvents DEF TypeOK
  <2>3. TypeOK'
      BY <1>0, <2>1, <2>2 DEF TypeOK
  <2>4. Lost' => how \in Ordinary
      BY <1>0 DEF Lost
  <2> QED
      BY <2>1, <2>2, <2>3, <2>4 DEF IInv, WalkInv, AcceptedByAll, LostInv
<1> QED
    BY <1>1, <1>2

LEMMA StepPreserves == IInv /\ [Next]_vars => IInv'
<1> SUFFICES ASSUME IInv, [Next]_vars PROVE IInv'
    OBVIOUS
<1> USE SinkFacts
<1>0. TypeOK /\ WalkInv /\ AcceptedByAll /\ LostInv /\ (at = 0 => guard = 0)
    BY DEF IInv
<1>1. CASE Emit
  <2>1. PICK kind \in Driver!Kinds, k \in 0 .. MaxEffects - 1 :
           offered' = [kind |-> kind, step |-> k, sink |-> "pending"]
      BY <1>1 DEF Emit
  <2>2. at = 0 /\ at' = 1 /\ UNCHANGED <<guard, error, heard>> /\ Driver!Next
      BY <1>1 DEF Emit
  <2>3. ~ Lost
      BY <1>0, <2>2, SilentDriver DEF LostInv, TypeOK
  <2>4. offered' \in Driver!Events
      BY <2>1, DriverEvents, SinksAssumption
  <2>5. TypeOK'
      BY <1>0, <2>2, <2>4 DEF TypeOK
  <2>6. \A l \in Unguarded : ~ (l < 1)
      BY DEF Unguarded, Observers
  <2> QED
      BY <1>0, <2>2, <2>3, <2>5, <2>6 DEF IInv, WalkInv, AcceptedByAll, LostInv, Lost
<1>2. CASE Delivered
  <2>1. /\ at = Len(Sinks) + 1 /\ at' = 0 /\ guard' = 0 /\ error' = "none"
        /\ offered' = [offered EXCEPT !.sink = "ok"] /\ heard' = heard
      BY <1>2 DEF Delivered, EmitEnds
  <2>2. TypeOK'
      BY <1>0, <2>1, DriverEvents DEF TypeOK
  <2>3. AcceptedByAll'
      BY <1>0, <2>1 DEF WalkInv, AcceptedByAll, Unguarded, Observers
  <2> QED
      BY <1>0, <2>1, <2>2, <2>3 DEF IInv, WalkInv, LostInv, Lost
<1>3. CASE Descend
  <2>1. /\ at \in 1 .. Len(Sinks) /\ guard = 0 /\ at' = at + 1
        /\ UNCHANGED <<offered, guard, error, heard>> /\ Sinks[at].kind # "callback"
      BY <1>3 DEF Descend, Calls
  <2>2. TypeOK'
      BY <1>0, <2>1 DEF TypeOK
  <2>3. at \notin Unguarded
      BY <2>1 DEF Unguarded, Observers
  <2>4. \A l \in Unguarded : l < at + 1 => l < at
      BY <2>1, <2>3 DEF Unguarded, Observers
  <2> QED
      BY <1>0, <2>1, <2>2, <2>4 DEF IInv, WalkInv, AcceptedByAll, LostInv, Lost
<1>4. CASE Accept
  <2>1. /\ at \in Observers /\ at \in 1 .. Len(Sinks) /\ guard = 0 /\ at' = at + 1
        /\ UNCHANGED <<offered, guard, error>>
        /\ heard' = [heard EXCEPT ![at] = [offered EXCEPT !.sink = "ok"]]
      BY <1>4 DEF Accept, Calls, Hears, Observers
  <2>2. [offered EXCEPT !.sink = "ok"] \in Driver!Events
      BY <1>0, DriverEvents DEF TypeOK
  <2>3. TypeOK'
      BY <1>0, <2>1, <2>2 DEF TypeOK
  <2>4. \A l \in Unguarded : l \in Observers /\ l \in Nat
      BY DEF Unguarded, Observers
  <2>5. WalkInv'
      BY <1>0, <2>1, <2>4 DEF WalkInv, TypeOK
  <2>6. ~ Lost'
    <3>1. [offered EXCEPT !.sink = "ok"].sink \notin Ordinary
        BY <1>0, DriverEvents DEF TypeOK, Ordinary
    <3> QED
        BY <1>0, <2>1, <2>4, <3>1 DEF LostInv, Lost, TypeOK
  <2> QED
      BY <2>1, <2>3, <2>5, <2>6 DEF IInv, AcceptedByAll, LostInv
<1>5. CASE Refuse
  <2>1. at \in Observers /\ at \in 1 .. Len(Sinks)
      BY <1>5 DEF Refuse, Calls, Observers
  <2>2. PICK how \in SinkFaults : Hears(how) /\ Escapes(at, how)
      BY <1>5 DEF Refuse
  <2>3. heard' = [heard EXCEPT ![at] = [offered EXCEPT !.sink = how]]
      BY <2>2 DEF Hears
  <2>4. [offered EXCEPT !.sink = how] \in Driver!Events /\ [offered EXCEPT !.sink = how].sink = how
      BY <1>0, DriverEvents DEF TypeOK
  <2>5. heard' \in [Observers -> Driver!Events]
      BY <1>0, <2>3, <2>4 DEF TypeOK
  <2>6. /\ \A l \in Unguarded : l < at => heard'[l] = heard[l]
        /\ \A l \in Unguarded : heard'[l].sink \in Ordinary =>
              heard'[l] = heard[l] \/ (l = at /\ how \in Ordinary)
      BY <1>0, <2>1, <2>3, <2>4 DEF TypeOK, Unguarded, Observers
  <2> QED
      BY <2>1, <2>2, <2>5, <2>6, EscapePreserves
<1>6. CASE Contain
  <2>1. /\ guard # 0 /\ at' = Sinks[guard].end + 1 /\ guard' = 0 /\ error' = "none"
        /\ UNCHANGED <<offered, heard>>
      BY <1>6 DEF Contain
  <2>2. guard \in 1 .. Len(Sinks) /\ guard < at /\ Sinks[guard].kind \in {"safe", "reporting"}
      BY <1>0, <2>1, GuardsPrecede DEF TypeOK
  <2>3. TypeOK'
      BY <1>0, <2>1, <2>2 DEF TypeOK
  <2>4. \A l \in Unguarded : l < Sinks[guard].end + 1 => l < at
    <3> SUFFICES ASSUME NEW l \in Unguarded, l <= Sinks[guard].end, l >= at PROVE FALSE
        BY <1>0, <2>2 DEF Unguarded, Observers, TypeOK
    <3>1. guard \in Guards(l)
        BY <1>0, <2>2 DEF Guards, Unguarded, Observers, TypeOK
    <3> QED
        BY <3>1 DEF Unguarded
  <2> QED
      BY <1>0, <2>1, <2>2, <2>3, <2>4 DEF IInv, WalkInv, AcceptedByAll, LostInv, Lost, TypeOK
<1>7. CASE OnErrorFails
  <2>1. guard # 0 /\ heard' = heard
      BY <1>7 DEF OnErrorFails
  <2>2. PICK how \in SinkFaults : Escapes(guard, how)
      BY <1>7 DEF OnErrorFails
  <2>3. guard \in Guards(at) /\ guard \in 1 .. Len(Sinks) /\ at \in 1 .. Len(Sinks)
      BY <1>0, <2>1, GuardsPrecede DEF TypeOK
  <2> QED
      BY <1>0, <2>1, <2>2, <2>3, EscapePreserves DEF TypeOK
<1>8. CASE UNCHANGED vars
    BY <1>0, <1>8 DEF vars, IInv, TypeOK, WalkInv, AcceptedByAll, LostInv, Lost
<1> QED
    BY <1>1, <1>2, <1>3, <1>4, <1>5, <1>6, <1>7, <1>8 DEF Next

LEMMA Invariance == Spec => []IInv
BY Initially, StepPreserves, PTL DEF Spec

-----------------------------------------------------------------------------
(* Every variable keeps its range; a guard that acts is around the sink.       *)
THEOREM TypeCorrect == Spec => []TypeOK
<1>1. IInv => TypeOK
    BY DEF IInv
<1> QED
    BY Invariance, <1>1, PTL

(* An emit() that returned has been accepted by every observer outside the     *)
(* guards (CompositeEventSink.emit, SafeEventSink.emit), in every tree.        *)
THEOREM DeliveryIsComplete == Spec => []AcceptedByAll
<1>1. IInv => AcceptedByAll
    BY DEF IInv
<1> QED
    BY Invariance, <1>1, PTL

(* After the first unguarded observer is lost, nobody hears anything more.     *)
THEOREM SilenceAfterLoss == Spec => NoneOutlivesTheLost
<1>1. IInv /\ [Next]_vars =>
        ((\E l \in Unguarded : heard[l].sink \in Ordinary) => UNCHANGED heard)
  <2> SUFFICES ASSUME IInv, [Next]_vars, Lost PROVE UNCHANGED heard
      BY DEF Lost
  <2>1. at = 0 /\ guard = 0
      BY DEF IInv, LostInv
  <2> QED
      BY <2>1, SinkFacts DEF Next, vars, Emit, Delivered, Descend, Accept, Refuse, Contain,
         OnErrorFails, Calls
<1> QED
    BY Invariance, <1>1, PTL DEF Spec, NoneOutlivesTheLost
-----------------------------------------------------------------------------
(* What an observer hears. *)

(* A run may offer this event when x is the last one it has offered. *)
Follows(x, kind, step) ==
    LET undelivered == x.sink \in Ordinary
        continues   == x.sink = "ok" \/ (x.kind = "EffectProgress" /\ ~ undelivered)
        inside      == x.kind \in Driver!InEffect /\ continues
        between     == x.kind \in {"RunStarted"} \cup Driver!EffectEnds /\ x.sink = "ok"
    IN  \/ x = Driver!NoEvent /\ kind = "RunStarted" /\ step = 0
        \/ between /\ kind = "EffectStarted"
           /\ step = IF x.kind = "RunStarted" THEN 0 ELSE x.step + 1
        \/ inside /\ kind \in {"EffectProgress"} \cup Driver!EffectEnds /\ step = x.step
        \/ between /\ kind = "RunSucceeded" /\ step = 0
        \/ continues /\ x.kind \notin Driver!RunEnds /\ kind = "RunFailed" /\ step = 0
        \/ /\ x.sink \in {"ok", "cancel"} \/ continues
           /\ x.kind \notin Driver!RunEnds \/ (x.kind = "RunSucceeded" /\ x.sink = "cancel")
           /\ kind = "RunCancelled" /\ step = 0

LEMMA DriverOffers ==
  ASSUME Driver!Next
  PROVE  Follows(offered, offered'.kind, offered'.step)
BY DEF Driver!Next, Driver!StartRun, Driver!StartEffect, Driver!ProgressEffect,
       Driver!EndEffect, Driver!Succeed, Driver!Fail, Driver!Cancel, Driver!Offer,
       Driver!InsideEffect, Driver!BetweenEffects, Driver!Continues, Driver!Undelivered,
       Driver!NextIndex, Driver!InEffect, Driver!EffectEnds, Follows, Ordinary

LEMMA ObservedOffers ==
  ASSUME NEW l \in Unguarded, NEW kind, NEW step, NEW answer \in {"ok"} \cup SinkFaults,
         Follows(AsHeard(heard[l]), kind, step),
         AsHeard(heard'[l]) = [kind |-> kind, step |-> step, sink |-> answer]
  PROVE  Observed(l)!Next
<1> DEFINE x == AsHeard(heard[l])
<1>1. Observed(l)!Offer(kind, step)
    BY DEF Observed!Offer, Observed!Answers
<1>2. Follows(x, kind, step)
    OBVIOUS
<1> QED
    BY <1>1, <1>2
       DEF Observed!Next, Observed!StartRun, Observed!StartEffect, Observed!ProgressEffect,
       Observed!EndEffect, Observed!Succeed, Observed!Fail, Observed!Cancel,
       Observed!InsideEffect, Observed!BetweenEffects, Observed!Continues, Observed!Undelivered,
       Observed!NextIndex, Observed!InEffect, Observed!EffectEnds, Observed!RunEnds,
       Observed!NoEvent, Driver!NoEvent, Driver!RunEnds, Driver!InEffect, Driver!EffectEnds,
       Follows, Ordinary

(* What may follow an event that was not delivered may follow the event before  *)
(* it: an observer the walk did not reach has no gap in what it hears.          *)
LEMMA SkippingIsSafe ==
  ASSUME NEW x \in Driver!Events, NEW e \in Driver!Events, e.sink # "ok", e.sink # "pending",
         Follows(x, e.kind, e.step), NEW kind, NEW step, Follows(e, kind, step)
  PROVE  Follows(x, kind, step)
BY FaultFacts, DriverEvents
   DEF Follows, Driver!Kinds, Driver!RunEnds, Driver!InEffect, Driver!EffectEnds, Ordinary

(* An observer that accepted the event can hear what the driver goes on with.   *)
LEMMA AcceptingIsSafe ==
  ASSUME NEW e \in Driver!Events, e.sink # "pending", NEW kind, NEW step, Follows(e, kind, step)
  PROVE  /\ Follows(AsHeard([e EXCEPT !.sink = "ok"]), kind, step)
         /\ Follows(AsHeard(e), kind, step)
BY FaultFacts, DriverEvents
   DEF Follows, AsHeard, Driver!Kinds, Driver!RunEnds, Driver!InEffect, Driver!EffectEnds,
       Ordinary

(* During a walk the observers ahead can hear the event; between two walks all  *)
(* can hear whatever the driver can offer.                                      *)
AheadInv == at > 0 =>
    \A l \in Unguarded : l >= at => Follows(AsHeard(heard[l]), offered.kind, offered.step)

RestInv == at = 0 =>
    /\ offered.sink # "pending"
    /\ \A l \in Unguarded : \A kind, step :
          Follows(offered, kind, step) => Follows(AsHeard(heard[l]), kind, step)

HearInv == AheadInv /\ RestInv

LEMMA HeardTyped ==
  ASSUME TypeOK, NEW l \in Unguarded
  PROVE  heard[l] \in Driver!Events /\ AsHeard(heard[l]) \in Driver!Events
<1>1. heard[l] \in Driver!Events
    BY DEF TypeOK, Unguarded
<1>2. "cancel" \in SinkFaults
    BY SinksAssumption
<1> QED
    BY <1>1, <1>2, DriverEvents DEF AsHeard

LEMMA EscapeHears ==
  ASSUME IInv, HearInv, NEW n \in 1 .. Len(Sinks), NEW how \in SinkFaults, Escapes(n, how),
         at \in 1 .. Len(Sinks),
         n = at \/ n \in Guards(at),
         \A l \in Unguarded : l # n => heard'[l] = heard[l],
         n \in Unguarded => heard'[n] = [offered EXCEPT !.sink = how]
  PROVE  HearInv'
<1> USE SinkFacts
<1>1. /\ TypeOK /\ WalkInv /\ AheadInv
      /\ \A l \in Unguarded : l \in Nat
    BY DEF IInv, HearInv, Unguarded, Observers
<1>2. CASE how \in Ordinary /\ Guards(n) # {}
  <2>1. offered' = offered /\ at' = at /\ n \notin Unguarded
      BY <1>2 DEF Escapes, Unguarded
  <2> QED
      BY <1>1, <2>1 DEF HearInv, AheadInv, RestInv
<1>3. CASE ~ (how \in Ordinary /\ Guards(n) # {})
  <2>1. offered' = [offered EXCEPT !.sink = how] /\ at' = 0
      BY <1>3 DEF Escapes, EmitEnds
  <2>2. /\ offered' \in Driver!Events /\ offered'.sink = how
        /\ offered'.kind = offered.kind /\ offered'.step = offered.step
        /\ how # "ok" /\ how # "pending"
      BY <1>1, <2>1, DriverEvents, FaultFacts DEF TypeOK
  <2>3. ASSUME NEW l \in Unguarded, NEW kind, NEW step, Follows(offered', kind, step)
        PROVE  Follows(AsHeard(heard'[l]), kind, step)
    <3>1. CASE l = n
      <4>1. heard'[l] = offered'
          BY <2>1, <3>1
      <4> QED
          BY <2>2, <2>3, <4>1, AcceptingIsSafe
    <3>2. CASE l # n /\ l < at
      <4>1. heard'[l] = [offered' EXCEPT !.sink = "ok"]
        <5>1. heard'[l] = [offered EXCEPT !.sink = "ok"]
            BY <1>1, <3>2 DEF WalkInv
        <5> QED
            BY <5>1, <1>1, <2>1, DriverEvents DEF TypeOK
      <4> QED
          BY <2>2, <2>3, <4>1, AcceptingIsSafe
    <3>3. CASE l # n /\ l >= at
      <4>1. heard'[l] = heard[l] /\ Follows(AsHeard(heard[l]), offered'.kind, offered'.step)
          BY <1>1, <2>2, <3>3 DEF AheadInv
      <4>2. AsHeard(heard[l]) \in Driver!Events
          BY <1>1, HeardTyped
      <4> QED
          BY <2>2, <2>3, <4>1, <4>2, SkippingIsSafe
    <3> QED
        BY <1>1, <3>1, <3>2, <3>3
  <2> QED
      BY <2>1, <2>2, <2>3 DEF HearInv, AheadInv, RestInv
<1> QED
    BY <1>2, <1>3

LEMMA InitiallyHears == Init => HearInv
  BY DriverEvents DEF Init, HearInv, AheadInv, RestInv, Unguarded, AsHeard

LEMMA StepHears == IInv /\ HearInv /\ [Next]_vars => HearInv'
<1> SUFFICES ASSUME IInv, HearInv, [Next]_vars
             PROVE  HearInv'
    OBVIOUS
<1> USE SinkFacts
<1>0. /\ TypeOK /\ WalkInv /\ AcceptedByAll /\ AheadInv /\ RestInv
      /\ \A l \in Unguarded : l \in 1 .. Len(Sinks) /\ l \in Observers
    BY DEF IInv, HearInv, Unguarded, Observers
<1>1. CASE Emit
  <2>1. PICK kind \in Driver!Kinds, k \in 0 .. MaxEffects - 1 :
           offered' = [kind |-> kind, step |-> k, sink |-> "pending"]
      BY <1>1 DEF Emit
  <2>2. at = 0 /\ at' = 1 /\ heard' = heard /\ Driver!Next
      BY <1>1 DEF Emit
  <2>3. Follows(offered, offered'.kind, offered'.step)
      BY <2>2, DriverOffers
  <2> QED
      BY <1>0, <2>2, <2>3 DEF HearInv, AheadInv, RestInv
<1>2. CASE Delivered
  <2>1. /\ at = Len(Sinks) + 1 /\ at' = 0 /\ heard' = heard
        /\ offered' = [offered EXCEPT !.sink = "ok"]
      BY <1>2 DEF Delivered, EmitEnds
  <2>2. offered' \in Driver!Events /\ offered'.sink = "ok"
      BY <1>0, <2>1, DriverEvents DEF TypeOK
  <2>3. \A l \in Unguarded : heard'[l] = offered'
      BY <1>0, <2>1 DEF WalkInv
  <2>4. ASSUME NEW l \in Unguarded, NEW kind, NEW step, Follows(offered', kind, step)
        PROVE  Follows(AsHeard(heard'[l]), kind, step)
    <3>1. offered'.sink # "pending"
        BY <2>2
    <3>2. Follows(AsHeard(offered'), kind, step)
        BY <2>2, <2>4, <3>1, AcceptingIsSafe
    <3> QED
        BY <2>3, <3>2
  <2> QED
      BY <2>1, <2>2, <2>4 DEF HearInv, AheadInv, RestInv
<1>3. CASE Descend
  <2>1. at \in 1 .. Len(Sinks) /\ at' = at + 1 /\ UNCHANGED <<offered, heard>>
      BY <1>3 DEF Descend, Calls
  <2> QED
      BY <1>0, <2>1 DEF HearInv, AheadInv, RestInv
<1>4. CASE Accept
  <2>1. /\ at \in 1 .. Len(Sinks) /\ at' = at + 1 /\ offered' = offered
        /\ heard' = [heard EXCEPT ![at] = [offered EXCEPT !.sink = "ok"]]
      BY <1>4 DEF Accept, Calls, Hears
  <2>2. \A l \in Unguarded : l >= at + 1 => heard'[l] = heard[l] /\ l >= at
      BY <1>0, <2>1 DEF TypeOK
  <2> QED
      BY <1>0, <2>1, <2>2 DEF HearInv, AheadInv, RestInv
<1>5. CASE Refuse
  <2>1. PICK how \in SinkFaults : Hears(how) /\ Escapes(at, how)
      BY <1>5 DEF Refuse
  <2>2. at \in 1 .. Len(Sinks) /\ heard' = [heard EXCEPT ![at] = [offered EXCEPT !.sink = how]]
      BY <1>5, <2>1 DEF Refuse, Calls, Hears
  <2>3. /\ \A l \in Unguarded : l # at => heard'[l] = heard[l]
        /\ at \in Unguarded => heard'[at] = [offered EXCEPT !.sink = how]
      BY <1>0, <2>2 DEF TypeOK
  <2> QED
      BY <2>1, <2>2, <2>3, EscapeHears
<1>6. CASE Contain
  <2>1. guard # 0 /\ at' = Sinks[guard].end + 1 /\ UNCHANGED <<offered, heard>>
      BY <1>6 DEF Contain
  <2>2. guard \in Guards(at) /\ at \in Nat /\ guard \in 1 .. Len(Sinks) /\ at <= Sinks[guard].end
      BY <1>0, <2>1, GuardsPrecede DEF TypeOK
  <2>3. at > 0 /\ at' > 0 /\ \A l \in Unguarded : l >= at' => l >= at
      BY <1>0, <2>1, <2>2, GuardsPrecede
  <2> QED
      BY <1>0, <2>1, <2>3 DEF HearInv, AheadInv, RestInv
<1>7. CASE OnErrorFails
  <2>1. guard # 0 /\ heard' = heard
      BY <1>7 DEF OnErrorFails
  <2>2. PICK how \in SinkFaults : Escapes(guard, how)
      BY <1>7 DEF OnErrorFails
  <2>3. guard \in Guards(at) /\ guard \in 1 .. Len(Sinks) /\ at \in 1 .. Len(Sinks)
      BY <1>0, <2>1, GuardsPrecede DEF TypeOK
  <2>4. guard \notin Unguarded
      BY <2>3, GuardsPrecede DEF Unguarded, Observers
  <2> QED
      BY <2>1, <2>2, <2>3, <2>4, EscapeHears
<1>8. CASE UNCHANGED vars
    BY <1>0, <1>8 DEF vars, HearInv, AheadInv, RestInv
<1> QED
    BY <1>1, <1>2, <1>3, <1>4, <1>5, <1>6, <1>7, <1>8 DEF Next

(* Each observer outside every SafeEventSink hears a legal event stream of its  *)
(* own, in every tree: whatever a failing sibling or a containing guard keeps   *)
(* from it, it never misses an event and then hears a later one.                *)
THEOREM EachHearsALegalRun == Spec => ObserversHearTheRun
<1>1. Init => IInv /\ HearInv
    BY Initially, InitiallyHears
<1>2. IInv /\ HearInv /\ [Next]_vars => (IInv /\ HearInv)'
    BY StepPreserves, StepHears
<1>3. Init => \A l \in Unguarded : Observed(l)!Init
    BY DEF Init, Unguarded, AsHeard, Driver!NoEvent, Observed!Init, Observed!NoEvent
<1>4. IInv /\ HearInv /\ [Next]_vars =>
        [\A l \in Unguarded : [Observed(l)!Next]_(heard[l])]_vars
  <2> SUFFICES ASSUME IInv, HearInv, [Next]_vars, NEW l \in Unguarded,
                      heard'[l] # heard[l]
               PROVE  Observed(l)!Next
      OBVIOUS
  <2>1. \E answer \in {"ok"} \cup SinkFaults : at = l /\ Hears(answer)
      BY DEF Next, vars, Emit, Delivered, Descend, Accept, Refuse, Contain, OnErrorFails, Hears,
             IInv, TypeOK, Unguarded
  <2>2. PICK answer \in {"ok"} \cup SinkFaults :
           heard' = [heard EXCEPT ![l] = [offered EXCEPT !.sink = answer]] /\ at = l
      BY <2>1 DEF Hears
  <2>3. heard'[l] = [kind |-> offered.kind, step |-> offered.step, sink |-> answer]
      BY <2>2, DriverEvents DEF IInv, TypeOK, Unguarded
  <2>4. \E given \in {"ok"} \cup SinkFaults :
           AsHeard(heard'[l]) = [kind |-> offered.kind, step |-> offered.step, sink |-> given]
    <3>1. CASE offered.kind = "RunSucceeded" /\ answer = "ok"
      <4>1. AsHeard(heard'[l]) = [kind |-> offered.kind, step |-> offered.step, sink |-> "cancel"]
          BY <2>3, <3>1 DEF AsHeard
      <4> QED
          BY <4>1, SinksAssumption
    <3>2. CASE ~ (offered.kind = "RunSucceeded" /\ answer = "ok")
        BY <2>3, <3>2 DEF AsHeard
    <3> QED
        BY <3>1, <3>2
  <2>5. Follows(AsHeard(heard[l]), offered.kind, offered.step)
      BY <2>2, SinkFacts DEF HearInv, AheadInv, Unguarded, Observers
  <2> QED
      BY <2>4, <2>5, ObservedOffers
<1> QED
    BY <1>1, <1>2, <1>3, <1>4, PTL DEF Spec, ObserversHearTheRun
=============================================================================
