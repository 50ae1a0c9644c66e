----------------------------- MODULE EventSinks -----------------------------
(***************************************************************************)
(* The sinks of events.py composed under one driver: CompositeEventSink,   *)
(* SafeEventSink, CallbackEventSink and NullEventSink, in any nesting.     *)
(*                                                                         *)
(* The driver is its abstract specification, EventStream, which            *)
(* AgentDriver implements: it offers the next event of a run and is told   *)
(* how emit() ended.  One emit() call is a walk over the tree of sinks in  *)
(* preorder, one action per sink.  What an observer hears is again mapped  *)
(* to EventStream.                                                         *)
(***************************************************************************)
EXTENDS Naturals, Sequences, FiniteSets

CONSTANTS
    Sinks,        \* the sinks in preorder: [kind, end], `end` the last sink inside
    SinkFaults,   \* what a callback may do instead of returning None
    MaxEffects    \* bound: effects of the run

Ordinary == {"exc", "ede"}       \* subclasses of Exception; "ede" is EventDispatchError
Kinds    == {"callback", "null", "composite", "safe", "reporting"}

ASSUME SinksAssumption ==
    /\ Sinks \in Seq([kind : Kinds, end : Nat])
    /\ \A n \in DOMAIN Sinks : Sinks[n].end \in n .. Len(Sinks)
    /\ \A n \in DOMAIN Sinks : Sinks[n].kind \in {"callback", "null"} => Sinks[n].end = n
    /\ \A n \in DOMAIN Sinks : \A m \in n .. Sinks[n].end : Sinks[m].end <= Sinks[n].end
    /\ SinkFaults \subseteq Ordinary \cup {"cancel", "base"} /\ "cancel" \in SinkFaults
    /\ MaxEffects \in Nat

VARIABLES
    offered,   \* the event of the latest emit() call, and how the call ended
    at,        \* the sink whose emit() is called next; 0 between emit() calls
    guard,     \* the SafeEventSink that has caught an exception, or 0
    error,     \* the exception it caught
    heard      \* heard[l]: the last event callback l got, and what it did

vars == <<offered, at, guard, error, heard>>

Driver == INSTANCE EventStream
    WITH last <- offered, SinkFaults <- SinkFaults \cup {"pending"}

Observers == {n \in DOMAIN Sinks : Sinks[n].kind = "callback"}

(* The SafeEventSinks around sink n; "reporting" ones have an on_error callback. *)
Guards(n) == {g \in DOMAIN Sinks : /\ Sinks[g].kind \in {"safe", "reporting"}
                                   /\ g < n /\ n <= Sinks[g].end}

Innermost(guards) == CHOOSE g \in guards : \A h \in guards : h <= g

Unguarded == {l \in Observers : Guards(l) = {}}

Init == /\ offered = Driver!NoEvent
        /\ at = 0
        /\ guard = 0
        /\ error = "none"
        /\ heard = [l \in Observers |-> Driver!NoEvent]

-----------------------------------------------------------------------------
(* AgentDriver._emit calls the outermost sink with an event it may offer now. *)
Emit == /\ at = 0
        /\ \E kind \in Driver!Kinds, k \in 0 .. MaxEffects - 1 :
              offered' = [kind |-> kind, step |-> k, sink |-> "pending"]
        /\ Driver!Next
        /\ at' = 1
        /\ UNCHANGED <<guard, error, heard>>

(* emit() of the outermost sink returned or raised. *)
EmitEnds(answer) == /\ offered' = [offered EXCEPT !.sink = answer]
                    /\ at' = 0
                    /\ guard' = 0 /\ error' = "none"

Delivered == at = Len(Sinks) + 1 /\ EmitEnds("ok") /\ UNCHANGED heard

Calls(kinds) == at \in DOMAIN Sinks /\ guard = 0 /\ Sinks[at].kind \in kinds

(* A composite or safe sink calls its (first) inner sink. *)
Descend == /\ Calls({"composite", "safe", "reporting", "null"})
           /\ at' = at + 1
           /\ UNCHANGED <<offered, guard, error, heard>>

Hears(answer) == heard' = [heard EXCEPT ![at] = [offered EXCEPT !.sink = answer]]

Accept == /\ Calls({"callback"})
          /\ Hears("ok")
          /\ at' = at + 1
          /\ UNCHANGED <<offered, guard, error>>

(* Mutant: every sink stops every ordinary exception. *)
EscapesNowhere(n, how) ==
    IF how \in Ordinary
    THEN at' = at + 1 /\ UNCHANGED <<offered, guard, error>>
    ELSE EmitEnds(how)

(* An exception leaves sink n: `except Exception` of the nearest SafeEventSink, *)
(* or else of the driver.  No sink stops a cancellation or BaseException.       *)
Escapes(n, how) ==
    IF how \in Ordinary /\ Guards(n) # {}
    THEN guard' = Innermost(Guards(n)) /\ error' = how /\ UNCHANGED <<offered, at>>
    ELSE EmitEnds(how)

(* The callback raises, or returns an awaitable or a value. *)
Refuse == /\ Calls({"callback"})
          /\ \E how \in SinkFaults : Hears(how) /\ Escapes(at, how)

(* Mutant: a contained error ends the dispatch of the composite as well. *)
ContainAbandoning == /\ guard # 0
                     /\ at' = Len(Sinks) + 1
                     /\ guard' = 0 /\ error' = "none"
                     /\ UNCHANGED <<offered, heard>>

(* The guard has no on_error callback, or it returned None; the loop of a      *)
(* composite around the guard goes on with the sink after it.                  *)
Contain == /\ guard # 0
           /\ at' = Sinks[guard].end + 1
           /\ guard' = 0 /\ error' = "none"
           /\ UNCHANGED <<offered, heard>>

OnErrorFails == /\ guard # 0 /\ Sinks[guard].kind = "reporting"
                /\ \E how \in SinkFaults : Escapes(guard, how)
                /\ UNCHANGED heard

Next == \/ Emit \/ Delivered \/ Descend \/ Accept \/ Refuse \/ Contain \/ OnErrorFails

Spec == Init /\ [][Next]_vars

-----------------------------------------------------------------------------
TypeOK ==
    /\ offered \in Driver!Events
    /\ at \in 0 .. Len(Sinks) + 1
    /\ guard \in 0 .. Len(Sinks)
    /\ guard # 0 => guard \in Guards(at)
    /\ error \in Ordinary \cup {"none"}
    /\ heard \in [Observers -> Driver!Events]

(* An observer that accepted RunSucceeded cannot know whether one after it     *)
(* cancels the run that had already succeeded, and RunCancelled follows.       *)
AsHeard(event) == IF event.kind = "RunSucceeded" /\ event.sink = "ok"
                  THEN [event EXCEPT !.sink = "cancel"] ELSE event

Observed(l) == INSTANCE EventStream WITH last <- AsHeard(heard[l])

(* Each observer outside every SafeEventSink hears a legal event stream of its *)
(* own, whatever the other observers do to the events it shares with them:     *)
(* what a composite delivers only in part never leaves a gap but at the end.   *)
ObserversHearTheRun ==
    /\ \A l \in Unguarded : Observed(l)!Init
    /\ [][\A l \in Unguarded : [Observed(l)!Next]_(heard[l])]_vars

(* When emit() has returned normally, every observer outside a SafeEventSink   *)
(* has got and accepted exactly that event: neither a failing sibling nor a    *)
(* containing guard ever keeps an event from it silently.                      *)
AcceptedByAll ==
    at = 0 /\ offered.sink = "ok" => \A l \in Unguarded : heard[l] = offered

(* Once an observer outside every SafeEventSink is lost, no observer hears     *)
(* anything more of the run, in its part of the tree or in another.            *)
NoneOutlivesTheLost ==
    [][(\E l \in Unguarded : heard[l].sink \in Ordinary) => UNCHANGED heard]_vars
=============================================================================
