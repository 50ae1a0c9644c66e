---------------------------- MODULE MCEventSinks ----------------------------
(* EventSinks on a small instance. *)
EXTENDS EventSinks

(* CompositeEventSink(first, SafeEventSink(CompositeEventSink(a, SafeEventSink(b)), *)
(* on_error), NullEventSink(), second): observers before, inside and after nested  *)
(* guards.                                                                         *)
Nested == <<[kind |-> "composite", end |-> 9],
            [kind |-> "callback",  end |-> 2],
            [kind |-> "reporting", end |-> 7],
            [kind |-> "composite", end |-> 7],
            [kind |-> "callback",  end |-> 5],
            [kind |-> "safe",      end |-> 7],
            [kind |-> "callback",  end |-> 7],
            [kind |-> "null",      end |-> 8],
            [kind |-> "callback",  end |-> 9]>>
=============================================================================
