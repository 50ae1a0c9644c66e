--------------------------- MODULE GenerateStream ---------------------------
(***************************************************************************)
(* One Generate.execute() (models/effects.py): the backend's generate()    *)
(* call, the emit callback it was given, which is a _StreamForwarder, and  *)
(* the progress channel of the effect.                                     *)
(*                                                                         *)
(* The backend is the environment and need not be correct: it emits any    *)
(* sequence of events, goes on after emit() raised, returns anything, and  *)
(* may keep the callback after generate() has returned.  A response is     *)
(* identified by a number; an event of another type than ModelStreamEvent  *)
(* is "garbage".                                                           *)
(***************************************************************************)
EXTENDS Naturals, Sequences, SequencesExt

CONSTANTS
    MaxEmits,    \* bound: calls of the emit callback
    Responses,   \* the ModelResponses a backend can build
    Failures     \* what generate() may raise

ASSUME StreamAssumption ==
    /\ MaxEmits \in Nat
    /\ Responses # {} /\ Responses \subseteq Nat
    /\ Failures \subseteq {"model_error", "cancelled"}

VARIABLES
    pc,          \* "generating", "validating", "done"
    seen,        \* _seen_event
    completed,   \* _completed_event: none or the event held back
    violation,   \* _protocol_error is set
    response,    \* what generate() returned
    outcome,     \* what execute() did
    forwarded,   \* the events offered to context.progress()
    channel,     \* the progress channel: open, latched (a dispatch failed), closed
    emitted      \* history: the events the backend emitted, accepted or not

vars == <<pc, seen, completed, violation, response, outcome, forwarded, channel, emitted>>

Started      == [type |-> "started", response |-> 0]
Delta        == [type |-> "delta", response |-> 0]
Garbage      == [type |-> "garbage", response |-> 0]
Completed(r) == [type |-> "completed", response |-> r]
NoEvent      == [type |-> "none", response |-> 0]

Events == {Started, Delta, Garbage} \cup {Completed(r) : r \in Responses}

Init == /\ pc = "generating"
        /\ seen = FALSE
        /\ completed = NoEvent
        /\ violation = FALSE
        /\ response = 0
        /\ outcome = "running"
        /\ forwarded = <<>>
        /\ channel = "open"
        /\ emitted = <<>>

-----------------------------------------------------------------------------
(* context.progress(): an open channel offers the event, and may fail to; the  *)
(* others raise.                                                               *)
Progress(event) ==
    IF channel = "open"
    THEN /\ forwarded' = Append(forwarded, event)
         /\ channel' \in {"open", "latched"}
    ELSE UNCHANGED <<forwarded, channel>>

(* Mutant: events after the completion are let through. *)
AcceptsAfterCompletion(event) ==
    /\ event # Garbage
    /\ event = Started => ~ seen

(* The checks inside the try block of _StreamForwarder.__call__. *)
Accepts(event) ==
    /\ event # Garbage
    /\ completed = NoEvent
    /\ event = Started => ~ seen

Holds(event) == event.type = "completed"

(* Mutant: a rejected event is not remembered. *)
EmitUnlatched(event) ==
    /\ pc # "validating" /\ Len(emitted) < MaxEmits
    /\ emitted' = Append(emitted, event)
    /\ \/ ~ Accepts(event) /\ UNCHANGED <<seen, completed, violation, forwarded, channel>>
       \/ /\ Accepts(event)
          /\ seen' = TRUE
          /\ UNCHANGED violation
          /\ IF Holds(event) THEN completed' = event /\ UNCHANGED <<forwarded, channel>>
                             ELSE Progress(event) /\ UNCHANGED completed
    /\ UNCHANGED <<pc, response, outcome>>

(* emit(event), during generate() or by a backend that kept the callback.  What *)
(* it raises, the backend may let propagate or not.                             *)
Emit(event) ==
    /\ pc # "validating" /\ Len(emitted) < MaxEmits
    /\ emitted' = Append(emitted, event)
    /\ \/ violation /\ UNCHANGED <<seen, completed, violation, forwarded, channel>>
       \/ /\ ~ violation /\ ~ Accepts(event)
          /\ violation' = TRUE
          /\ UNCHANGED <<seen, completed, forwarded, channel>>
       \/ /\ ~ violation /\ Accepts(event)
          /\ seen' = TRUE
          /\ UNCHANGED violation
          /\ IF Holds(event) THEN completed' = event /\ UNCHANGED <<forwarded, channel>>
                             ELSE Progress(event) /\ UNCHANGED completed
    /\ UNCHANGED <<pc, response, outcome>>

(* generate() raises: the error of a callback it let through, or one of its own. *)
Raise(how) ==
    /\ pc = "generating"
    /\ how = "protocol" => violation
    /\ how = "dispatch" => channel = "latched"
    /\ pc' = "done" /\ outcome' = how
    /\ UNCHANGED <<seen, completed, violation, response, forwarded, channel, emitted>>

Return == /\ pc = "generating"
          /\ \/ response' \in Responses /\ pc' = "validating" /\ UNCHANGED outcome
             \/ pc' = "done" /\ outcome' = "not_a_response" /\ UNCHANGED response
          /\ UNCHANGED <<seen, completed, violation, forwarded, channel, emitted>>

(* Mutant: the held completion is not compared with the response. *)
MatchesAnything == TRUE

Matches == completed.response = response

(* validate_response(), and execute() returns; an error of progress() is raised. *)
Validate ==
    /\ pc = "validating"
    /\ pc' = "done"
    /\ IF violation
       THEN outcome' = "protocol" /\ UNCHANGED <<violation, forwarded, channel>>
       ELSE IF completed = NoEvent
       THEN outcome' = "value" /\ UNCHANGED <<violation, forwarded, channel>>
       ELSE IF ~ Matches
       THEN outcome' = "protocol" /\ violation' = TRUE /\ UNCHANGED <<forwarded, channel>>
       ELSE /\ Progress(completed)
            /\ outcome' = IF channel' = "open" THEN "value" ELSE "dispatch"
            /\ UNCHANGED violation
    /\ UNCHANGED <<seen, completed, response, emitted>>

(* The driver ends the effect, at once or after further middleware. *)
CloseChannel ==
    /\ pc = "done" /\ channel # "closed"
    /\ channel' = "closed"
    /\ UNCHANGED <<pc, seen, completed, violation, response, outcome, forwarded, emitted>>

Next == \/ \E event \in Events : Emit(event)
        \/ \E how \in Failures \cup {"protocol", "dispatch"} : Raise(how)
        \/ Return
        \/ Validate
        \/ CloseChannel

Spec == Init /\ [][Next]_vars

-----------------------------------------------------------------------------
(* Properties. *)

(* Every variable keeps its range. *)
TypeOK ==
    /\ pc \in {"generating", "validating", "done"}
    /\ seen \in BOOLEAN /\ violation \in BOOLEAN
    /\ completed \in {NoEvent} \cup {Completed(r) : r \in Responses}
    /\ response \in {0} \cup Responses
    /\ outcome \in Failures \cup {"running", "value", "protocol", "dispatch", "not_a_response"}
    /\ forwarded \in Seq(Events)
    /\ channel \in {"open", "latched", "closed"}
    /\ emitted \in Seq(Events)

(* The protocol of a stream, as the backend contract states it. *)
WellFormed(s) ==
    /\ \A i \in DOMAIN s : s[i] # Garbage
    /\ \A i \in DOMAIN s : s[i] = Started => i = 1
    /\ \A i \in DOMAIN s : s[i].type = "completed" => i = Len(s)

(* What observers see is a well-formed stream and a prefix of what the backend  *)
(* emitted: nothing is reordered, skipped, or forwarded after a violation, and  *)
(* a callback the backend kept cannot add to a completed stream.                *)
ObserversSeeAStream == WellFormed(forwarded) /\ IsPrefix(forwarded, emitted)

(* A completion is shown only with the response that generate() returned: no    *)
(* observer is told of a success the effect does not have.                      *)
CompletionIsTrue ==
    \A i \in DOMAIN forwarded : forwarded[i].type = "completed" =>
        pc = "done" /\ outcome \in {"value", "dispatch"} /\ forwarded[i].response = response

(* A response is accepted only from a backend that kept the protocol, whichever *)
(* callback errors it swallowed.                                                *)
ViolationIsNoSuccess ==
    [][outcome' = "value" /\ outcome # "value" =>
          /\ WellFormed(emitted)
          /\ emitted # <<>> /\ Last(emitted).type = "completed" =>
                Last(emitted).response = response]_vars

=============================================================================
