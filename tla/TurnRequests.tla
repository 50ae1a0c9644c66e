---------------------------- MODULE TurnRequests ----------------------------
(***************************************************************************)
(* What the turns of a conversation rely on when they ask the prompt       *)
(* session for a request (run_model_turn calls compile()): to them it is   *)
(* one step, which gives the transcript without some of its oldest whole   *)
(* turns and the reminders in force, consumes those for this request, and  *)
(* touches nothing else; or the turn ends.  It is the step Compile of      *)
(* Conversation, for one conversation and without continuations, and       *)
(* PromptSession implements it.                                            *)
(***************************************************************************)
EXTENDS Naturals, Sequences, Reminders

VARIABLES
    committed,  \* messages committed
    bounds,     \* turn_boundaries committed
    stored,     \* the stored reminders, when no turn is in progress
    phase,      \* "idle", "compile" or "generate"
    current,    \* messages of the turn in progress
    session,    \* the prompt session of the turn
    request     \* what the model is asked: [messages, reminders]

Working == [i \in 1 .. committed + current |-> i]
Cuts    == {0} \cup {bounds[i] : i \in DOMAIN bounds}
Nothing == [messages |-> <<>>, reminders |-> <<>>]

Init == /\ committed \in Nat /\ bounds = <<>> /\ stored = <<>>
        /\ phase = "idle" /\ current = 0
        /\ session = OpenSession(<<>>)
        /\ request = Nothing

(* Between turns the application may change the stored reminders. *)
Edit == /\ phase = "idle"
        /\ UNCHANGED <<committed, bounds, phase, current, session, request>>

Begin == /\ phase = "idle" /\ phase' = "compile"
         /\ current' > 0
         /\ session' = OpenSession(stored)
         /\ UNCHANGED <<committed, bounds, stored, request>>

Compile == /\ phase = "compile" /\ phase' = "generate"
           /\ \E cut \in Cuts :
                 request' = [messages  |-> SubSeq(Working, cut + 1, Len(Working)),
                             reminders |-> Active(session)]
           /\ session' = Accept(session)
           /\ UNCHANGED <<committed, bounds, stored, current>>

(* The response called tools: it and their results extend the turn. *)
NextRound == /\ phase = "generate" /\ phase' = "compile"
             /\ current' > current
             /\ request' = Nothing
             /\ UNCHANGED <<committed, bounds, stored, session>>

(* The turn is committed after a response, or is given up wherever it is. *)
End == /\ phase # "idle" /\ phase' = "idle"
       /\ \/ /\ phase = "generate"
             /\ committed' = committed + current + 1
             /\ bounds' = Append(bounds, committed')
          \/ UNCHANGED <<committed, bounds>>
       /\ stored' = session.remaining
       /\ current' = 0
       /\ session' = OpenSession(<<>>)
       /\ request' = Nothing

Next == Edit \/ Begin \/ Compile \/ NextRound \/ End

Spec == Init /\ [][Next]_<<committed, bounds, stored, phase, current, session, request>>

(* compile() returns or raises. *)
CompileEnds == phase = "compile" ~> phase # "compile"
=============================================================================
