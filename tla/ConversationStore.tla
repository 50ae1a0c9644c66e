-------------------------- MODULE ConversationStore --------------------------
(***************************************************************************)
(* What a conversation promises about the state it owns: turns are         *)
(* transactions.  While a turn is active the history does not change; a    *)
(* turn ends by appending one complete turn or nothing at all, and settles *)
(* the reminders; everything else happens to an idle facade.               *)
(* Conversation implements it.                                             *)
(***************************************************************************)
EXTENDS Naturals, Sequences, Reminders

CONSTANT Facades

VARIABLES
    history,     \* history[c]: committed messages, continuation, turn boundaries
    reminders,   \* reminders[c]: the stored reminders
    busy         \* busy[c]: a turn is active

(* Every tool call of an assistant message is answered right after it, in the  *)
(* order of the calls, and there is no other tool message.                     *)
CallsAnswered(s) ==
    /\ \A i \in DOMAIN s : s[i].role = "assistant" =>
          \A j \in 1 .. s[i].n : i + j \in DOMAIN s /\ s[i + j] = [role |-> "tool", n |-> j]
    /\ \A i \in DOMAIN s : s[i].role = "tool" =>
          \E j \in DOMAIN s : j = i - s[i].n /\ s[j].role = "assistant" /\ s[i].n <= s[j].n

(* What a turn appends: it opens with user input, closes with an assistant     *)
(* message that calls no tool, and answers every call in between.              *)
CompleteTurn(s) ==
    /\ Len(s) >= 2
    /\ s[1].role = "user"
    /\ s[Len(s)] = [role |-> "assistant", n |-> 0]
    /\ CallsAnswered(s)

Extends(new, old) ==
    LET size == Len(old.messages)
    IN  /\ Len(new.messages) > size
        /\ SubSeq(new.messages, 1, size) = old.messages
        /\ CompleteTurn(SubSeq(new.messages, size + 1, Len(new.messages)))
        /\ new.bounds = Append(old.bounds, Len(new.messages))
        /\ new.cont \in {0, Len(new.messages)}

(* What is left of the reminders when a turn ends: TURN reminders expire, and  *)
(* NEXT_REQUEST reminders go if one request of the turn was accepted.          *)
Settlements(state) ==
    {Without(state, "turn"), Without(Without(state, "turn"), "next_request")}

Acquire(c) == /\ ~ busy[c]
              /\ busy' = [busy EXCEPT ![c] = TRUE]
              /\ UNCHANGED <<history, reminders>>

Settle(c) == /\ busy[c]
             /\ busy' = [busy EXCEPT ![c] = FALSE]
             /\ \A d \in Facades \ {c} :
                   history'[d] = history[d] /\ reminders'[d] = reminders[d]
             /\ history'[c] = history[c] \/ Extends(history'[c], history[c])
             /\ reminders'[c] \in Settlements(reminders[c])

Edit(c) == /\ ~ busy[c]
           /\ \A d \in Facades \ {c} :
                 history'[d] = history[d] /\ reminders'[d] = reminders[d]
           /\ UNCHANGED busy

Next == \E c \in Facades : Acquire(c) \/ Settle(c) \/ Edit(c)

Init == busy = [c \in Facades |-> FALSE]

Spec == Init /\ [][Next]_<<history, reminders, busy>>
=============================================================================
