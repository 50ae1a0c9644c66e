--------------------------- MODULE MCConversation ---------------------------
(* Conversation on small instances. *)
EXTENDS Conversation

CONSTANTS c1, c2, f1, f2

Reminder(key, scope, text) == [key |-> key, scope |-> scope, text |-> text]

OneOfEach == {Reminder("a", "conversation", "x"), Reminder(NoKey, "next_request", "y"),
              Reminder("b", "turn", "z")}

FreshStart == {EmptyHistory}
=============================================================================
