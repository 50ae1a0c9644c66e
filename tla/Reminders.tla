------------------------------ MODULE Reminders ------------------------------
(***************************************************************************)
(* Prompt-control state: ReminderState (reminders.py) and the lifetime of  *)
(* reminders in one turn, TurnPromptSession (prompt/compiler.py).          *)
(*                                                                         *)
(* A reminder is a record with a key (NoKey when it has none), a scope and *)
(* a text; a ReminderState is a sequence of them.                          *)
(***************************************************************************)
EXTENDS Naturals, Sequences

CONSTANT NoKey

Scopes == {"next_request", "turn", "conversation"}

(* What the constructor of SystemReminder accepts. *)
IsReminder(r) == r.scope \in Scopes /\ (r.scope = "conversation" => r.key # NoKey)

Members(s) == {s[i] : i \in DOMAIN s}

(* The items of s that are members of S, in their order.  It is SelectSeq, as a *)
(* recursive function that a proof can unfold.                                  *)
Selected(s, S) ==
    LET upto[n \in 0 .. Len(s)] ==
            IF n = 0 THEN <<>>
            ELSE IF s[n] \in S THEN Append(upto[n - 1], s[n]) ELSE upto[n - 1]
    IN  upto[Len(s)]

(* ReminderState.clear(scope). *)
Without(state, scope) == Selected(state, {r \in Members(state) : r.scope # scope})

HasScope(state, scope) == \E i \in DOMAIN state : state[i].scope = scope

(* _upsert: a keyed reminder takes the slot of the one with its key. *)
Upsert(state, r) ==
    IF r.key # NoKey /\ \E i \in DOMAIN state : state[i].key = r.key
    THEN [i \in DOMAIN state |-> IF state[i].key = r.key THEN r ELSE state[i]]
    ELSE Append(state, r)

(* ReminderState.remove(key). *)
Remove(state, key) == Selected(state, {r \in Members(state) : r.key # key})

-----------------------------------------------------------------------------
(* TurnPromptSession: what is stored when the turn begins, and what remains    *)
(* stored if it ended now.                                                     *)

(* Mutant: the session forgets to acquire the TURN reminders. *)
OpenSessionKeepingTurn(state) == [base |-> state, remaining |-> state]

(* begin(): TURN reminders are acquired, whatever becomes of the turn. *)
OpenSession(state) == [base |-> state, remaining |-> Without(state, "turn")]

(* Mutant: the reminders of a request are those that remain stored. *)
ActiveRemaining(session) == session.remaining

(* _active_reminders(): the stored reminders of the next candidate request. *)
Active(session) ==
    IF HasScope(session.remaining, "next_request")
    THEN session.base
    ELSE Without(session.base, "next_request")

(* The end of compile(): an accepted request consumes NEXT_REQUEST reminders. *)
Accept(session) ==
    IF HasScope(Active(session), "next_request")
    THEN [session EXCEPT !.remaining = Without(@, "next_request")]
    ELSE session
=============================================================================
