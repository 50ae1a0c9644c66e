---------------------------- MODULE Conversation ----------------------------
(***************************************************************************)
(* Conversation (conversation.py) and the model/tool loop its ask() flows  *)
(* run (loop.py), with the prompt session of each turn (compiler.py).      *)
(*                                                                         *)
(* Several flows of ask() may exist for one facade and be advanced in any  *)
(* order, and the application may call the facade's other methods between  *)
(* any two advancements, or from a callback the compilation makes.  The    *)
(* model, the tools and the application's input queue are the environment. *)
(*                                                                         *)
(* A message is [role, n]: n is the identity of a user message, the number *)
(* of calls of an assistant message, the index of the call a tool message  *)
(* answers.  A continuation is opaque; its identity is the position, in the *)
(* whole transcript, of the assistant message it came with; 0 is none.     *)
(***************************************************************************)
EXTENDS Naturals, Sequences, Reminders

CONSTANTS
    Facades,       \* Conversation objects
    Flows,         \* generators returned by ask(); a finished one is replaced
    First,         \* the facade that exists at the start
    Seeds,         \* histories it may be constructed with
    Registrable,   \* reminders the application registers
    MaxRounds,     \* max_model_rounds
    MaxCalls,      \* bound: tool calls of one response
    MaxInputs,     \* bound: user messages in a behaviour
    MaxEdits,      \* bound: calls of the facade's other methods; two of them
                   \* take the place of one user message
    SendsContinuation, \* continuation_policy is PROVIDER_MANAGED or AUTO
    BeginFails     \* TurnPromptSession.begin may raise (a source_id does)

ASSUME ConversationAssumption ==
    /\ First \in Facades
    /\ MaxRounds \in Nat \ {0}
    /\ MaxCalls \in Nat /\ MaxInputs \in Nat /\ MaxEdits \in Nat
    /\ SendsContinuation \in BOOLEAN /\ BeginFails \in BOOLEAN
    /\ \A r \in Registrable : IsReminder(r)

VARIABLES
    history,     \* _state
    reminders,   \* _reminder_state
    busy,        \* _busy
    live,        \* the facades constructed so far
    pc,          \* where each flow is suspended
    owner,       \* the facade each flow was asked of
    turn,        \* the locals of run_model_turn and of the prompt session
    inbox,       \* input the application has admitted and no poll has taken
    inputs,      \* user messages created so far
    kept,        \* what the application kept from snapshot(), history_snapshot()
    edits        \* calls of the facade's other methods so far

facadeVars == <<history, reminders, busy, live>>
flowVars   == <<pc, owner, turn>>
appVars    == <<inbox, inputs, kept, edits>>
vars == <<facadeVars, flowVars, appVars>>

-----------------------------------------------------------------------------
User(i)      == [role |-> "user", n |-> i]
Assistant(n) == [role |-> "assistant", n |-> n]
Tool(i)      == [role |-> "tool", n |-> i]
Users(ids)   == [i \in DOMAIN ids |-> User(ids[i])]

EmptyHistory == [messages |-> <<>>, cont |-> 0, bounds |-> <<>>]

(* The locals of a turn: `base` is the committed state it started from and      *)
(* `added` what it appended to working_messages since; `polled` and `requests`  *)
(* are history: the input it took and the requests it had accepted.             *)
NewTurn(input) ==
    [input |-> input, base |-> EmptyHistory, added |-> <<>>, cont |-> 0, round |-> 1,
     session |-> OpenSession(<<>>), calls |-> 0, answered |-> 0, incoming |-> <<>>,
     request |-> [messages |-> <<>>, cont |-> 0, reminders |-> <<>>],
     polled |-> <<>>, requests |-> 0]

InTurn == {"poll", "compile", "generate", "intake", "tools"}

(* The bounds on what the application does. *)
InputsLeft == 2 * (inputs + 1) + edits <= 2 * MaxInputs
EditsLeft  == edits < MaxEdits /\ 2 * inputs + edits + 1 <= 2 * MaxInputs

Working(t) == t.base.messages \o t.added

Init == /\ \E seed \in Seeds : history = [c \in Facades |-> IF c = First THEN seed ELSE EmptyHistory]
        /\ reminders = [c \in Facades |-> <<>>]
        /\ busy = [c \in Facades |-> FALSE]
        /\ live = {First}
        /\ pc = [f \in Flows |-> "none"]
        /\ owner = [f \in Flows |-> First]
        /\ turn = [f \in Flows |-> NewTurn(0)]
        /\ inbox = <<>>
        /\ inputs = 0
        /\ kept = [history |-> EmptyHistory, reminders |-> <<>>]
        /\ edits = 0

-----------------------------------------------------------------------------
(* The flow of ask(). *)

(* ask(): a generator nobody has advanced; the facade is not acquired. *)
Ask(f, c) ==
    /\ pc[f] = "none" /\ c \in live /\ InputsLeft
    /\ inputs' = inputs + 1
    /\ pc' = [pc EXCEPT ![f] = "asked"]
    /\ owner' = [owner EXCEPT ![f] = c]
    /\ turn' = [turn EXCEPT ![f] = NewTurn(inputs')]
    /\ UNCHANGED <<facadeVars, inbox, kept, edits>>

Forget(f) == /\ pc' = [pc EXCEPT ![f] = "none"]
             /\ turn' = [turn EXCEPT ![f] = NewTurn(0)]
             /\ UNCHANGED owner

(* Mutant: the busy test is inside the try block, its finally clause runs. *)
RefuseReleasing(f) ==
    /\ pc[f] = "asked"
    /\ busy' = [busy EXCEPT ![owner[f]] = FALSE]
    /\ Forget(f)
    /\ UNCHANGED <<history, reminders, live, appVars>>

(* The first advancement finds the facade busy, or the generator is closed     *)
(* before it: nothing of the facade changes.                                   *)
Refuse(f) ==
    /\ pc[f] = "asked"
    /\ Forget(f)
    /\ UNCHANGED <<facadeVars, appVars>>

(* Mutant: the busy flag is not tested. *)
BeginUnchecked(f) ==
    /\ pc[f] = "asked"
    /\ busy' = [busy EXCEPT ![owner[f]] = TRUE]
    /\ pc' = [pc EXCEPT ![f] = "poll"]
    /\ turn' = [turn EXCEPT ![f].base = history[owner[f]],
                            ![f].added = <<User(turn[f].input)>>,
                            ![f].cont = history[owner[f]].cont,
                            ![f].session = OpenSession(reminders[owner[f]])]
    /\ UNCHANGED <<history, reminders, live, owner, appVars>>

(* Acquire the facade, open the prompt session, start from committed state. *)
Begin(f) ==
    LET c == owner[f] IN
    /\ pc[f] = "asked" /\ ~ busy[c]
    /\ busy' = [busy EXCEPT ![c] = TRUE]
    /\ pc' = [pc EXCEPT ![f] = "poll"]
    /\ turn' = [turn EXCEPT ![f].base = history[c],
                            ![f].added = <<User(turn[f].input)>>,
                            ![f].cont = history[c].cont,
                            ![f].session = OpenSession(reminders[c])]
    /\ UNCHANGED <<history, reminders, live, owner, appVars>>

(* TurnPromptSession.begin raises: _busy was set, the try block not entered. *)
BeginRaises(f) ==
    /\ BeginFails
    /\ pc[f] = "asked" /\ ~ busy[owner[f]]
    /\ busy' = [busy EXCEPT ![owner[f]] = TRUE]
    /\ Forget(f)
    /\ UNCHANGED <<history, reminders, live, appVars>>

(* The finally clause. *)
Release(f) == /\ busy' = [busy EXCEPT ![owner[f]] = FALSE]
              /\ reminders' = [reminders EXCEPT ![owner[f]] = turn[f].session.remaining]
              /\ UNCHANGED live
              /\ Forget(f)

(* Mutant: what the turn has so far is installed when it fails. *)
AbortInstalling(f) ==
    /\ pc[f] \in InTurn
    /\ history' = [history EXCEPT ![owner[f]].messages = Working(turn[f])]
    /\ Release(f)
    /\ UNCHANGED appVars

(* Mutant: the cleanup is not in a finally block. *)
AbortUnprotected(f) ==
    /\ pc[f] \in InTurn
    /\ Forget(f)
    /\ UNCHANGED <<facadeVars, appVars>>

(* Whatever is raised in the flow, or thrown into it, or close(): no commit. *)
Abort(f) ==
    /\ pc[f] \in InTurn
    /\ Release(f)
    /\ UNCHANGED <<history, appVars>>

(* _poll_input at the request boundary: all available input joins the turn. *)
PollBefore(f) ==
    /\ pc[f] = "poll"
    /\ inbox' = <<>>
    /\ turn' = [turn EXCEPT ![f].added = @ \o Users(inbox),
                            ![f].polled = @ \o inbox]
    /\ pc' = [pc EXCEPT ![f] = "compile"]
    /\ UNCHANGED <<facadeVars, owner, inputs, kept, edits>>

(* Where a context policy and the budget trimming may cut the history: they     *)
(* drop whole turns from its start (0 drops none).                              *)
Cuts(t) == {0} \cup {t.base.bounds[i] : i \in DOMAIN t.base.bounds}

(* Policy, sources, compiler, budget and trace accept one candidate request;    *)
(* a cut does not drop the continuation.                                        *)
Compile(f) ==
    LET t == turn[f] IN
    /\ pc[f] = "compile"
    /\ \E cut \in Cuts(t) :
          turn' = [turn EXCEPT
              ![f].request = [messages  |-> SubSeq(Working(t), cut + 1, Len(Working(t))),
                              cont      |-> IF SendsContinuation THEN t.cont ELSE 0,
                              reminders |-> Active(t.session)],
              ![f].session = Accept(t.session),
              ![f].requests = @ + 1]
    /\ pc' = [pc EXCEPT ![f] = "generate"]
    /\ UNCHANGED <<facadeVars, owner, appVars>>

(* Mutant: a response without continuation keeps the previous one. *)
NextContStale(t, returned) == IF returned THEN Len(Working(t)) + 1 ELSE t.cont

NextCont(t, returned) == IF returned THEN Len(Working(t)) + 1 ELSE 0

(* The response joins the turn; it may carry tool calls and a continuation. *)
Generate(f) ==
    /\ pc[f] = "generate"
    /\ \E n \in 0 .. MaxCalls, returned \in BOOLEAN :
          turn' = [turn EXCEPT ![f].added = Append(@, Assistant(n)),
                               ![f].cont = NextCont(turn[f], returned),
                               ![f].calls = n]
    /\ pc' = [pc EXCEPT ![f] = "intake"]
    /\ UNCHANGED <<facadeVars, owner, appVars>>

(* Commit: history and reminders change together, the facade becomes idle. *)
Commit(f) ==
    LET t == turn[f] IN
    /\ history' = [history EXCEPT ![owner[f]] =
          [messages |-> Working(t), cont |-> t.cont,
           bounds |-> Append(t.base.bounds, Len(Working(t)))]]
    /\ Release(f)

(* Mutant: one round too many. *)
AtLimitLate(t) == t.round > MaxRounds

AtLimit(t) == t.round = MaxRounds

NextRound(t, input) ==
    [t EXCEPT !.added = @ \o Users(input), !.round = @ + 1, !.calls = 0, !.answered = 0,
              !.incoming = <<>>]

(* Mutant: input received after the response is placed before its tool results. *)
IntakeFirst(f) ==
    LET t == turn[f] IN
    /\ pc[f] = "intake" /\ ~ AtLimit(t)
    /\ inbox' = <<>>
    /\ turn' = [turn EXCEPT ![f].added = @ \o Users(inbox), ![f].polled = @ \o inbox]
    /\ pc' = [pc EXCEPT ![f] = IF t.calls > 0 THEN "tools" ELSE "poll"]
    /\ UNCHANGED <<facadeVars, owner, inputs, kept, edits>>

(* _poll_input after the response, then: final response, round limit, tools.    *)
Intake(f) ==
    LET t == turn[f] IN
    /\ pc[f] = "intake"
    /\ inbox' = <<>>
    /\ \/ /\ t.calls = 0 /\ inbox = <<>>
          /\ Commit(f)
       \/ /\ t.calls > 0 \/ inbox # <<>>
          /\ AtLimit(t)
          /\ Release(f)
          /\ UNCHANGED history
       \/ /\ t.calls > 0 /\ ~ AtLimit(t)
          /\ turn' = [turn EXCEPT ![f].incoming = inbox, ![f].polled = @ \o inbox]
          /\ pc' = [pc EXCEPT ![f] = "tools"]
          /\ UNCHANGED <<facadeVars, owner>>
       \/ /\ t.calls = 0 /\ inbox # <<>> /\ ~ AtLimit(t)
          /\ turn' = [turn EXCEPT ![f] = [NextRound(t, inbox) EXCEPT !.polled = @ \o inbox]]
          /\ pc' = [pc EXCEPT ![f] = "poll"]
          /\ UNCHANGED <<facadeVars, owner>>
    /\ UNCHANGED <<inputs, kept, edits>>

(* Mutant: the input received after the response is dropped by the tool loop. *)
InvokeToolDropping(f) ==
    LET t == [turn[f] EXCEPT !.added = Append(@, Tool(turn[f].answered + 1)),
                             !.answered = @ + 1]
    IN  /\ pc[f] = "tools"
        /\ turn' = [turn EXCEPT ![f] = IF t.answered = t.calls THEN NextRound(t, <<>>) ELSE t]
        /\ pc' = [pc EXCEPT ![f] = IF t.answered = t.calls THEN "poll" ELSE "tools"]
        /\ UNCHANGED <<facadeVars, owner, appVars>>

(* One tool call, in provider order; the last one starts the next round.        *)
InvokeTool(f) ==
    LET t == [turn[f] EXCEPT !.added = Append(@, Tool(turn[f].answered + 1)),
                             !.answered = @ + 1]
    IN  /\ pc[f] = "tools"
        /\ turn' = [turn EXCEPT ![f] = IF t.answered = t.calls THEN NextRound(t, t.incoming) ELSE t]
        /\ pc' = [pc EXCEPT ![f] = IF t.answered = t.calls THEN "poll" ELSE "tools"]
        /\ UNCHANGED <<facadeVars, owner, appVars>>

TurnStep(f) == \/ Begin(f)
               \/ Refuse(f)
               \/ Abort(f)
               \/ PollBefore(f)
               \/ Compile(f)
               \/ Generate(f)
               \/ Intake(f)
               \/ InvokeTool(f)

-----------------------------------------------------------------------------
(* The other methods of the facade.  All but history_snapshot() call           *)
(* _ensure_idle() and raise ConversationBusyError in an active turn.            *)

Idle(c) == /\ c \in live /\ ~ busy[c]
           /\ EditsLeft
           /\ edits' = edits + 1
           /\ UNCHANGED <<busy, flowVars, inbox, inputs>>

Install(c, newHistory, newReminders) ==
    /\ history' = [history EXCEPT ![c] = newHistory]
    /\ reminders' = [reminders EXCEPT ![c] = newReminders]
    /\ UNCHANGED <<live, kept>>

Snapshot(c) == /\ Idle(c)
               /\ kept' = [history |-> history[c], reminders |-> reminders[c]]
               /\ UNCHANGED <<history, reminders, live>>

HistorySnapshot(c) ==
    /\ c \in live /\ EditsLeft /\ edits' = edits + 1
    /\ kept' = [kept EXCEPT !.history = history[c]]
    /\ UNCHANGED <<facadeVars, flowVars, inbox, inputs>>

Restore(c) == Idle(c) /\ Install(c, kept.history, kept.reminders)

RestoreHistory(c) == Idle(c) /\ Install(c, kept.history, reminders[c])

ClearHistory(c) == Idle(c) /\ Install(c, EmptyHistory, reminders[c])

ClearReminders(c) ==
    /\ Idle(c)
    /\ \E left \in {<<>>} \cup {Without(reminders[c], scope) : scope \in Scopes} :
          Install(c, history[c], left)

Reset(c) == Idle(c) /\ Install(c, EmptyHistory, <<>>)

Remind(c) == /\ Idle(c)
             /\ \E r \in Registrable : Install(c, history[c], Upsert(reminders[c], r))

RemoveReminder(c) ==
    /\ Idle(c)
    /\ \E r \in Registrable : r.key # NoKey /\ Install(c, history[c], Remove(reminders[c], r.key))

(* fork(): a new facade with this state, or with a checkpoint's. *)
Fork(c, d) ==
    /\ Idle(c)
    /\ d \in Facades \ live
    /\ live' = live \cup {d}
    /\ \E from \in {[history |-> history[c], reminders |-> reminders[c]], kept} :
          /\ history' = [history EXCEPT ![d] = from.history]
          /\ reminders' = [reminders EXCEPT ![d] = from.reminders]
    /\ UNCHANGED kept

Edit(c) == \/ Snapshot(c) \/ HistorySnapshot(c)
           \/ Restore(c) \/ RestoreHistory(c)
           \/ ClearHistory(c) \/ ClearReminders(c) \/ Reset(c)
           \/ Remind(c) \/ RemoveReminder(c)
           \/ \E d \in Facades : Fork(c, d)

(* The application admits one more user message for a poll to take. *)
Arrive == /\ InputsLeft
          /\ inputs' = inputs + 1
          /\ inbox' = Append(inbox, inputs')
          /\ UNCHANGED <<facadeVars, flowVars, kept, edits>>

Next == \/ \E f \in Flows : TurnStep(f) \/ BeginRaises(f) \/ \E c \in Facades : Ask(f, c)
        \/ \E c \in Facades : Edit(c)
        \/ Arrive

(* A driver advances every flow it was given until the flow ends. *)
Fairness == \A f \in Flows : WF_vars(TurnStep(f))

Spec == Init /\ [][Next]_vars /\ Fairness

-----------------------------------------------------------------------------
(* Properties. *)

ActiveFlows(c) == {f \in Flows : pc[f] \in InTurn /\ owner[f] = c}

(* One turn at a time: a facade with an advanced, unfinished flow is busy and   *)
(* has no other; a flow it refused does not release it.                         *)
OneFlow ==
    \A c \in Facades :
        /\ ActiveFlows(c) # {} => busy[c]
        /\ \A f, g \in ActiveFlows(c) : f = g

(* The busy flag is exactly the existence of that flow: no flow that ended      *)
(* leaves the facade locked (docs of ask(): acquired at the first advancement,  *)
(* released when the flow returns, raises or is closed).                        *)
BusyMatchesFlow ==
    \A c \in Facades :
        /\ busy[c] <=> ActiveFlows(c) # {}
        /\ \A f, g \in ActiveFlows(c) : f = g

(* No lost update: the active turn extends the state that is still committed    *)
(* and works on the reminders that are still stored.                            *)
TurnBasedOnCommitted ==
    \A f \in Flows : pc[f] \in InTurn =>
        /\ turn[f].base = history[owner[f]]
        /\ turn[f].session.base = reminders[owner[f]]

Store == INSTANCE ConversationStore

(* Every outstanding request starts at a user message, contains the turn in     *)
(* progress as a whole, and answers every tool call in it in order, although    *)
(* input arrives between a response and its tool results and old turns are cut. *)
RequestsWellFormed ==
    \A f \in Flows : pc[f] = "generate" =>
        LET sent == turn[f].request.messages
            own  == turn[f].added
        IN  /\ sent[1].role = "user"
            /\ Len(sent) >= Len(own)
            /\ SubSeq(sent, Len(sent) - Len(own) + 1, Len(sent)) = own
            /\ Store!CallsAnswered(sent)

LastAssistant(s, i) == /\ i \in DOMAIN s /\ s[i].role = "assistant"
                       /\ \A j \in DOMAIN s : j > i => s[j].role # "assistant"

(* A continuation is sent or stored only while the assistant message it came    *)
(* with is the last one: no later response, and no restored or cut history,     *)
(* leaves a stale one behind.                                                   *)
ContinuationIsCurrent ==
    /\ \A c \in Facades : history[c].cont # 0 =>
          LastAssistant(history[c].messages, history[c].cont)
    /\ \A f \in Flows : pc[f] = "generate" /\ turn[f].request.cont # 0 =>
          LastAssistant(Working(turn[f]), turn[f].request.cont)

UserIds(s) == LET said == Selected(s, [role : {"user"}, n : Nat])
              IN  [i \in DOMAIN said |-> said[i].n]

(* All user input a turn took is in the turn once, in the order it arrived,     *)
(* after the question, also when tools ran between its intake and its delivery. *)
InputKeptInOrder ==
    \A f \in Flows : pc[f] \in InTurn =>
        UserIds(turn[f].added) \o turn[f].incoming = <<turn[f].input>> \o turn[f].polled

(* When a turn ends, however it ends, its TURN reminders are gone, its          *)
(* NEXT_REQUEST reminders are gone exactly when a request of it was accepted,   *)
(* and the conversation's reminders are what they were, in the same order.      *)
RemindersSettle ==
    [][\A f \in Flows : pc[f] \in InTurn /\ pc'[f] \notin InTurn =>
          LET kept1 == Without(reminders[owner[f]], "turn")
          IN  reminders'[owner[f]] = IF turn[f].requests = 0 THEN kept1
                                     ELSE Without(kept1, "next_request")]_vars

(* Tools run only if their results can still be delivered to a model round.     *)
ToolsAreDeliverable == \A f \in Flows : pc[f] = "tools" => turn[f].round < MaxRounds

(* Turns are transactions on the facade's state.                                *)
Transactional == Store!Spec

(* Mutant: the previous boundary is not looked up. *)
ResultMessagesFromStart(h) == SubSeq(h.messages, 1, h.bounds[Len(h.bounds)])

(* ModelTurnResult.messages of the turn just committed. *)
ResultMessages(h) ==
    LET count == Len(h.bounds)
    IN  SubSeq(h.messages, IF count > 1 THEN h.bounds[count - 1] + 1 ELSE 1, h.bounds[count])

(* The messages of a turn's result are those the turn committed.                *)
ResultIsThisTurn ==
    [][\A f \in Flows : pc[f] \in InTurn /\ history'[owner[f]] # history[owner[f]] =>
          ResultMessages(history'[owner[f]]) = turn[f].added]_vars

(* A facade with a turn in progress becomes idle again, however the turn ends.  *)
TurnsEnd == \A c \in Facades : ActiveFlows(c) # {} ~> ~ busy[c]
=============================================================================
