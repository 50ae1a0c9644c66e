---------------------------- MODULE PromptSession ----------------------------
(***************************************************************************)
(* TurnPromptSession.compile (prompt/compiler.py) step by step, in the     *)
(* turns of one conversation: the context policy prepares the transcript   *)
(* (context_policy.py), dynamic sources are resolved, the compiler builds  *)
(* a candidate request, the request budget counts it and drops the oldest  *)
(* turn of a candidate that does not fit, and the accepted request is      *)
(* traced before its NEXT_REQUEST reminders are consumed.  Conversation    *)
(* has all this as one step, and TurnRequests says what that step is.      *)
(*                                                                         *)
(* A message is its position in the transcript.  The text of a reminder is *)
(* the number of its registration.  Sources, counters, policies, the trace *)
(* sink and the model are the environment; each of them may raise, which   *)
(* ends the turn.                                                          *)
(***************************************************************************)
EXTENDS Naturals, Sequences, FiniteSets, Reminders

CONSTANTS
    Policies,      \* context policies: [kind, limit], kind in PolicyKinds
    Budgeted,      \* a request_budget is configured
    NumSources,    \* dynamic reminder sources
    DynamicKeys,   \* keys of the reminders they project, NoKey included
    Shapes,        \* [key, scope] of the reminders the application registers
    Preloads,      \* committed messages a conversation may start with
    MaxReminders,  \* bound: registrations
    MaxTurns,      \* bound: committed turns
    MaxRounds      \* max_model_rounds

PolicyKinds == {"append", "window", "budget"}

ASSUME PromptAssumption ==
    /\ Policies \subseteq [kind : PolicyKinds, limit : Nat]
    /\ Budgeted \in BOOLEAN
    /\ NumSources \in Nat /\ NoKey \in DynamicKeys /\ Preloads \subseteq Nat
    /\ Shapes \subseteq {s \in [key : DynamicKeys, scope : Scopes] : IsReminder(s)}
    /\ MaxReminders \in Nat /\ MaxTurns \in Nat /\ MaxRounds \in Nat \ {0}

VARIABLES
    policy,     \* the context policy of this conversation
    committed,  \* messages committed
    bounds,     \* turn_boundaries committed
    stored,     \* _reminder_state, when no turn is in progress
    pc,         \* "idle", or where the turn is
    current,    \* messages of the turn in progress
    round,      \* model_round
    session,    \* _base_reminders and _remaining_state
    candidate,  \* the PreparedContext being tried
    dynamic,    \* what the sources have projected for it
    compiled,   \* the candidate request
    request,    \* the request generation was last asked for
    traced,     \* history: what the trace sink was told of this call
    over,       \* history: message lists counted over the budget in this call
    fitting,    \* history: the request last counted within it
    owed,       \* history: NEXT_REQUEST reminders neither sent nor replaced
    serial      \* registrations so far

transcriptVars == <<policy, committed, bounds>>
turnVars == <<pc, current, round, session>>
tryVars  == <<candidate, dynamic, compiled>>
pastVars == <<over, fitting>>
vars == <<transcriptVars, stored, turnVars, tryVars, request, traced, pastVars, owed, serial>>

NoRequest == [messages |-> <<>>, stored |-> <<>>, dynamic |-> <<>>]
NoContext == [messages |-> <<>>, bounds |-> <<>>]
NoTrace   == [compiled |-> NoRequest, consumed |-> <<>>]

OfScope(state, scope) == Selected(state, {r \in Members(state) : r.scope = scope})
Keys(state)  == [i \in DOMAIN state |-> state[i].key]
Texts(state) == {state[i].text : i \in DOMAIN state}

Init == /\ policy \in Policies
        /\ committed \in Preloads
        /\ bounds = <<>>
        /\ stored = <<>>
        /\ pc = "idle" /\ current = 0 /\ round = 0
        /\ session = OpenSession(<<>>)
        /\ candidate = NoContext /\ dynamic = <<>> /\ compiled = NoRequest
        /\ request = NoRequest
        /\ traced = NoTrace
        /\ over = {} /\ fitting = NoRequest
        /\ owed = {} /\ serial = 0

-----------------------------------------------------------------------------
(* Context policies: provisional state in, PreparedContext out. *)

Provisional == [messages |-> [i \in 1 .. committed + current |-> i], bounds |-> bounds]

(* ctx without its n oldest complete turns. *)
DropTurns(ctx, n) ==
    LET start == IF n = 0 THEN 0 ELSE ctx.bounds[n]
    IN  [messages |-> SubSeq(ctx.messages, start + 1, Len(ctx.messages)),
         bounds   |-> [i \in 1 .. Len(ctx.bounds) - n |-> ctx.bounds[n + i] - start]]

(* The transcript counter; one token a message. *)
Tokens(ctx) == Len(ctx.messages)

(* Mutant: the window counts the turn in progress. *)
DropsOneMore(ctx) ==
    LET n == Len(ctx.bounds) IN
    IF policy.kind = "window" /\ n >= policy.limit /\ policy.limit > 0
    THEN n - policy.limit + 1
    ELSE IF policy.kind = "window" THEN n ELSE 0

(* How many turns a policy drops: those outside the window, or the fewest such  *)
(* that no suffix of whole turns in between was over the limit.                 *)
Drops(ctx) ==
    LET n == Len(ctx.bounds) IN
    CASE policy.kind = "append" -> 0
      [] policy.kind = "window" -> IF n > policy.limit THEN n - policy.limit ELSE 0
      [] policy.kind = "budget" ->
            CHOOSE k \in 0 .. n :
                /\ \A j \in k .. n : Tokens(DropTurns(ctx, j)) <= policy.limit
                /\ k > 0 => Tokens(DropTurns(ctx, k - 1)) > policy.limit

(* TokenBudgetContext rejects a turn in progress that is over the limit alone. *)
Admits(ctx) == policy.kind = "budget" =>
                   Tokens(DropTurns(ctx, Len(ctx.bounds))) <= policy.limit

Prepared(ctx) == DropTurns(ctx, Drops(ctx))

-----------------------------------------------------------------------------
(* One turn. *)

(* The application registers a reminder between turns. *)
Remind(shape) ==
    LET r == [key |-> shape.key, scope |-> shape.scope, text |-> serial + 1] IN
    /\ pc = "idle" /\ serial < MaxReminders
    /\ serial' = serial + 1
    /\ stored' = Upsert(stored, r)
    /\ owed' = (owed \cap Texts(stored'))
                   \cup (IF r.scope = "next_request" THEN {r.text} ELSE {})
    /\ UNCHANGED <<transcriptVars, turnVars, tryVars, request, traced, pastVars>>

Begin ==
    /\ pc = "idle" /\ Len(bounds) < MaxTurns
    /\ pc' = "prepare" /\ current' = 1 /\ round' = 1
    /\ session' = OpenSession(stored)
    /\ UNCHANGED <<transcriptVars, stored, tryVars, request, traced, pastVars, owed, serial>>

(* The locals of a compile() call that is over. *)
LeaveCompile == /\ candidate' = NoContext /\ dynamic' = <<>> /\ compiled' = NoRequest
                /\ over' = {} /\ fitting' = NoRequest

(* The turn ends: what remains of the session goes back to the facade. *)
EndTurn == /\ pc' = "idle" /\ current' = 0 /\ round' = 0
           /\ stored' = session.remaining
           /\ session' = OpenSession(<<>>)
           /\ LeaveCompile
           /\ request' = NoRequest /\ traced' = NoTrace
           /\ UNCHANGED <<owed, serial>>

Fail == EndTurn /\ UNCHANGED transcriptVars

(* Try a candidate: its sources are to be resolved from the first one. *)
Try(ctx) == /\ pc' = "resolve"
            /\ candidate' = ctx
            /\ dynamic' = <<>>
            /\ UNCHANGED <<compiled, current, round, session>>

Prepare ==
    /\ pc = "prepare" /\ Admits(Provisional)
    /\ Try(Prepared(Provisional))
    /\ UNCHANGED <<transcriptVars, stored, request, traced, pastVars, owed, serial>>

PolicyRejects == pc = "prepare" /\ ~ Admits(Provisional) /\ Fail

(* One source projects a reminder from the candidate it is shown. *)
Resolve ==
    /\ pc = "resolve" /\ Len(dynamic) < NumSources
    /\ \E key \in DynamicKeys :
          dynamic' = Append(dynamic, [source |-> Len(dynamic) + 1, key |-> key,
                                      seen |-> candidate.messages])
    /\ UNCHANGED <<transcriptVars, stored, turnVars, candidate, compiled, request, traced,
                   pastVars, owed, serial>>

(* _validate_unique_reminder_keys. *)
Conflict == LET keys == Keys(Active(session)) \o Keys(dynamic) IN
            \E i, j \in DOMAIN keys : i < j /\ keys[i] = keys[j] /\ keys[i] # NoKey

Resolved == pc = "resolve" /\ Len(dynamic) = NumSources

CompileCandidate ==
    /\ Resolved /\ ~ Conflict
    /\ compiled' = [messages |-> candidate.messages, stored |-> Active(session),
                    dynamic |-> dynamic]
    /\ pc' = "count"
    /\ UNCHANGED <<transcriptVars, stored, current, round, session, candidate, dynamic, request,
                   traced, pastVars, owed, serial>>

CompileRejects == Resolved /\ Conflict /\ Fail

CountFits ==
    /\ pc = "count"
    /\ fitting' = compiled
    /\ pc' = "trace"
    /\ UNCHANGED <<transcriptVars, stored, current, round, session, tryVars, request, traced,
                   over, owed, serial>>

OverBudget == pc = "count" /\ Budgeted /\ over' = over \cup {compiled.messages}

(* Mutant: the projections of the longer candidate are kept. *)
TrimCarrying ==
    /\ OverBudget /\ candidate.bounds # <<>>
    /\ pc' = "resolve"
    /\ candidate' = DropTurns(candidate, 1)
    /\ UNCHANGED <<transcriptVars, stored, current, round, session, dynamic, compiled, request,
                   traced, fitting, owed, serial>>

(* Mutant: the candidate is tried again as it was. *)
TrimNothing ==
    /\ OverBudget /\ candidate.bounds # <<>>
    /\ Try(candidate)
    /\ UNCHANGED <<transcriptVars, stored, request, traced, fitting, owed, serial>>

(* _drop_oldest_complete_turn, and the loop continues. *)
Trim ==
    /\ OverBudget /\ candidate.bounds # <<>>
    /\ Try(DropTurns(candidate, 1))
    /\ UNCHANGED <<transcriptVars, stored, request, traced, fitting, owed, serial>>

(* ContextBudgetExceededError. *)
BudgetRejects == pc = "count" /\ Budgeted /\ candidate.bounds = <<>> /\ Fail

(* The request leaves compile() and generation is asked for it. *)
Return == /\ pc' = "generate"
          /\ request' = compiled
          /\ owed' = owed \ Texts(compiled.stored)
          /\ LeaveCompile

AfterTrace == IF HasScope(compiled.stored, "next_request")
              THEN pc' = "consume" /\ UNCHANGED <<request, owed, tryVars, pastVars>>
              ELSE Return

(* Mutant: the reminders are consumed before the consumption is traced. *)
TraceConsuming ==
    /\ pc = "trace"
    /\ traced' = [traced EXCEPT !.compiled = compiled]
    /\ session' = Accept(session)
    /\ AfterTrace
    /\ UNCHANGED <<transcriptVars, stored, current, round, serial>>

(* _emit_compiled. *)
Trace ==
    /\ pc = "trace"
    /\ traced' = [traced EXCEPT !.compiled = compiled]
    /\ AfterTrace
    /\ UNCHANGED <<transcriptVars, stored, current, round, session, serial>>

(* ReminderConsumed is traced, then the reminders are cleared. *)
Consume ==
    /\ pc = "consume"
    /\ traced' = [traced EXCEPT
                     !.consumed = Keys(OfScope(session.remaining, "next_request"))]
    /\ session' = Accept(session)
    /\ Return
    /\ UNCHANGED <<transcriptVars, stored, current, round, serial>>

(* The response ends the turn, or tool calls and their results extend it. *)
Commit ==
    /\ pc = "generate"
    /\ committed' = committed + current + 1
    /\ bounds' = Append(bounds, committed')
    /\ UNCHANGED policy
    /\ EndTurn

NextRound ==
    /\ pc = "generate" /\ round < MaxRounds
    /\ pc' = "prepare" /\ current' = current + 2 /\ round' = round + 1
    /\ request' = NoRequest /\ traced' = NoTrace
    /\ UNCHANGED <<transcriptVars, stored, session, tryVars, pastVars, owed, serial>>

(* A policy, a source, a counter, the trace sink, the model or a tool raises, or *)
(* the flow is closed.                                                           *)
Abort == pc # "idle" /\ Fail

-----------------------------------------------------------------------------
(* Everything between the poll and the request is synchronous.                 *)
CompileStep == \/ Prepare \/ PolicyRejects
               \/ Resolve \/ CompileCandidate \/ CompileRejects
               \/ CountFits \/ Trim \/ BudgetRejects
               \/ Trace \/ Consume

Next == \/ CompileStep
        \/ \E shape \in Shapes : Remind(shape)
        \/ Begin
        \/ Commit
        \/ NextRound
        \/ Abort

Spec == Init /\ [][Next]_vars /\ WF_vars(CompileStep)

-----------------------------------------------------------------------------
(* Properties. *)

Pending == IF pc = "idle" THEN stored ELSE session.remaining

Returns == pc \in {"trace", "consume"} /\ pc' = "generate"

(* A NEXT_REQUEST reminder waits until it is in a request that generation is    *)
(* asked for, is in no other one, and survives everything that fails before:    *)
(* policy, sources, key conflicts, the budget and the trace sink.  The sink is  *)
(* told of that request, and of the consumption exactly when there is one.      *)
NextRequestOnce ==
    /\ [](owed = Texts(OfScope(Pending, "next_request")))
    /\ [][Returns =>
            /\ Texts(OfScope(request'.stored, "next_request")) = owed
            /\ traced' = [compiled |-> request',
                          consumed |-> Keys(OfScope(session.remaining, "next_request"))]]_vars

(* A stored reminder is in every request of the turns it is for: TURN in all of *)
(* its turn, whatever is trimmed or consumed on the way, CONVERSATION in all,   *)
(* in the order of their slots.                                                 *)
ScopedReminders ==
    [][Returns => Without(request'.stored, "next_request") = Without(session.base, "next_request")]_vars

(* The projections a request carries are those its sources made, each once and  *)
(* in order, from the very history it sends.                                    *)
FreshProjections ==
    [][Returns => /\ Len(request'.dynamic) = NumSources
                  /\ \A i \in DOMAIN request'.dynamic :
                        /\ request'.dynamic[i].source = i
                        /\ request'.dynamic[i].seen = request'.messages]_vars

TurnStarts == {0} \cup {bounds[i] : i \in DOMAIN bounds}
From(start) == [i \in 1 .. committed + current - start |-> start + i]

(* A request sends whole turns to the end of the transcript, never a part of a  *)
(* turn, and as many as the policy lets and the budget does: the next longer    *)
(* such history was counted over the budget or is more than the policy keeps.   *)
(* The request that leaves is the very one the budget counted last and let pass. *)
PolicyKeeps(start) ==
    CASE policy.kind = "append" -> TRUE
      [] policy.kind = "window" -> Cardinality({b \in TurnStarts : start < b}) <= policy.limit
      [] policy.kind = "budget" -> Len(From(start)) <= policy.limit
LongestHistory ==
    [][Returns => \E start \in TurnStarts :
          /\ request'.messages = From(start) /\ request' = fitting
          /\ PolicyKeeps(start)
          /\ \A longer \in TurnStarts :
                longer < start => ~ PolicyKeeps(longer) \/ From(longer) \in over]_vars

(* All of compile() is one step of the conversation it belongs to: whatever its *)
(* sources, counters and trimming do, the turn sees nothing of it but a request *)
(* of whole turns and the reminders in force, and the consumption that goes     *)
(* with it; and it ends: the loop cannot try one history for ever.              *)
Compiling == {"prepare", "resolve", "count", "trace", "consume"}
Turn == INSTANCE TurnRequests WITH
            phase   <- IF pc \in Compiling THEN "compile" ELSE pc,
            request <- [messages |-> request.messages, reminders |-> request.stored]
CompileIsOneStep == Turn!Spec /\ Turn!CompileEnds
=============================================================================
