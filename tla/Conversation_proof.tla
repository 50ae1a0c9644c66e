-------------------------- MODULE Conversation_proof --------------------------
(***************************************************************************)
(* Proofs about Conversation, for any number of facades, flows, rounds,    *)
(* tool calls, inputs and edits.                                           *)
(*                                                                         *)
(* The invariant has two layers.  IInv is what the busy flag is for: an    *)
(* advanced flow has its facade to itself, so nobody else changes what the *)
(* turn started from.  Contents says what the transcripts, the requests    *)
(* and the reminders then contain; its lemmas are about one turn record    *)
(* (TurnOK), and only MovesKeeps and ForgetKeeps put it into the state.    *)
(***************************************************************************)
EXTENDS Conversation, Reminders_proof, TLAPS

(* As much of the shape of the state as the steps depend on. *)
TurnShape(t) ==
    /\ {"base", "session", "round"} \subseteq DOMAIN t
    /\ {"base", "remaining"} \subseteq DOMAIN t.session
    /\ t.round \in 1 .. MaxRounds

Shape ==
    /\ pc \in [Flows -> InTurn \cup {"none", "asked"}]
    /\ owner \in [Flows -> Facades]
    /\ busy \in [Facades -> BOOLEAN]
    /\ live \subseteq Facades
    /\ DOMAIN history = Facades
    /\ DOMAIN reminders = Facades
    /\ DOMAIN turn = Flows
    /\ \A f \in Flows : TurnShape(turn[f])

(* An advanced flow has acquired its facade, alone, and the facade exists. *)
Exclusive ==
    /\ \A f \in Flows : pc[f] # "none" => owner[f] \in live
    /\ \A f \in Flows : pc[f] \in InTurn => busy[owner[f]]
    /\ \A f, g \in Flows :
          pc[f] \in InTurn /\ pc[g] \in InTurn /\ owner[f] = owner[g] => f = g

IInv == Shape /\ Exclusive /\ TurnBasedOnCommitted /\ ToolsAreDeliverable

(* With it, the flag is set for a flow only. *)
BusyInv == \A c \in Facades : busy[c] => \E f \in Flows : pc[f] \in InTurn /\ owner[f] = c

-----------------------------------------------------------------------------
(* What the kinds of steps a flow can make do to the state.                    *)

(* The first advancement of f, which is not refused. *)
Enters(f) ==
    /\ pc[f] = "asked" /\ ~ busy[owner[f]]
    /\ busy' = [busy EXCEPT ![owner[f]] = TRUE]
    /\ pc' = [pc EXCEPT ![f] = "poll"]
    /\ turn' = [turn EXCEPT ![f] = turn'[f]]
    /\ TurnShape(turn'[f])
    /\ turn'[f].base = history[owner[f]]
    /\ turn'[f].session.base = reminders[owner[f]]
    /\ UNCHANGED <<history, reminders, live, owner>>

(* A step inside the turn of f. *)
Goes(f) ==
    /\ pc[f] \in InTurn
    /\ \E where \in InTurn : pc' = [pc EXCEPT ![f] = where]
    /\ turn' = [turn EXCEPT ![f] = turn'[f]]
    /\ TurnShape(turn'[f])
    /\ turn'[f].base = turn[f].base
    /\ turn'[f].session.base = turn[f].session.base
    /\ pc'[f] = "tools" => turn'[f].round < MaxRounds
    /\ UNCHANGED <<facadeVars, owner>>

(* The turn of f ends and settles its facade. *)
Leaves(f) ==
    /\ pc[f] \in InTurn
    /\ busy' = [busy EXCEPT ![owner[f]] = FALSE]
    /\ DOMAIN history' = Facades /\ DOMAIN reminders' = Facades
    /\ \A d \in Facades \ {owner[f]} :
          history'[d] = history[d] /\ reminders'[d] = reminders[d]
    /\ Forget(f)
    /\ UNCHANGED live

LEMMA NewTurnShape == ASSUME NEW input PROVE TurnShape(NewTurn(input))
  BY ConversationAssumption DEF TurnShape, NewTurn, OpenSession

LEMMA BeginEnters ==
  ASSUME IInv, NEW f \in Flows, Begin(f)
  PROVE  Enters(f)
<1> USE DEF IInv, Shape
<1>1. turn'[f] = [turn[f] EXCEPT !.base = history[owner[f]],
                                 !.added = <<User(turn[f].input)>>,
                                 !.cont = history[owner[f]].cont,
                                 !.session = OpenSession(reminders[owner[f]])]
    BY DEF Begin
<1>2. TurnShape(turn[f])
    OBVIOUS
<1>3. /\ turn'[f].base = history[owner[f]]
      /\ turn'[f].session = OpenSession(reminders[owner[f]])
      /\ turn'[f].round = turn[f].round
      /\ DOMAIN turn'[f] = DOMAIN turn[f]
    BY <1>1, <1>2 DEF TurnShape
<1>4. TurnShape(turn'[f]) /\ turn'[f].session.base = reminders[owner[f]]
    BY <1>2, <1>3 DEF TurnShape, OpenSession
<1>5. turn' = [turn EXCEPT ![f] = turn'[f]]
    BY DEF Begin
<1> QED
    BY <1>3, <1>4, <1>5 DEF Begin, Enters

LEMMA PollGoes ==
  ASSUME IInv, NEW f \in Flows, PollBefore(f)
  PROVE  Goes(f)
<1> USE DEF IInv, Shape
<1>1. turn'[f] = [turn[f] EXCEPT !.added = @ \o Users(inbox), !.polled = @ \o inbox]
    BY DEF PollBefore
<1>2. TurnShape(turn[f])
    OBVIOUS
<1>3. /\ turn'[f].base = turn[f].base /\ turn'[f].session = turn[f].session
      /\ turn'[f].round = turn[f].round /\ DOMAIN turn'[f] = DOMAIN turn[f]
    BY <1>1, <1>2 DEF TurnShape
<1>4. turn' = [turn EXCEPT ![f] = turn'[f]]
    BY DEF PollBefore
<1> QED
    BY <1>2, <1>3, <1>4 DEF PollBefore, Goes, TurnShape, InTurn

LEMMA CompileGoes ==
  ASSUME IInv, NEW f \in Flows, Compile(f)
  PROVE  Goes(f)
<1> USE DEF IInv, Shape
<1>1. PICK request :
        turn' = [turn EXCEPT ![f].request = request,
                             ![f].session = Accept(turn[f].session),
                             ![f].requests = @ + 1]
    BY DEF Compile
<1>2. turn'[f] = [turn[f] EXCEPT !.request = request,
                                 !.session = Accept(turn[f].session),
                                 !.requests = @ + 1]
    BY <1>1
<1>3. TurnShape(turn[f])
    OBVIOUS
<1>4. /\ turn'[f].base = turn[f].base /\ turn'[f].session = Accept(turn[f].session)
      /\ turn'[f].round = turn[f].round /\ DOMAIN turn'[f] = DOMAIN turn[f]
    BY <1>2, <1>3 DEF TurnShape
<1>5. /\ Accept(turn[f].session).base = turn[f].session.base
      /\ DOMAIN Accept(turn[f].session) = DOMAIN turn[f].session
    BY <1>3 DEF TurnShape, Accept
<1>6. turn' = [turn EXCEPT ![f] = turn'[f]]
    BY <1>1
<1> QED
    BY <1>3, <1>4, <1>5, <1>6 DEF Compile, Goes, TurnShape, InTurn

LEMMA GenerateGoes ==
  ASSUME IInv, NEW f \in Flows, Generate(f)
  PROVE  Goes(f)
<1> USE DEF IInv, Shape
<1>1. PICK n \in 0 .. MaxCalls, returned \in BOOLEAN :
        turn' = [turn EXCEPT ![f].added = Append(@, Assistant(n)),
                             ![f].cont = NextCont(turn[f], returned),
                             ![f].calls = n]
    BY DEF Generate
<1>2. turn'[f] = [turn[f] EXCEPT !.added = Append(@, Assistant(n)),
                                 !.cont = NextCont(turn[f], returned),
                                 !.calls = n]
    BY <1>1
<1>3. TurnShape(turn[f])
    OBVIOUS
<1>4. /\ turn'[f].base = turn[f].base /\ turn'[f].session = turn[f].session
      /\ turn'[f].round = turn[f].round /\ DOMAIN turn'[f] = DOMAIN turn[f]
    BY <1>2, <1>3 DEF TurnShape
<1>5. turn' = [turn EXCEPT ![f] = turn'[f]]
    BY <1>1
<1> QED
    BY <1>3, <1>4, <1>5 DEF Generate, Goes, TurnShape, InTurn

(* The next round keeps what the turn started from; there is one to start.     *)
LEMMA NextRoundShape ==
  ASSUME NEW t, NEW input, TurnShape(t), t.round < MaxRounds
  PROVE  /\ TurnShape(NextRound(t, input))
         /\ NextRound(t, input).base = t.base
         /\ NextRound(t, input).session = t.session
         /\ DOMAIN NextRound(t, input) = DOMAIN t
<1>1. /\ NextRound(t, input).base = t.base
      /\ NextRound(t, input).session = t.session
      /\ NextRound(t, input).round = t.round + 1
      /\ DOMAIN NextRound(t, input) = DOMAIN t
    BY DEF NextRound, TurnShape
<1> QED
    BY <1>1, ConversationAssumption DEF TurnShape

LEMMA InvokeToolGoes ==
  ASSUME IInv, NEW f \in Flows, InvokeTool(f)
  PROVE  Goes(f)
<1> USE DEF IInv, Shape
<1> DEFINE t == [turn[f] EXCEPT !.added = Append(@, Tool(turn[f].answered + 1)),
                                !.answered = @ + 1]
<1>1. /\ pc[f] = "tools"
      /\ turn' = [turn EXCEPT ![f] = IF t.answered = t.calls THEN NextRound(t, t.incoming) ELSE t]
      /\ pc' = [pc EXCEPT ![f] = IF t.answered = t.calls THEN "poll" ELSE "tools"]
      /\ UNCHANGED <<facadeVars, owner, appVars>>
    BY DEF InvokeTool
<1>2. TurnShape(turn[f]) /\ turn[f].round < MaxRounds
    BY <1>1 DEF ToolsAreDeliverable
<1>3. /\ t.base = turn[f].base /\ t.session = turn[f].session
      /\ t.round = turn[f].round /\ DOMAIN t = DOMAIN turn[f]
    BY <1>2 DEF TurnShape
<1>4. TurnShape(t)
    BY <1>2, <1>3 DEF TurnShape
<1> HIDE DEF t
<1>5. CASE t.answered = t.calls
  <2>1. turn'[f] = NextRound(t, t.incoming)
      BY <1>1, <1>5
  <2>2. TurnShape(turn'[f]) /\ turn'[f].base = turn[f].base /\ turn'[f].session = turn[f].session
      BY <2>1, <1>2, <1>3, <1>4, NextRoundShape
  <2> QED
      BY <2>1, <2>2, <1>1, <1>5 DEF Goes, InTurn
<1>6. CASE t.answered # t.calls
    BY <1>1, <1>2, <1>3, <1>4, <1>6 DEF Goes, InTurn
<1> QED
    BY <1>5, <1>6

LEMMA IntakeGoesOrLeaves ==
  ASSUME IInv, NEW f \in Flows, Intake(f)
  PROVE  Goes(f) \/ Leaves(f)
<1> USE DEF IInv, Shape
<1>1. TurnShape(turn[f]) /\ pc[f] = "intake"
    BY DEF Intake
<1>2. CASE Commit(f)
    BY <1>1, <1>2 DEF Commit, Release, Leaves, InTurn
<1>3. CASE Release(f) /\ UNCHANGED history
    BY <1>1, <1>3 DEF Release, Leaves, InTurn
<1>4. CASE /\ ~ AtLimit(turn[f])
           /\ turn' = [turn EXCEPT ![f].incoming = inbox, ![f].polled = @ \o inbox]
           /\ pc' = [pc EXCEPT ![f] = "tools"]
           /\ UNCHANGED <<facadeVars, owner>>
  <2>1. turn'[f] = [turn[f] EXCEPT !.incoming = inbox, !.polled = @ \o inbox]
      BY <1>4
  <2>2. /\ turn'[f].base = turn[f].base /\ turn'[f].session = turn[f].session
        /\ turn'[f].round = turn[f].round /\ DOMAIN turn'[f] = DOMAIN turn[f]
      BY <2>1, <1>1 DEF TurnShape
  <2>3. turn[f].round < MaxRounds
      BY <1>1, <1>4, ConversationAssumption DEF AtLimit, TurnShape
  <2>4. turn' = [turn EXCEPT ![f] = turn'[f]]
      BY <1>4
  <2> QED
      BY <2>2, <2>3, <2>4, <1>1, <1>4 DEF Goes, TurnShape, InTurn
<1>5. CASE /\ ~ AtLimit(turn[f])
           /\ turn' = [turn EXCEPT ![f] =
                          [NextRound(turn[f], inbox) EXCEPT !.polled = @ \o inbox]]
           /\ pc' = [pc EXCEPT ![f] = "poll"]
           /\ UNCHANGED <<facadeVars, owner>>
  <2> DEFINE next == NextRound(turn[f], inbox)
  <2>1. turn[f].round < MaxRounds
      BY <1>1, <1>5, ConversationAssumption DEF AtLimit, TurnShape
  <2>2. TurnShape(next) /\ next.base = turn[f].base /\ next.session = turn[f].session
      BY <1>1, <2>1, NextRoundShape
  <2>3. turn'[f] = [next EXCEPT !.polled = @ \o inbox]
      BY <1>5
  <2> HIDE DEF next
  <2>4. /\ turn'[f].base = next.base /\ turn'[f].session = next.session
        /\ turn'[f].round = next.round /\ DOMAIN turn'[f] = DOMAIN next
      BY <2>2, <2>3 DEF TurnShape
  <2>5. TurnShape(turn'[f])
      BY <2>2, <2>4 DEF TurnShape
  <2>6. turn' = [turn EXCEPT ![f] = turn'[f]]
      BY <1>5
  <2> QED
      BY <2>2, <2>4, <2>5, <2>6, <1>1, <1>5 DEF Goes, InTurn
<1> QED
    BY <1>2, <1>3, <1>4, <1>5 DEF Intake

LEMMA AbortLeaves ==
  ASSUME IInv, NEW f \in Flows, Abort(f)
  PROVE  Leaves(f)
  BY DEF Abort, Release, Leaves, IInv, Shape

(* An edit reaches the state of no facade that is in an active turn.           *)
LEMMA EditSparesTurns ==
  ASSUME IInv, NEW c \in Facades, Edit(c)
  PROVE  /\ UNCHANGED <<busy, pc, owner, turn>>
         /\ live \subseteq live' /\ live' \subseteq Facades
         /\ DOMAIN history' = Facades /\ DOMAIN reminders' = Facades
         /\ \A d \in live : busy[d] => history'[d] = history[d] /\ reminders'[d] = reminders[d]
<1> USE DEF IInv, Shape
<1>1. CASE \E h, r : Idle(c) /\ Install(c, h, r)
    BY <1>1 DEF Idle, Install, flowVars
<1>2. CASE Snapshot(c) \/ HistorySnapshot(c)
    BY <1>2 DEF Snapshot, HistorySnapshot, Idle, flowVars, facadeVars
<1>3. ASSUME NEW d \in Facades, Fork(c, d)
      PROVE  /\ UNCHANGED <<busy, pc, owner, turn>>
             /\ live \subseteq live' /\ live' \subseteq Facades
             /\ DOMAIN history' = Facades /\ DOMAIN reminders' = Facades
             /\ \A e \in live : history'[e] = history[e] /\ reminders'[e] = reminders[e]
    BY <1>3 DEF Fork, Idle, flowVars
<1> QED
  <2>1. Edit(c) => \/ Snapshot(c) \/ HistorySnapshot(c)
                   \/ \E h, r : Idle(c) /\ Install(c, h, r)
                   \/ \E d \in Facades : Fork(c, d)
      BY DEF Edit, Restore, RestoreHistory, ClearHistory, ClearReminders, Reset, Remind,
             RemoveReminder
  <2> QED
      BY <1>1, <1>2, <1>3, <2>1

-----------------------------------------------------------------------------
(* The invariant. *)

LEMMA InitInv == Init => IInv /\ BusyInv
  BY ConversationAssumption, NewTurnShape
     DEF Init, IInv, Shape, Exclusive, TurnBasedOnCommitted, ToolsAreDeliverable, BusyInv, InTurn

LEMMA EntersKeeps ==
  ASSUME IInv, NEW f \in Flows, Enters(f)
  PROVE  IInv'
<1> USE DEF IInv, Enters, InTurn
<1>1. Shape'
    BY DEF Shape
<1>2. Exclusive'
    BY DEF Shape, Exclusive
<1>3. TurnBasedOnCommitted'
    BY DEF Shape, TurnBasedOnCommitted
<1>4. ToolsAreDeliverable'
    BY DEF Shape, ToolsAreDeliverable
<1> QED
    BY <1>1, <1>2, <1>3, <1>4

LEMMA GoesKeeps ==
  ASSUME IInv, NEW f \in Flows, Goes(f)
  PROVE  IInv'
<1> USE DEF IInv, Goes, facadeVars
<1>1. Shape'
    BY DEF Shape
<1>2. Exclusive'
    BY DEF Shape, Exclusive, InTurn
<1>3. TurnBasedOnCommitted'
    BY DEF Shape, TurnBasedOnCommitted
<1>4. ToolsAreDeliverable'
    BY DEF Shape, ToolsAreDeliverable
<1> QED
    BY <1>1, <1>2, <1>3, <1>4

(* The facade f leaves is no other flow's, so what it changes is in no turn.   *)
LEMMA LeavesKeeps ==
  ASSUME IInv, NEW f \in Flows, Leaves(f)
  PROVE  IInv'
<1> USE DEF IInv, Leaves, Forget
<1>1. Shape'
    BY NewTurnShape DEF Shape
<1>2. pc' = [pc EXCEPT ![f] = "none"] /\ "none" \notin InTurn
    BY DEF InTurn
<1>3. Exclusive'
    BY <1>2 DEF Shape, Exclusive
<1>4. TurnBasedOnCommitted'
    BY <1>2 DEF Shape, Exclusive, TurnBasedOnCommitted
<1>5. ToolsAreDeliverable'
    BY DEF Shape, ToolsAreDeliverable
<1> QED
    BY <1>1, <1>3, <1>4, <1>5

LEMMA StepKeeps == IInv /\ [Next]_vars => IInv'
<1> SUFFICES ASSUME IInv, [Next]_vars
             PROVE  IInv'
    OBVIOUS
<1>1. ASSUME NEW f \in Flows, Begin(f)
      PROVE  IInv'
    BY <1>1, BeginEnters, EntersKeeps
<1>2. ASSUME NEW f \in Flows, PollBefore(f) \/ Compile(f) \/ Generate(f) \/ InvokeTool(f)
      PROVE  IInv'
    BY <1>2, PollGoes, CompileGoes, GenerateGoes, InvokeToolGoes, GoesKeeps
<1>3. ASSUME NEW f \in Flows, Intake(f)
      PROVE  IInv'
    BY <1>3, IntakeGoesOrLeaves, GoesKeeps, LeavesKeeps
<1>4. ASSUME NEW f \in Flows, Abort(f)
      PROVE  IInv'
    BY <1>4, AbortLeaves, LeavesKeeps
<1>5. ASSUME NEW f \in Flows, Refuse(f) \/ BeginRaises(f)
      PROVE  IInv'
  <2>1. /\ Forget(f) /\ busy' \in {busy, [busy EXCEPT ![owner[f]] = TRUE]}
        /\ UNCHANGED <<history, reminders, live>>
      BY <1>5 DEF Refuse, BeginRaises, facadeVars
  <2>2. pc' = [pc EXCEPT ![f] = "none"] /\ "none" \notin InTurn
      BY <2>1 DEF Forget, InTurn
  <2>3. Shape'
      BY <2>1, <2>2, NewTurnShape DEF Forget, IInv, Shape
  <2>4. Exclusive'
      BY <2>1, <2>2 DEF Forget, IInv, Shape, Exclusive
  <2>5. TurnBasedOnCommitted' /\ ToolsAreDeliverable'
      BY <2>1, <2>2 DEF Forget, IInv, Shape, TurnBasedOnCommitted, ToolsAreDeliverable
  <2> QED
      BY <2>3, <2>4, <2>5 DEF IInv
<1>6. ASSUME NEW f \in Flows, NEW c \in Facades, Ask(f, c)
      PROVE  IInv'
    BY <1>6, NewTurnShape
       DEF Ask, facadeVars, IInv, Shape, Exclusive, TurnBasedOnCommitted,
           ToolsAreDeliverable, InTurn
<1>7. ASSUME NEW c \in Facades, Edit(c)
      PROVE  IInv'
  <2>1. /\ UNCHANGED <<busy, pc, owner, turn>>
        /\ live \subseteq live' /\ live' \subseteq Facades
        /\ DOMAIN history' = Facades /\ DOMAIN reminders' = Facades
        /\ \A d \in live : busy[d] => history'[d] = history[d] /\ reminders'[d] = reminders[d]
      BY <1>7, EditSparesTurns
  <2>2. Shape' /\ Exclusive' /\ ToolsAreDeliverable'
      BY <2>1 DEF IInv, Shape, Exclusive, ToolsAreDeliverable
  <2>3. TurnBasedOnCommitted'
      BY <2>1 DEF IInv, Shape, Exclusive, TurnBasedOnCommitted, InTurn
  <2> QED
      BY <2>2, <2>3 DEF IInv
<1>8. CASE Arrive \/ UNCHANGED vars
    BY <1>8 DEF Arrive, vars, facadeVars, flowVars, IInv, Shape, Exclusive,
                TurnBasedOnCommitted, ToolsAreDeliverable
<1> QED
    BY <1>1, <1>2, <1>3, <1>4, <1>5, <1>6, <1>7, <1>8 DEF Next, TurnStep

(* If opening a prompt session cannot fail, a flag that is set belongs to a flow. *)
LEMMA StepKeepsBusy == ~ BeginFails /\ IInv /\ BusyInv /\ [Next]_vars => BusyInv'
<1> SUFFICES ASSUME ~ BeginFails, IInv, BusyInv, [Next]_vars
             PROVE  BusyInv'
    OBVIOUS
<1> USE DEF IInv, Shape, BusyInv
<1>1. ASSUME NEW f \in Flows, Begin(f)
      PROVE  BusyInv'
    BY <1>1 DEF Begin, InTurn
<1>2. ASSUME NEW f \in Flows, Goes(f)
      PROVE  BusyInv'
    BY <1>2 DEF Goes, facadeVars
<1>3. ASSUME NEW f \in Flows, Leaves(f)
      PROVE  BusyInv'
    BY <1>3 DEF Leaves, Forget
<1>4. ASSUME NEW f \in Flows, Refuse(f) \/ \E c \in Facades : Ask(f, c)
      PROVE  BusyInv'
    BY <1>4 DEF Refuse, Ask, Forget, facadeVars, InTurn
<1>5. ASSUME NEW c \in Facades, Edit(c)
      PROVE  BusyInv'
    BY <1>5, EditSparesTurns
<1>6. CASE Arrive \/ UNCHANGED vars
    BY <1>6 DEF Arrive, vars, facadeVars, flowVars
<1>7. ASSUME NEW f \in Flows, TurnStep(f)
      PROVE  BusyInv'
    BY <1>7, <1>1, <1>2, <1>3, <1>4, PollGoes, CompileGoes, GenerateGoes, InvokeToolGoes,
       IntakeGoesOrLeaves, AbortLeaves DEF TurnStep
<1>8. ASSUME NEW f \in Flows
      PROVE  ~ BeginRaises(f)
    BY DEF BeginRaises
<1> QED
    BY <1>4, <1>5, <1>6, <1>7, <1>8 DEF Next

THEOREM Invariance == Spec => []IInv
<1>1. Init => IInv
    BY InitInv
<1>2. IInv /\ [Next]_vars => IInv'
    BY StepKeeps
<1> QED
    BY <1>1, <1>2, PTL DEF Spec

-----------------------------------------------------------------------------
(* An active turn extends the state that is still committed, and works on the   *)
(* reminders still stored, whatever other flows, edits and forks do meanwhile.  *)
THEOREM NoLostUpdate == Spec => []TurnBasedOnCommitted
<1>1. IInv => TurnBasedOnCommitted
    BY DEF IInv
<1> QED
    BY Invariance, <1>1, PTL

(* No tool is invoked in the last round max_model_rounds allows.                *)
THEOREM ToolResultsDeliverable == Spec => []ToolsAreDeliverable
<1>1. IInv => ToolsAreDeliverable
    BY DEF IInv
<1> QED
    BY Invariance, <1>1, PTL

(* A facade has at most one advanced flow, and is busy while it has one, for    *)
(* any number of flows, facades and forks.                                      *)
THEOREM OneFlowAtATime == Spec => []OneFlow
<1>1. IInv => OneFlow
    BY DEF IInv, Shape, Exclusive, OneFlow, ActiveFlows
<1> QED
    BY Invariance, <1>1, PTL

(* The busy flag is the existence of one advanced flow, provided that opening a *)
(* prompt session cannot fail: the run begin_leaves_busy is why that is needed. *)
THEOREM BusyIsOneFlow == ASSUME ~ BeginFails PROVE Spec => []BusyMatchesFlow
<1>1. Init => IInv /\ BusyInv
    BY InitInv
<1>2. IInv /\ BusyInv /\ [Next]_vars => (IInv /\ BusyInv)'
    BY StepKeeps, StepKeepsBusy
<1>3. IInv /\ BusyInv => BusyMatchesFlow
    BY DEF IInv, Shape, Exclusive, BusyInv, BusyMatchesFlow, ActiveFlows
<1> QED
    BY <1>1, <1>2, <1>3, PTL DEF Spec

-----------------------------------------------------------------------------
(* Transcripts. *)

Message == [role : {"user", "assistant", "tool"}, n : Nat]

(* The calls of the first m messages are answered within them.                 *)
AnsweredUpTo(s, m) ==
    /\ \A i \in 1 .. m : s[i].role = "assistant" =>
          \A j \in 1 .. s[i].n : i + j <= m /\ s[i + j] = Tool(j)
    /\ \A i \in 1 .. m : s[i].role = "tool" =>
          /\ s[i].n \in 1 .. i - 1
          /\ s[i - s[i].n].role = "assistant" /\ s[i].n <= s[i - s[i].n].n

(* The last assistant message made `calls` calls and `answered` of them have    *)
(* their results after it; all is answered before it.                          *)
Open(s, calls, answered) ==
    LET k == Len(s) - answered
    IN  /\ k \in 1 .. Len(s) /\ answered <= calls
        /\ s[k] = Assistant(calls)
        /\ \A j \in 1 .. answered : s[k + j] = Tool(j)
        /\ AnsweredUpTo(s, k - 1)

LEMMA MessageAt ==
  ASSUME NEW s \in Seq(Message), NEW i \in 1 .. Len(s)
  PROVE  s[i].n \in Nat /\ s[i].role \in {"user", "assistant", "tool"}
<1>1. s[i] \in Message
    OBVIOUS
<1> QED
    BY <1>1 DEF Message

LEMMA AnsweredAll ==
  ASSUME NEW s \in Seq(Message)
  PROVE  Store!CallsAnswered(s) <=> AnsweredUpTo(s, Len(s))
<1> DEFINE m == Len(s)
<1>1. m \in Nat /\ DOMAIN s = 1 .. m /\ \A i \in 1 .. m : s[i] \in Message
    OBVIOUS
<1> HIDE DEF m
<1>2. \A i \in 1 .. m : s[i].n \in Nat /\ s[i].role \in {"user", "assistant", "tool"}
    BY MessageAt DEF m
<1>3. (\A i \in 1 .. m : s[i].role = "assistant" =>
          \A j \in 1 .. s[i].n : i + j \in 1 .. m /\ s[i + j] = [role |-> "tool", n |-> j])
      <=> (\A i \in 1 .. m : s[i].role = "assistant" =>
              \A j \in 1 .. s[i].n : i + j <= m /\ s[i + j] = Tool(j))
    BY <1>1, <1>2 DEF Tool
<1>4. ASSUME NEW i \in 1 .. m, s[i].role = "tool"
      PROVE  (\E j \in 1 .. m : j = i - s[i].n /\ s[j].role = "assistant" /\ s[i].n <= s[j].n)
             <=> /\ s[i].n \in 1 .. i - 1
                 /\ s[i - s[i].n].role = "assistant" /\ s[i].n <= s[i - s[i].n].n
  <2> DEFINE k == s[i].n
  <2>1. k \in Nat
      BY <1>2
  <2>2. k = 0 => s[i - k].role # "assistant"
      BY <1>1, <1>4
  <2> HIDE DEF k
  <2>3. (\E j \in 1 .. m : j = i - k /\ s[j].role = "assistant" /\ k <= s[j].n)
        <=> (i - k \in 1 .. m /\ s[i - k].role = "assistant" /\ k <= s[i - k].n)
      BY <2>1
  <2>4. i - k \in 1 .. m /\ k # 0 <=> k \in 1 .. i - 1
      BY <2>1, <1>1
  <2> QED
      BY <2>2, <2>3, <2>4 DEF k
<1> QED
    BY <1>1, <1>3, <1>4 DEF Store!CallsAnswered, AnsweredUpTo, m

LEMMA AnsweredAgree ==
  ASSUME NEW m \in Nat, NEW s, NEW t, \A i \in 1 .. m : s[i] = t[i],
         \A i \in 1 .. m : s[i].n \in Nat, AnsweredUpTo(s, m)
  PROVE  AnsweredUpTo(t, m)
<1>1. ASSUME NEW i \in 1 .. m, t[i].role = "assistant", NEW j \in 1 .. t[i].n
      PROVE  i + j <= m /\ t[i + j] = Tool(j)
  <2>1. i + j <= m /\ s[i + j] = Tool(j)
      BY <1>1 DEF AnsweredUpTo
  <2>2. i + j \in 1 .. m
      BY <2>1, <1>1
  <2> QED
      BY <2>1, <2>2
<1>2. ASSUME NEW i \in 1 .. m, t[i].role = "tool"
      PROVE  /\ t[i].n \in 1 .. i - 1
             /\ t[i - t[i].n].role = "assistant" /\ t[i].n <= t[i - t[i].n].n
  <2>1. /\ s[i].n \in 1 .. i - 1
        /\ s[i - s[i].n].role = "assistant" /\ s[i].n <= s[i - s[i].n].n
      BY <1>2 DEF AnsweredUpTo
  <2>2. i - s[i].n \in 1 .. m
      BY <2>1
  <2> QED
      BY <2>1, <2>2
<1> QED
    BY <1>1, <1>2 DEF AnsweredUpTo

(* A response opens its calls, their results answer them in order, and when     *)
(* all are there nothing is open.                                              *)
LEMMA OpenCalls ==
  ASSUME NEW s \in Seq(Message), NEW n \in Nat, Store!CallsAnswered(s)
  PROVE  Open(Append(s, Assistant(n)), n, 0)
<1> DEFINE t == Append(s, Assistant(n))
           m == Len(s)
<1>1. m \in Nat /\ Len(t) = m + 1 /\ t[m + 1] = Assistant(n) /\ \A i \in 1 .. m : t[i] = s[i]
    OBVIOUS
<1>2. AnsweredUpTo(s, m) /\ \A i \in 1 .. m : s[i].n \in Nat
    BY AnsweredAll, MessageAt
<1> HIDE DEF t, m
<1>3. AnsweredUpTo(t, m)
    BY <1>1, <1>2, AnsweredAgree
<1> QED
    BY <1>1, <1>3 DEF Open, t

LEMMA OpenAnswer ==
  ASSUME NEW s \in Seq(Message), NEW calls \in Nat, NEW answered \in Nat,
         Open(s, calls, answered), answered < calls
  PROVE  Open(Append(s, Tool(answered + 1)), calls, answered + 1)
<1> DEFINE t == Append(s, Tool(answered + 1))
           m == Len(s)
           k == m - answered
<1>1. /\ m \in Nat /\ Len(t) = m + 1 /\ t[m + 1] = Tool(answered + 1)
      /\ \A i \in 1 .. m : t[i] = s[i] /\ s[i].n \in Nat
    BY MessageAt
<1> HIDE DEF t, m
<1>2. /\ k \in 1 .. m /\ s[k] = Assistant(calls) /\ AnsweredUpTo(s, k - 1)
      /\ \A j \in 1 .. answered : s[k + j] = Tool(j)
    BY DEF Open, m
<1>3. AnsweredUpTo(t, k - 1)
  <2> DEFINE before == k - 1
  <2>1. before \in Nat /\ \A i \in 1 .. before : i \in 1 .. m
      BY <1>1, <1>2
  <2>2. AnsweredUpTo(s, before)
      BY <1>2
  <2> HIDE DEF before
  <2>3. AnsweredUpTo(t, before)
      BY <2>1, <2>2, <1>1, AnsweredAgree
  <2> QED
      BY <2>3 DEF before
<1>4. Len(t) - (answered + 1) = k /\ k \in 1 .. Len(t) /\ answered + 1 <= calls
    BY <1>1, <1>2
<1>5. t[k] = Assistant(calls)
    BY <1>1, <1>2
<1>6. ASSUME NEW j \in 1 .. answered + 1
      PROVE  t[k + j] = Tool(j)
  <2>1. CASE j = answered + 1
      BY <2>1, <1>1
  <2>2. CASE j \in 1 .. answered
    <3>1. k + j \in 1 .. m
        BY <2>2, <1>1, <1>2
    <3> QED
        BY <3>1, <2>2, <1>1, <1>2
  <2> QED
      BY <2>1, <2>2
<1> QED
    BY <1>3, <1>4, <1>5, <1>6 DEF Open, t

LEMMA OpenClosed ==
  ASSUME NEW s \in Seq(Message), NEW calls \in Nat, Open(s, calls, calls)
  PROVE  Store!CallsAnswered(s)
<1> DEFINE m == Len(s)
           k == m - calls
<1>1. m \in Nat /\ k \in 1 .. m
    BY DEF Open
<1>2. /\ s[k] = Assistant(calls) /\ AnsweredUpTo(s, k - 1)
      /\ \A j \in 1 .. calls : s[k + j] = Tool(j)
    BY DEF Open
<1>3. s[k].role = "assistant" /\ s[k].n = calls
    BY <1>2 DEF Assistant
<1> HIDE DEF m
<1>4. ASSUME NEW i \in k + 1 .. m
      PROVE  s[i].role = "tool" /\ s[i].n = i - k
  <2>1. i - k \in 1 .. calls /\ k + (i - k) = i
      BY <1>1
  <2>2. s[k + (i - k)] = Tool(i - k)
      BY <2>1, <1>2
  <2> QED
      BY <2>1, <2>2 DEF Tool
<1>5. ASSUME NEW i \in 1 .. m, s[i].role = "assistant", NEW j \in 1 .. s[i].n
      PROVE  i + j <= m /\ s[i + j] = Tool(j)
  <2>1. CASE i \in 1 .. k - 1
      BY <2>1, <1>1, <1>2, <1>5 DEF AnsweredUpTo
  <2>2. CASE i = k
      BY <2>2, <1>1, <1>2, <1>3, <1>5
  <2>3. CASE i \in k + 1 .. m
      BY <2>3, <1>4, <1>5
  <2> QED
      BY <2>1, <2>2, <2>3, <1>1
<1>6. ASSUME NEW i \in 1 .. m, s[i].role = "tool"
      PROVE  /\ s[i].n \in 1 .. i - 1
             /\ s[i - s[i].n].role = "assistant" /\ s[i].n <= s[i - s[i].n].n
  <2>1. CASE i \in 1 .. k - 1
      BY <2>1, <1>1, <1>2, <1>6 DEF AnsweredUpTo
  <2>2. CASE i = k
      BY <2>2, <1>3, <1>6
  <2>3. CASE i \in k + 1 .. m
    <3>1. s[i].n = i - k /\ i - k \in 1 .. i - 1 /\ i - (i - k) = k
        BY <2>3, <1>1, <1>4
    <3> QED
        BY <3>1, <2>3, <1>1, <1>3
  <2> QED
      BY <2>1, <2>2, <2>3, <1>1
<1> QED
    BY <1>5, <1>6, AnsweredAll DEF AnsweredUpTo, m

LEMMA AnsweredConcat ==
  ASSUME NEW s \in Seq(Message), NEW t \in Seq(Message),
         Store!CallsAnswered(s), Store!CallsAnswered(t)
  PROVE  Store!CallsAnswered(s \o t)
<1> DEFINE u == s \o t
           m == Len(s)
           n == Len(t)
<1>1. /\ u \in Seq(Message) /\ m \in Nat /\ n \in Nat /\ Len(u) = m + n
      /\ \A i \in 1 .. m : u[i] = s[i]
      /\ \A i \in 1 .. n : u[m + i] = t[i]
    OBVIOUS
<1>2. AnsweredUpTo(s, m) /\ AnsweredUpTo(t, n) /\ \A i \in 1 .. m : s[i].n \in Nat
    BY AnsweredAll, MessageAt
<1> HIDE DEF u, m, n
<1>3. AnsweredUpTo(u, m)
    BY <1>1, <1>2, AnsweredAgree
<1>4. \A i \in m + 1 .. m + n : i - m \in 1 .. n /\ m + (i - m) = i /\ u[i] = t[i - m]
    BY <1>1
<1>5. ASSUME NEW i \in 1 .. m + n, u[i].role = "assistant", NEW j \in 1 .. u[i].n
      PROVE  i + j <= m + n /\ u[i + j] = Tool(j)
  <2>1. CASE i <= m
      BY <2>1, <1>1, <1>3, <1>5 DEF AnsweredUpTo
  <2>2. CASE i > m
    <3>1. i - m \in 1 .. n /\ u[i] = t[i - m]
        BY <2>2, <1>1, <1>4
    <3>2. (i - m) + j <= n /\ t[(i - m) + j] = Tool(j)
        BY <3>1, <1>2, <1>5 DEF AnsweredUpTo
    <3> DEFINE k == (i - m) + j
    <3>3. j >= 1 /\ k \in 1 .. n /\ m + k = i + j /\ i + j <= m + n
        BY <3>1, <3>2, <1>1
    <3>4. t[k] = Tool(j)
        BY <3>2
    <3> HIDE DEF k
    <3>5. u[m + k] = Tool(j)
        BY <3>3, <3>4, <1>1
    <3> QED
        BY <3>3, <3>5
  <2> QED
      BY <2>1, <2>2, <1>1
<1>6. ASSUME NEW i \in 1 .. m + n, u[i].role = "tool"
      PROVE  /\ u[i].n \in 1 .. i - 1
             /\ u[i - u[i].n].role = "assistant" /\ u[i].n <= u[i - u[i].n].n
  <2>1. CASE i <= m
      BY <2>1, <1>1, <1>3, <1>6 DEF AnsweredUpTo
  <2>2. CASE i > m
    <3> DEFINE k == i - m
    <3>1. k \in 1 .. n /\ u[i] = t[k] /\ i = m + k
        BY <2>2, <1>1, <1>4
    <3> HIDE DEF k
    <3>2. PICK c : c = t[k].n
        OBVIOUS
    <3>3. c \in 1 .. k - 1 /\ t[k - c].role = "assistant" /\ c <= t[k - c].n
        BY <3>1, <3>2, <1>2, <1>6 DEF AnsweredUpTo
    <3>4. k - c \in 1 .. n /\ m + (k - c) = i - c /\ c \in 1 .. i - 1
        BY <3>1, <3>3, <1>1
    <3>5. u[i - c] = t[k - c]
        BY <3>4, <1>1
    <3> QED
        BY <3>1, <3>2, <3>3, <3>4, <3>5
  <2> QED
      BY <2>1, <2>2, <1>1
<1>7. AnsweredUpTo(u, m + n)
    BY <1>5, <1>6 DEF AnsweredUpTo
<1> QED
    BY <1>1, <1>7, AnsweredAll DEF u

(* A cut before a user message separates no call from its results.             *)
LEMMA AnsweredSuffix ==
  ASSUME NEW s \in Seq(Message), Store!CallsAnswered(s), NEW cut \in 0 .. Len(s) - 1,
         s[cut + 1].role = "user"
  PROVE  Store!CallsAnswered(SubSeq(s, cut + 1, Len(s)))
<1> DEFINE u == SubSeq(s, cut + 1, Len(s))
           m == Len(s)
           n == m - cut
<1>1. /\ u \in Seq(Message) /\ m \in Nat /\ n \in Nat /\ cut \in Nat /\ Len(u) = n
      /\ \A i \in 1 .. n : u[i] = s[cut + i]
    BY SubSeqProperties
<1>2. AnsweredUpTo(s, m) /\ \A i \in 1 .. m : s[i].n \in Nat
    BY AnsweredAll, MessageAt
<1>3. m = cut + n
    BY <1>1
<1> HIDE DEF u, m, n
<1>4. ASSUME NEW i \in 1 .. n, u[i].role = "assistant", NEW j \in 1 .. u[i].n
      PROVE  i + j <= n /\ u[i + j] = Tool(j)
  <2>1. cut + i \in 1 .. m /\ u[i] = s[cut + i]
      BY <1>1, <1>3
  <2>2. (cut + i) + j <= m /\ s[(cut + i) + j] = Tool(j)
      BY <2>1, <1>2, <1>4 DEF AnsweredUpTo
  <2>3. i + j \in 1 .. n /\ cut + (i + j) = (cut + i) + j
      BY <2>1, <2>2, <1>1, <1>3
  <2> QED
      BY <2>2, <2>3, <1>1
<1>5. ASSUME NEW i \in 1 .. n, u[i].role = "tool"
      PROVE  /\ u[i].n \in 1 .. i - 1
             /\ u[i - u[i].n].role = "assistant" /\ u[i].n <= u[i - u[i].n].n
  <2> DEFINE k == cut + i
  <2>1. k \in 1 .. m /\ u[i] = s[k] /\ k \in Nat /\ k > cut /\ i = k - cut
      BY <1>1, <1>3
  <2> HIDE DEF k
  <2>2. PICK c : c = s[k].n
      OBVIOUS
  <2>3. PICK a : a = k - c
      OBVIOUS
  <2>4. c \in 1 .. k - 1 /\ s[a].role = "assistant" /\ c <= s[a].n
      BY <2>1, <2>2, <2>3, <1>2, <1>5 DEF AnsweredUpTo
  <2>5. a \in 1 .. m /\ a + c = k
      BY <2>1, <2>3, <2>4, <1>1
  <2>6. PICK d \in Nat : d = s[a].n
      BY <2>5, <1>2
  <2>7. a > cut
    <3> SUFFICES ASSUME a <= cut
                 PROVE  FALSE
        BY <2>5, <1>1
    <3> DEFINE j == (cut + 1) - a
    <3>1. j \in 1 .. d /\ a + j = cut + 1
        BY <2>1, <2>4, <2>5, <2>6, <1>1
    <3> HIDE DEF j
    <3>2. s[a + j] = Tool(j)
        BY <2>4, <2>5, <2>6, <3>1, <1>2 DEF AnsweredUpTo
    <3>3. s[cut + 1].role = "tool"
        BY <3>1, <3>2 DEF Tool
    <3> QED
        BY <3>3
  <2>8. i - c \in 1 .. n /\ cut + (i - c) = a /\ c \in 1 .. i - 1
      BY <2>1, <2>3, <2>4, <2>5, <2>7, <1>1, <1>3
  <2>9. u[i - c] = s[a]
      BY <2>8, <1>1
  <2> QED
      BY <2>1, <2>2, <2>4, <2>8, <2>9
<1>6. AnsweredUpTo(u, n)
    BY <1>4, <1>5 DEF AnsweredUpTo
<1> QED
    BY <1>1, <1>6, AnsweredAll DEF u

(* User messages call nothing and answer nothing. *)
LEMMA UsersPlain ==
  ASSUME NEW ids \in Seq(Nat)
  PROVE  /\ Users(ids) \in Seq(Message) /\ Len(Users(ids)) = Len(ids)
         /\ \A i \in 1 .. Len(ids) : Users(ids)[i] = User(ids[i])
         /\ \A i \in 1 .. Len(ids) : Users(ids)[i].role = "user"
         /\ Store!CallsAnswered(Users(ids))
<1>1. DOMAIN ids = 1 .. Len(ids) /\ Len(ids) \in Nat /\ \A i \in 1 .. Len(ids) : ids[i] \in Nat
    OBVIOUS
<1>2. Users(ids) = [i \in 1 .. Len(ids) |-> User(ids[i])]
    BY <1>1 DEF Users
<1>3. \A i \in 1 .. Len(ids) : User(ids[i]) \in Message
    BY <1>1 DEF User, Message
<1>4. Users(ids) \in Seq(Message) /\ Len(Users(ids)) = Len(ids)
    BY <1>1, <1>2, <1>3
<1>5. \A i \in 1 .. Len(ids) : Users(ids)[i] = User(ids[i]) /\ Users(ids)[i].role = "user"
    BY <1>2 DEF User
<1>6. AnsweredUpTo(Users(ids), Len(Users(ids)))
    BY <1>4, <1>5 DEF AnsweredUpTo
<1> QED
    BY <1>4, <1>5, <1>6, AnsweredAll

(* What follows without an assistant message leaves the last one last.         *)
LEMMA LastAssistantStays ==
  ASSUME NEW s \in Seq(Message), NEW t \in Seq(Message), NEW i, LastAssistant(s, i),
         \A j \in 1 .. Len(t) : t[j].role # "assistant"
  PROVE  LastAssistant(s \o t, i)
<1> DEFINE u == s \o t
           m == Len(s)
           n == Len(t)
<1>1. /\ u \in Seq(Message) /\ m \in Nat /\ n \in Nat /\ Len(u) = m + n
      /\ DOMAIN u = 1 .. m + n /\ DOMAIN s = 1 .. m
      /\ \A j \in 1 .. m : u[j] = s[j]
      /\ \A j \in 1 .. n : u[m + j] = t[j]
    OBVIOUS
<1> HIDE DEF u, m
<1>2. \A j \in m + 1 .. m + n : u[j].role # "assistant"
  <2> SUFFICES ASSUME NEW j \in m + 1 .. m + n
               PROVE  u[j].role # "assistant"
      OBVIOUS
  <2>1. j - m \in 1 .. n /\ m + (j - m) = j
      BY <1>1
  <2> QED
      BY <2>1, <1>1
<1>3. i \in 1 .. m /\ s[i].role = "assistant" /\ \A j \in 1 .. m : j > i => s[j].role # "assistant"
    BY <1>1 DEF LastAssistant
<1>4. ASSUME NEW j \in 1 .. m + n, j > i
      PROVE  u[j].role # "assistant"
    BY <1>1, <1>2, <1>3, <1>4
<1> QED
    BY <1>1, <1>3, <1>4 DEF LastAssistant, u

-----------------------------------------------------------------------------
(* The user input in a transcript. *)

UserMessages == [role : {"user"}, n : Nat]

LEMMA UserIdsAppend ==
  ASSUME NEW s \in Seq(Message), NEW e \in Message, e.role # "user"
  PROVE  UserIds(Append(s, e)) = UserIds(s)
<1>1. e \notin UserMessages
    BY DEF UserMessages
<1>2. Selected(Append(s, e), UserMessages) = Selected(s, UserMessages)
  <2>1. Selected(Append(s, e), UserMessages) =
           IF e \in UserMessages THEN Append(Selected(s, UserMessages), e)
           ELSE Selected(s, UserMessages)
      BY SelectedAppend
  <2> QED
      BY <1>1, <2>1
<1> QED
    BY <1>2 DEF UserIds, UserMessages

LEMMA ConcatSplit ==
  ASSUME NEW T, NEW s \in Seq(T), NEW t \in Seq(T)
  PROVE  /\ s \o t \in Seq(T) /\ Len(s \o t) = Len(s) + Len(t)
         /\ \A i \in 1 .. Len(s) : (s \o t)[i] = s[i]
         /\ \A i \in 1 .. Len(t) : (s \o t)[Len(s) + i] = t[i]
         /\ \A i \in Len(s) + 1 .. Len(s) + Len(t) :
               (s \o t)[i] = t[i - Len(s)] /\ i - Len(s) \in 1 .. Len(t)
  OBVIOUS

LEMMA UserIdsAre ==
  ASSUME NEW s \in Seq(Message)
  PROVE  LET said == Selected(s, UserMessages)
         IN  /\ said \in Seq(Message)
             /\ UserIds(s) \in Seq(Nat) /\ Len(UserIds(s)) = Len(said)
             /\ \A i \in 1 .. Len(said) : UserIds(s)[i] = said[i].n
<1> DEFINE said == Selected(s, UserMessages)
           ids == [i \in 1 .. Len(said) |-> said[i].n]
<1>1. said \in Seq(Message)
    BY SelectedMembers
<1>2. \A i \in 1 .. Len(said) : said[i].n \in Nat
    BY <1>1, MessageAt
<1>3. UserIds(s) = ids
    BY <1>1 DEF UserIds, UserMessages
<1> HIDE DEF said
<1>4. ids \in Seq(Nat) /\ Len(ids) = Len(said) /\ \A i \in 1 .. Len(said) : ids[i] = said[i].n
    BY <1>1, <1>2
<1> QED
    BY <1>1, <1>3, <1>4 DEF said

LEMMA UsersAreUsers ==
  ASSUME NEW ids \in Seq(Nat)
  PROVE  Selected(Users(ids), UserMessages) = Users(ids)
<1> DEFINE said == Users(ids)
<1>1. said \in Seq(Message) /\ Len(said) = Len(ids) /\ \A i \in 1 .. Len(ids) : said[i] = User(ids[i])
    BY UsersPlain
<1>2. \A i \in 1 .. Len(ids) : ids[i] \in Nat
    OBVIOUS
<1> HIDE DEF said
<1>3. ASSUME NEW e \in Members(said)
      PROVE  e \in UserMessages
  <2>1. PICK i \in 1 .. Len(ids) : e = User(ids[i])
      BY <1>1 DEF Members
  <2> QED
      BY <2>1, <1>2 DEF User, UserMessages
<1> QED
    BY <1>1, <1>3, SelectedAll DEF said

LEMMA UserIdsConcat ==
  ASSUME NEW s \in Seq(Message), NEW ids \in Seq(Nat)
  PROVE  UserIds(s \o Users(ids)) = UserIds(s) \o ids
<1> DEFINE said == Selected(s, UserMessages)
           more == Users(ids)
           all  == said \o more
           before == UserIds(s)
           after  == UserIds(s \o more)
<1>1. /\ more \in Seq(Message) /\ Len(more) = Len(ids)
      /\ \A i \in 1 .. Len(ids) : more[i] = User(ids[i])
    BY UsersPlain
<1>2. /\ said \in Seq(Message) /\ before \in Seq(Nat) /\ Len(before) = Len(said)
      /\ \A i \in 1 .. Len(said) : before[i] = said[i].n
    BY UserIdsAre
<1>3. Selected(s \o more, UserMessages) = all
    BY <1>1, SelectedConcat, UsersAreUsers
<1>4. s \o more \in Seq(Message)
    BY <1>1
<1>5. /\ after \in Seq(Nat) /\ Len(after) = Len(all)
      /\ \A i \in 1 .. Len(all) : after[i] = all[i].n
    BY <1>3, <1>4, UserIdsAre
<1> HIDE DEF said, more, before, after
<1> DEFINE m == Len(said)
           n == Len(ids)
           both == before \o ids
<1>6. /\ m \in Nat /\ n \in Nat /\ Len(all) = m + n
      /\ \A i \in 1 .. m : all[i] = said[i]
      /\ \A i \in m + 1 .. m + n : all[i] = more[i - m] /\ i - m \in 1 .. n
  <2> DEFINE d == Len(more)
  <2>1. /\ Len(all) = m + d
        /\ \A i \in 1 .. m : all[i] = said[i]
        /\ \A i \in m + 1 .. m + d : all[i] = more[i - m] /\ i - m \in 1 .. d
    <3>1. said \in Seq(Message) /\ more \in Seq(Message)
        BY <1>1, <1>2
    <3> QED
        BY ONLY <3>1, ConcatSplit
  <2>2. d = n /\ m \in Nat /\ n \in Nat
      BY <1>1, <1>2
  <2> HIDE DEF all, d, m, n
  <2> QED
      BY <2>1, <2>2
<1>7. /\ both \in Seq(Nat) /\ Len(both) = m + n
      /\ \A i \in 1 .. m : both[i] = before[i]
      /\ \A i \in m + 1 .. m + n : both[i] = ids[i - m]
  <2>1. /\ both \in Seq(Nat) /\ Len(both) = Len(before) + Len(ids)
        /\ \A i \in 1 .. Len(before) : both[i] = before[i]
        /\ \A i \in Len(before) + 1 .. Len(before) + Len(ids) : both[i] = ids[i - Len(before)]
    <3>1. \A a, b \in Seq(Nat) :
             /\ a \o b \in Seq(Nat) /\ Len(a \o b) = Len(a) + Len(b)
             /\ \A i \in 1 .. Len(a) : (a \o b)[i] = a[i]
             /\ \A i \in Len(a) + 1 .. Len(a) + Len(b) : (a \o b)[i] = b[i - Len(a)]
        BY ConcatSplit
    <3> QED
        BY <3>1, <1>2
  <2>2. Len(before) = m /\ m \in Nat
      BY <1>2
  <2> HIDE DEF both, m
  <2> QED
      BY <2>1, <2>2
<1> HIDE DEF all, m, n, both
<1>8. ASSUME NEW i \in 1 .. m + n
      PROVE  after[i] = both[i]
  <2>1. CASE i \in 1 .. m
      BY <2>1, <1>2, <1>5, <1>6, <1>7 DEF m
  <2>2. CASE i \in m + 1 .. m + n
    <3>1. i - m \in 1 .. Len(ids) /\ all[i] = more[i - m]
        BY <2>2, <1>6 DEF n
    <3>2. all[i] = User(ids[i - m])
        BY <3>1, <1>1
    <3>3. all[i].n = ids[i - m]
        BY <3>2 DEF User
    <3> QED
        BY <3>3, <2>2, <1>5, <1>6, <1>7
  <2> QED
      BY <2>1, <2>2, <1>6
<1>9. after = both
    BY <1>5, <1>6, <1>7, <1>8, SeqEqual
<1> QED
    BY <1>9 DEF after, both, before, more

LEMMA UserIdsUsers == ASSUME NEW ids \in Seq(Nat) PROVE UserIds(Users(ids)) = ids
<1> DEFINE said == Users(ids)
<1>1. said \in Seq(Message) /\ Len(said) = Len(ids) /\ \A i \in 1 .. Len(ids) : said[i] = User(ids[i])
    BY UsersPlain
<1>2. /\ UserIds(said) \in Seq(Nat) /\ Len(UserIds(said)) = Len(said)
      /\ \A i \in 1 .. Len(said) : UserIds(said)[i] = said[i].n
    BY <1>1, UsersAreUsers, UserIdsAre
<1> HIDE DEF said
<1>3. ASSUME NEW i \in 1 .. Len(ids)
      PROVE  UserIds(said)[i] = ids[i]
  <2>1. said[i] = User(ids[i]) /\ UserIds(said)[i] = said[i].n
      BY <1>1, <1>2
  <2> QED
      BY <2>1 DEF User
<1>4. UserIds(said) = ids
    BY <1>1, <1>2, <1>3, SeqEqual
<1> QED
    BY <1>4 DEF said

-----------------------------------------------------------------------------
(* What the state and the locals of a turn contain. *)

History == [messages : Seq(Message), cont : Nat, bounds : Seq(Nat)]
Request == [messages : Seq(Message), cont : Nat, reminders : Seq(Registrable)]
Session == [base : Seq(Registrable), remaining : Seq(Registrable)]
Turn == [input : Nat, base : History, added : Seq(Message), cont : Nat, round : Nat,
         session : Session, calls : Nat, answered : Nat, incoming : Seq(Nat),
         request : Request, polled : Seq(Nat), requests : Nat]

StartsTurn(messages, cut) == cut < Len(messages) => messages[cut + 1].role = "user"

CurrentCont(messages, cont) == cont # 0 => LastAssistant(messages, cont)

(* A history answers its calls, a turn starts at its beginning and after every *)
(* boundary, and its continuation came with its last response.                 *)
HistoryOK(h) ==
    /\ h \in History
    /\ Store!CallsAnswered(h.messages)
    /\ StartsTurn(h.messages, 0)
    /\ \A i \in DOMAIN h.bounds : h.bounds[i] <= Len(h.messages) /\ StartsTurn(h.messages, h.bounds[i])
    /\ CurrentCont(h.messages, h.cont)

Requested(t) ==
    LET sent == t.request.messages
        own  == t.added
    IN  /\ sent[1].role = "user"
        /\ Len(sent) >= Len(own)
        /\ SubSeq(sent, Len(sent) - Len(own) + 1, Len(sent)) = own
        /\ Store!CallsAnswered(sent)
        /\ CurrentCont(Working(t), t.request.cont)

TranscriptOK(t, at) ==
    /\ t \in Turn
    /\ HistoryOK(t.base)
    /\ t.added # <<>> /\ t.added[1].role = "user"
    /\ at \in {"poll", "compile", "generate"} => Store!CallsAnswered(t.added)
    /\ at \in {"intake", "tools"} => Open(t.added, t.calls, t.answered)
    /\ at = "tools" => t.answered < t.calls
    /\ at # "tools" => t.answered = 0 /\ t.incoming = <<>>
    /\ CurrentCont(Working(t), t.cont)
    /\ at = "intake" => t.cont \in {0, Len(Working(t))}
    /\ at = "generate" => Requested(t)

InputKept(t) == UserIds(t.added) \o t.incoming = <<t.input>> \o t.polled

SessionSettles(t) ==
    LET left == Without(t.session.base, "turn")
    IN  t.session.remaining = IF t.requests = 0 THEN left ELSE Without(left, "next_request")

TurnOK(t, at) == TranscriptOK(t, at) /\ InputKept(t) /\ SessionSettles(t)

LEMMA WorkingTyped ==
  ASSUME NEW t \in Turn
  PROVE  /\ t.base.messages \in Seq(Message) /\ t.added \in Seq(Message)
         /\ Working(t) \in Seq(Message)
         /\ Len(Working(t)) = Len(t.base.messages) + Len(t.added)
<1>1. t.base.messages \in Seq(Message) /\ t.added \in Seq(Message)
    BY DEF Turn, History
<1> QED
    BY <1>1, ConcatSplit DEF Working

LEMMA OneMessage == \A m \in Message : <<m>> \in Seq(Message) /\ Len(<<m>>) = 1 /\ <<m>>[1] = m
  OBVIOUS

LEMMA Messages == \A n \in Nat : User(n) \in Message /\ Assistant(n) \in Message /\ Tool(n) \in Message
  BY DEF User, Assistant, Tool, Message

(* Users at the end of a turn that has answered its calls. *)
LEMMA MoreUsers ==
  ASSUME NEW t \in Turn, NEW u \in Turn, NEW ids \in Seq(Nat),
         u.base = t.base, u.added = t.added \o Users(ids), u.cont = t.cont,
         t.added # <<>>, t.added[1].role = "user",
         Store!CallsAnswered(t.added), CurrentCont(Working(t), t.cont)
  PROVE  /\ u.added # <<>> /\ u.added[1].role = "user"
         /\ Store!CallsAnswered(u.added)
         /\ CurrentCont(Working(u), u.cont)
<1> DEFINE more == Users(ids)
           own  == t.added
           old  == t.base.messages
<1>1. /\ own \in Seq(Message) /\ old \in Seq(Message)
      /\ Working(t) = old \o own /\ Working(t) \in Seq(Message)
      /\ Working(u) = old \o (own \o more)
    BY WorkingTyped DEF Working
<1>2. /\ more \in Seq(Message) /\ Store!CallsAnswered(more) /\ Len(more) = Len(ids)
      /\ \A i \in 1 .. Len(ids) : more[i].role = "user"
    BY UsersPlain
<1>3. \A i \in 1 .. Len(more) : more[i].role # "assistant"
    BY <1>2
<1>4. own # <<>> /\ own[1].role = "user" /\ Store!CallsAnswered(own) /\ u.added = own \o more
    OBVIOUS
<1> HIDE DEF more, own, old
<1>5. u.added # <<>> /\ u.added[1] = own[1]
    BY <1>1, <1>2, <1>4
<1>6. Store!CallsAnswered(u.added)
    BY <1>1, <1>2, <1>4, AnsweredConcat
<1>7. Working(u) = Working(t) \o more
  <2>1. (old \o own) \o more = old \o (own \o more)
      BY <1>1, <1>2, ConcatAssociative
  <2> QED
      BY <2>1, <1>1
<1>8. CurrentCont(Working(u), u.cont)
    BY <1>1, <1>2, <1>3, <1>7, LastAssistantStays DEF CurrentCont
<1> QED
    BY <1>4, <1>5, <1>6, <1>8

LEMMA OpenSessionTyped ==
  ASSUME NEW rs \in Seq(Registrable)
  PROVE  OpenSession(rs) \in Session
  BY WithoutKeeps DEF OpenSession, Session

LEMMA NewTurnTyped ==
  ASSUME NEW n \in Nat
  PROVE  /\ NewTurn(n) \in Turn
         /\ NewTurn(n).input = n /\ NewTurn(n).polled = <<>> /\ NewTurn(n).requests = 0
         /\ NewTurn(n).answered = 0 /\ NewTurn(n).incoming = <<>>
<1> DEFINE none == [messages |-> <<>>, cont |-> 0, reminders |-> <<>>]
           new == OpenSession(<<>>)
<1>1. /\ <<>> \in Seq(Nat) /\ <<>> \in Seq(Message) /\ <<>> \in Seq(Registrable)
    BY EmptySeq
<1>2. none \in Request /\ EmptyHistory \in History /\ new \in Session
    BY <1>1, OpenSessionTyped DEF Request, EmptyHistory, History
<1> HIDE DEF none, new
<1>3. NewTurn(n) =
        [input |-> n, base |-> EmptyHistory, added |-> <<>>, cont |-> 0, round |-> 1,
         session |-> new, calls |-> 0, answered |-> 0, incoming |-> <<>>,
         request |-> none, polled |-> <<>>, requests |-> 0]
    BY DEF NewTurn, none, new
<1> QED
    BY <1>1, <1>2, <1>3 DEF Turn

LEMMA StartOK ==
  ASSUME NEW h, HistoryOK(h), NEW rs \in Seq(Registrable), NEW n \in Nat
  PROVE  TurnOK([NewTurn(n) EXCEPT !.base = h, !.added = <<User(n)>>, !.cont = h.cont,
                                   !.session = OpenSession(rs)], "poll")
<1> DEFINE blank == NewTurn(n)
           own == <<User(n)>>
           new == OpenSession(rs)
           cont == h.cont
           u == [blank EXCEPT !.base = h, !.added = own, !.cont = cont, !.session = new]
<1>1. /\ blank \in Turn /\ blank.input = n /\ blank.polled = <<>> /\ blank.requests = 0
      /\ blank.answered = 0 /\ blank.incoming = <<>>
    BY NewTurnTyped
<1>2. new \in Session /\ new.base = rs /\ new.remaining = Without(rs, "turn")
    BY OpenSessionTyped DEF OpenSession
<1>3. own \in Seq(Message) /\ Len(own) = 1 /\ own[1] = User(n) /\ own # <<>>
    BY OneMessage, Messages
<1>4. own = Users(<<n>>) /\ <<n>> \in Seq(Nat)
    BY DEF Users
<1>5. h \in History /\ cont \in Nat /\ h.messages \in Seq(Message)
    BY DEF HistoryOK, History
<1>6. u = [blank EXCEPT !.base = h, !.added = own, !.cont = cont, !.session = new]
    OBVIOUS
<1> HIDE DEF u, blank, new, own, cont
<1>7. u \in Turn
    BY <1>1, <1>2, <1>3, <1>5, <1>6 DEF Turn
<1>8. /\ u.base = h /\ u.added = own /\ u.cont = cont /\ u.answered = 0 /\ u.incoming = <<>>
      /\ u.input = n /\ u.polled = <<>> /\ u.requests = 0 /\ u.session = new
    BY <1>1, <1>6 DEF Turn
<1>9. Store!CallsAnswered(own) /\ UserIds(own) = <<n>>
    BY <1>4, UsersPlain, UserIdsUsers
<1>10. CurrentCont(Working(u), u.cont)
  <2>1. \A i \in 1 .. Len(own) : own[i].role # "assistant"
      BY <1>3 DEF User
  <2> QED
      BY <2>1, <1>3, <1>5, <1>8, LastAssistantStays DEF CurrentCont, HistoryOK, Working, cont
<1>11. own[1].role = "user"
    BY <1>3 DEF User
<1>12. TranscriptOK(u, "poll")
    BY <1>3, <1>7, <1>8, <1>9, <1>10, <1>11 DEF TranscriptOK
<1>13. InputKept(u)
    BY <1>8, <1>9 DEF InputKept
<1>14. SessionSettles(u)
    BY <1>2, <1>8 DEF SessionSettles
<1> QED
    BY <1>12, <1>13, <1>14 DEF TurnOK, u, blank, own, cont, new

LEMMA NatConcatAssociative ==
  ASSUME NEW a \in Seq(Nat), NEW b \in Seq(Nat), NEW c \in Seq(Nat)
  PROVE  (a \o b) \o c = a \o (b \o c)
  BY ConcatAssociative

(* Input that joins what a turn took keeps its place.                          *)
LEMMA MoreInput ==
  ASSUME NEW t \in Turn, InputKept(t), t.incoming = <<>>, NEW ids \in Seq(Nat)
  PROVE  UserIds(t.added) \o ids = <<t.input>> \o (t.polled \o ids)
<1> DEFINE own == UserIds(t.added)
<1>1. t.polled \in Seq(Nat) /\ <<t.input>> \in Seq(Nat) /\ own \in Seq(Nat)
    BY UserIdsAre DEF Turn
<1>2. own \o <<>> = <<t.input>> \o t.polled
    BY DEF InputKept
<1>3. own = <<t.input>> \o t.polled
    BY <1>1, <1>2, ConcatEmptySeq
<1>4. (<<t.input>> \o t.polled) \o ids = <<t.input>> \o (t.polled \o ids)
    BY <1>1, NatConcatAssociative
<1> QED
    BY <1>3, <1>4

LEMMA PollOK ==
  ASSUME NEW t, TurnOK(t, "poll"), NEW ids \in Seq(Nat)
  PROVE  TurnOK([t EXCEPT !.added = @ \o Users(ids), !.polled = @ \o ids], "compile")
<1> DEFINE u == [t EXCEPT !.added = @ \o Users(ids), !.polled = @ \o ids]
           own == t.added \o Users(ids)
           all == t.polled \o ids
<1>1. t \in Turn /\ TranscriptOK(t, "poll") /\ InputKept(t) /\ SessionSettles(t)
    BY DEF TurnOK, TranscriptOK
<1>2. t.added \in Seq(Message) /\ t.polled \in Seq(Nat) /\ t.input \in Nat
    BY <1>1 DEF Turn
<1>3. own \in Seq(Message) /\ all \in Seq(Nat)
    BY <1>2, UsersPlain
<1>4. u = [t EXCEPT !.added = own, !.polled = all]
    OBVIOUS
<1> HIDE DEF u, own, all
<1>5. u \in Turn
    BY <1>1, <1>3, <1>4 DEF Turn
<1>6. /\ u.base = t.base /\ u.added = own /\ u.cont = t.cont /\ u.answered = t.answered
      /\ u.incoming = t.incoming /\ u.input = t.input /\ u.polled = all
      /\ u.requests = t.requests /\ u.session = t.session
    BY <1>1, <1>4 DEF Turn
<1>7. TranscriptOK(u, "compile")
    BY <1>1, <1>5, <1>6, MoreUsers DEF TranscriptOK, own
<1>8. InputKept(u)
  <2>1. t.incoming = <<>> /\ UserIds(own) = UserIds(t.added) \o ids
      BY <1>1, <1>2, UserIdsConcat DEF TranscriptOK, own
  <2>2. UserIds(own) = <<t.input>> \o all
      BY <1>1, <2>1, MoreInput DEF all
  <2>3. UserIds(own) \in Seq(Nat)
      BY <1>3, UserIdsAre
  <2> QED
      BY <1>6, <2>1, <2>2, <2>3, ConcatEmptySeq DEF InputKept
<1>9. SessionSettles(u)
    BY <1>1, <1>6 DEF SessionSettles
<1> QED
    BY <1>7, <1>8, <1>9 DEF TurnOK, u

(* What is sent when the history is cut before one of its turns.               *)
LEMMA CutRequest ==
  ASSUME NEW old \in Seq(Message), NEW own \in Seq(Message),
         own # <<>>, own[1].role = "user",
         Store!CallsAnswered(old), Store!CallsAnswered(own),
         NEW cut \in 0 .. Len(old), StartsTurn(old, cut)
  PROVE  LET all  == old \o own
             sent == SubSeq(all, cut + 1, Len(all))
         IN  /\ sent \in Seq(Message)
             /\ sent[1].role = "user"
             /\ Len(sent) >= Len(own)
             /\ SubSeq(sent, Len(sent) - Len(own) + 1, Len(sent)) = own
             /\ Store!CallsAnswered(sent)
<1> DEFINE all  == old \o own
           sent == SubSeq(all, cut + 1, Len(all))
           k == Len(old)
           m == Len(own)
           n == Len(sent)
           tail == SubSeq(sent, n - m + 1, n)
<1>1. /\ k \in Nat /\ m \in Nat /\ m > 0
      /\ all \in Seq(Message) /\ Len(all) = k + m
      /\ \A i \in 1 .. k : all[i] = old[i]
      /\ \A i \in 1 .. m : all[k + i] = own[i]
    BY ConcatSplit
<1>2. /\ sent \in Seq(Message) /\ n = k + m - cut
      /\ \A i \in 1 .. n : sent[i] = all[cut + i]
    BY <1>1, SubSeqProperties
<1>3. all[cut + 1].role = "user"
  <2>1. CASE cut = k
      BY <2>1, <1>1
  <2>2. CASE cut < k
      BY <2>2, <1>1 DEF StartsTurn
  <2> QED
      BY <2>1, <2>2
<1>4. Store!CallsAnswered(sent)
  <2>1. Store!CallsAnswered(all)
      BY AnsweredConcat
  <2>2. cut \in 0 .. Len(all) - 1
      BY <1>1
  <2> QED
      BY <1>1, <1>3, <2>1, <2>2, AnsweredSuffix
<1>5. n >= m /\ n \in Nat /\ sent[1] = all[cut + 1]
    BY <1>1, <1>2
<1> HIDE DEF all, sent, k, m
<1>6. /\ tail \in Seq(Message) /\ Len(tail) = m
      /\ \A i \in 1 .. m : tail[i] = sent[n - m + i]
    BY <1>1, <1>2, <1>5, SubSeqProperties
<1> HIDE DEF tail, n
<1>7. ASSUME NEW i \in 1 .. m
      PROVE  tail[i] = own[i]
  <2>1. PICK p \in 1 .. n : p = n - m + i /\ cut + p = k + i
      BY <1>1, <1>2, <1>5
  <2>2. tail[i] = sent[p]
      BY <1>6, <2>1
  <2>3. sent[p] = all[k + i]
      BY <1>2, <2>1
  <2> QED
      BY <2>2, <2>3, <1>1
<1>8. tail = own
    BY <1>6, <1>7, SeqEqual DEF m
<1> QED
    BY <1>2, <1>3, <1>4, <1>5, <1>8 DEF all, sent, m, n, tail

LEMMA AcceptSettles ==
  ASSUME NEW t \in Turn, SessionSettles(t)
  PROVE  /\ Accept(t.session) \in Session /\ Active(t.session) \in Seq(Registrable)
         /\ Accept(t.session).base = t.session.base
         /\ Accept(t.session).remaining =
               Without(Without(t.session.base, "turn"), "next_request")
<1> DEFINE session == t.session
           base == session.base
           remaining == session.remaining
           left == Without(base, "turn")
<1>1. session \in Session /\ base \in Seq(Registrable) /\ remaining \in Seq(Registrable)
    BY DEF Turn, Session
<1>2. /\ left \in Seq(Registrable) /\ Members(left) \subseteq Members(base)
      /\ Without(left, "next_request") \in Seq(Registrable)
      /\ Members(Without(left, "next_request")) \subseteq Members(base)
    BY <1>1, WithoutKeeps
<1>3. remaining = IF t.requests = 0 THEN left ELSE Without(left, "next_request")
    BY DEF SessionSettles
<1>4. Without(remaining, "next_request") = Without(left, "next_request")
  <2>1. ~ HasScope(Without(left, "next_request"), "next_request")
      BY <1>2, WithoutHasScope
  <2>2. Without(Without(left, "next_request"), "next_request") = Without(left, "next_request")
      BY <1>2, <2>1, WithoutNothing
  <2> QED
      BY <1>3, <2>2
<1>5. Members(remaining) \subseteq Members(base)
    BY <1>2, <1>3
<1>6. Accept(session) = [session EXCEPT !.remaining = Without(remaining, "next_request")]
    BY <1>1, <1>5, AcceptConsumes DEF Session
<1>7. Active(session) \in Seq(Registrable)
    BY <1>1, WithoutKeeps DEF Active
<1> HIDE DEF left, base, remaining, session
<1>8. /\ Accept(session) \in Session /\ Accept(session).base = session.base
      /\ Accept(session).remaining = Without(left, "next_request")
    BY <1>1, <1>2, <1>4, <1>6 DEF Session
<1> QED
    BY <1>7, <1>8 DEF session, left, base

LEMMA CompileOK ==
  ASSUME NEW t, TurnOK(t, "compile"), NEW cut \in Cuts(t)
  PROVE  TurnOK([t EXCEPT
            !.request = [messages  |-> SubSeq(Working(t), cut + 1, Len(Working(t))),
                         cont      |-> IF SendsContinuation THEN t.cont ELSE 0,
                         reminders |-> Active(t.session)],
            !.session = Accept(t.session),
            !.requests = @ + 1], "generate")
<1> DEFINE sent == SubSeq(Working(t), cut + 1, Len(Working(t)))
           cont == IF SendsContinuation THEN t.cont ELSE 0
           request == [messages |-> sent, cont |-> cont, reminders |-> Active(t.session)]
           session == Accept(t.session)
           count == t.requests + 1
           u == [t EXCEPT !.request = request, !.session = session, !.requests = count]
           old == t.base.messages
           own == t.added
<1>1. t \in Turn /\ TranscriptOK(t, "compile") /\ InputKept(t) /\ SessionSettles(t)
    BY DEF TurnOK, TranscriptOK
<1>2. /\ old \in Seq(Message) /\ own \in Seq(Message) /\ t.cont \in Nat /\ t.requests \in Nat
      /\ Working(t) = old \o own
    BY <1>1 DEF Turn, History, Working
<1>3. /\ own # <<>> /\ own[1].role = "user" /\ Store!CallsAnswered(old)
      /\ Store!CallsAnswered(own) /\ HistoryOK(t.base)
    BY <1>1 DEF TranscriptOK, HistoryOK
<1>4. cut \in 0 .. Len(old) /\ StartsTurn(old, cut)
  <2>1. CASE cut = 0
      BY <2>1, <1>2, <1>3 DEF HistoryOK
  <2>2. CASE \E i \in DOMAIN t.base.bounds : cut = t.base.bounds[i]
    <3>1. t.base.bounds \in Seq(Nat)
        BY <1>1 DEF Turn, History
    <3> QED
        BY <2>2, <3>1, <1>2, <1>3 DEF HistoryOK
  <2> QED
      BY <2>1, <2>2 DEF Cuts
<1>5. /\ sent \in Seq(Message) /\ sent[1].role = "user" /\ Len(sent) >= Len(own)
      /\ SubSeq(sent, Len(sent) - Len(own) + 1, Len(sent)) = own
      /\ Store!CallsAnswered(sent)
  <2> DEFINE whole == old \o own
             part == SubSeq(whole, cut + 1, Len(whole))
  <2> HIDE DEF old, own
  <2>1. /\ part \in Seq(Message) /\ part[1].role = "user" /\ Len(part) >= Len(own)
        /\ SubSeq(part, Len(part) - Len(own) + 1, Len(part)) = own
        /\ Store!CallsAnswered(part)
      BY <1>2, <1>3, <1>4, CutRequest
  <2>2. part = sent
      BY <1>2
  <2> HIDE DEF part
  <2> QED
      BY <2>1, <2>2
<1>6. /\ session \in Session /\ Active(t.session) \in Seq(Registrable)
      /\ session.base = t.session.base
      /\ session.remaining = Without(Without(t.session.base, "turn"), "next_request")
    BY <1>1, AcceptSettles
<1>7. cont \in Nat /\ (cont # 0 => cont = t.cont)
    BY <1>2
<1> HIDE DEF sent, cont, session, old, own
<1>8. request \in Request /\ request.messages = sent /\ request.cont = cont
    BY <1>5, <1>6, <1>7 DEF Request
<1>9. count \in Nat /\ count # 0
    BY <1>2
<1>10. u = [t EXCEPT !.request = request, !.session = session, !.requests = count]
    OBVIOUS
<1> HIDE DEF u, request, count
<1>11. u \in Turn
    BY <1>1, <1>6, <1>8, <1>9, <1>10 DEF Turn
<1>12. /\ u.base = t.base /\ u.added = t.added /\ u.cont = t.cont /\ u.answered = t.answered
       /\ u.incoming = t.incoming /\ u.input = t.input /\ u.polled = t.polled
       /\ u.requests = count /\ u.session = session /\ u.request = request
    BY <1>1, <1>10 DEF Turn
<1>13. Working(u) = Working(t)
    BY <1>12 DEF Working
<1>14. Requested(u)
    BY <1>1, <1>5, <1>7, <1>8, <1>12, <1>13 DEF Requested, TranscriptOK, CurrentCont, own
<1>15. TranscriptOK(u, "generate")
    BY <1>1, <1>11, <1>12, <1>13, <1>14 DEF TranscriptOK
<1>16. InputKept(u)
    BY <1>1, <1>12 DEF InputKept
<1>17. SessionSettles(u)
    BY <1>6, <1>9, <1>12 DEF SessionSettles
<1> QED
    BY <1>15, <1>16, <1>17 DEF TurnOK, u, request, sent, cont, session, count

(* A message that is not a user's joins the turn.                              *)
LEMMA OneMore ==
  ASSUME NEW t \in Turn, NEW u \in Turn, NEW m \in Message, m.role # "user",
         u.base = t.base, u.added = Append(t.added, m),
         t.added # <<>>, t.added[1].role = "user"
  PROVE  /\ u.added # <<>> /\ u.added[1].role = "user"
         /\ UserIds(u.added) = UserIds(t.added)
         /\ Working(u) = Append(Working(t), m)
         /\ m.role # "assistant" /\ u.cont = t.cont /\ CurrentCont(Working(t), t.cont) =>
               CurrentCont(Working(u), u.cont)
<1> DEFINE own  == t.added
           old  == t.base.messages
           work == Working(t)
           one  == <<m>>
<1>1. own \in Seq(Message) /\ old \in Seq(Message) /\ work = old \o own /\ work \in Seq(Message)
    BY WorkingTyped DEF Working
<1>2. Working(u) = old \o Append(own, m)
    BY DEF Working
<1>3. own # <<>> /\ own[1].role = "user" /\ u.added = Append(own, m)
    OBVIOUS
<1>4. one \in Seq(Message) /\ Len(one) = 1 /\ one[1] = m
    BY OneMessage
<1> HIDE DEF own, old, work, one
<1>5. Append(own, m) # <<>> /\ Append(own, m)[1] = own[1]
    BY <1>1, <1>3
<1>6. UserIds(Append(own, m)) = UserIds(own)
    BY <1>1, UserIdsAppend
<1>7. Working(u) = Append(work, m)
    BY <1>1, <1>2
<1>8. Append(work, m) = work \o one
    BY <1>1 DEF one
<1>9. ASSUME m.role # "assistant", CurrentCont(work, t.cont)
      PROVE  CurrentCont(work \o one, t.cont)
  <2>1. \A j \in 1 .. Len(one) : one[j].role # "assistant"
      BY <1>4, <1>9
  <2> QED
      BY <1>1, <1>4, <1>9, <2>1, LastAssistantStays DEF CurrentCont
<1> QED
    BY <1>3, <1>5, <1>6, <1>7, <1>8, <1>9 DEF own, work

LEMMA GenerateOK ==
  ASSUME NEW t, TurnOK(t, "generate"), NEW n \in Nat, NEW returned \in BOOLEAN
  PROVE  TurnOK([t EXCEPT !.added = Append(@, Assistant(n)), !.cont = NextCont(t, returned),
                          !.calls = n], "intake")
<1> DEFINE own == Append(t.added, Assistant(n))
           cont == NextCont(t, returned)
           u == [t EXCEPT !.added = own, !.cont = cont, !.calls = n]
<1>1. t \in Turn /\ TranscriptOK(t, "generate") /\ InputKept(t) /\ SessionSettles(t)
    BY DEF TurnOK, TranscriptOK
<1>2. t.added \in Seq(Message) /\ Assistant(n) \in Message /\ Assistant(n).role = "assistant"
    BY <1>1, Messages DEF Turn, Assistant
<1>3. own \in Seq(Message)
    BY <1>2
<1>4. Working(t) \in Seq(Message) /\ Len(Working(t)) \in Nat
  <2>1. Working(t) \in Seq(Message)
      BY <1>1, WorkingTyped
  <2> QED
      BY <2>1, LenProperties
<1>5. cont \in Nat /\ cont \in {0, Len(Working(t)) + 1}
    BY <1>4 DEF NextCont
<1>6. Open(own, n, 0)
  <2>1. Store!CallsAnswered(t.added)
      BY <1>1 DEF TranscriptOK
  <2> QED
      BY <1>2, <2>1, OpenCalls
<1>7. u = [t EXCEPT !.added = own, !.cont = cont, !.calls = n]
    OBVIOUS
<1> HIDE DEF u, cont
<1>8. u \in Turn
    BY <1>1, <1>3, <1>5, <1>7 DEF Turn
<1>9. /\ u.base = t.base /\ u.added = own /\ u.cont = cont /\ u.answered = t.answered
      /\ u.incoming = t.incoming /\ u.input = t.input /\ u.polled = t.polled
      /\ u.requests = t.requests /\ u.session = t.session /\ u.calls = n
    BY <1>1, <1>7 DEF Turn
<1>10. /\ u.added # <<>> /\ u.added[1].role = "user" /\ UserIds(u.added) = UserIds(t.added)
       /\ Working(u) = Append(Working(t), Assistant(n))
    BY <1>1, <1>2, <1>8, <1>9, OneMore DEF TranscriptOK
<1>11. /\ Len(Working(u)) = Len(Working(t)) + 1
       /\ Working(u)[Len(Working(u))] = Assistant(n)
       /\ DOMAIN Working(u) = 1 .. Len(Working(u))
    BY <1>2, <1>4, <1>10
<1>12. LastAssistant(Working(u), Len(Working(u)))
    BY <1>2, <1>4, <1>11 DEF LastAssistant
<1>13. CurrentCont(Working(u), u.cont) /\ u.cont \in {0, Len(Working(u))}
    BY <1>5, <1>9, <1>11, <1>12 DEF CurrentCont
<1> HIDE DEF own
<1>14. TranscriptOK(u, "intake")
    BY <1>1, <1>6, <1>8, <1>9, <1>10, <1>13 DEF TranscriptOK
<1>15. InputKept(u) /\ SessionSettles(u)
    BY <1>1, <1>9, <1>10 DEF InputKept, SessionSettles
<1> QED
    BY <1>14, <1>15 DEF TurnOK, u, own, cont

(* Input received after a response with calls waits for their results.         *)
LEMMA IntakeToolsOK ==
  ASSUME NEW t, TurnOK(t, "intake"), t.calls > 0, NEW ids \in Seq(Nat)
  PROVE  TurnOK([t EXCEPT !.incoming = ids, !.polled = @ \o ids], "tools")
<1> DEFINE all == t.polled \o ids
           u == [t EXCEPT !.incoming = ids, !.polled = all]
<1>1. t \in Turn /\ TranscriptOK(t, "intake") /\ InputKept(t) /\ SessionSettles(t)
    BY DEF TurnOK, TranscriptOK
<1>2. t.added \in Seq(Message) /\ t.polled \in Seq(Nat) /\ t.input \in Nat /\ t.calls \in Nat
    BY <1>1 DEF Turn
<1>3. all \in Seq(Nat)
    BY <1>2
<1>4. u = [t EXCEPT !.incoming = ids, !.polled = all]
    OBVIOUS
<1>5. UserIds(t.added) \o ids = <<t.input>> \o all
    BY <1>1, MoreInput DEF TranscriptOK
<1> HIDE DEF u, all
<1>6. u \in Turn
    BY <1>1, <1>3, <1>4 DEF Turn
<1>7. /\ u.base = t.base /\ u.added = t.added /\ u.cont = t.cont /\ u.answered = t.answered
      /\ u.incoming = ids /\ u.input = t.input /\ u.polled = all
      /\ u.requests = t.requests /\ u.session = t.session /\ u.calls = t.calls
    BY <1>1, <1>4 DEF Turn
<1>8. Working(u) = Working(t)
    BY <1>7 DEF Working
<1>9. TranscriptOK(u, "tools")
    BY <1>1, <1>2, <1>6, <1>7, <1>8 DEF TranscriptOK
<1>10. InputKept(u) /\ SessionSettles(u)
    BY <1>1, <1>5, <1>7 DEF InputKept, SessionSettles
<1> QED
    BY <1>9, <1>10 DEF TurnOK, u, all

(* The next round begins with the input that waited, when all is answered.     *)
LEMMA NextRoundOK ==
  ASSUME NEW t \in Turn, NEW ids \in Seq(Nat), HistoryOK(t.base),
         t.added # <<>>, t.added[1].role = "user", Store!CallsAnswered(t.added),
         CurrentCont(Working(t), t.cont),
         UserIds(t.added) \o ids = <<t.input>> \o t.polled, SessionSettles(t)
  PROVE  TurnOK(NextRound(t, ids), "poll") /\ NextRound(t, ids).polled = t.polled
<1> DEFINE own == t.added \o Users(ids)
           round == t.round + 1
           u == [t EXCEPT !.added = own, !.round = round, !.calls = 0, !.answered = 0,
                          !.incoming = <<>>]
<1>1. u = NextRound(t, ids)
    BY DEF NextRound
<1>2. t.added \in Seq(Message) /\ round \in Nat
    BY DEF Turn
<1>3. own \in Seq(Message) /\ <<>> \in Seq(Nat) /\ 0 \in Nat
    BY <1>2, UsersPlain
<1>4. UserIds(own) \in Seq(Nat) /\ UserIds(own) = UserIds(t.added) \o ids
    BY <1>2, <1>3, UserIdsAre, UserIdsConcat
<1>5. u = [t EXCEPT !.added = own, !.round = round, !.calls = 0, !.answered = 0,
                    !.incoming = <<>>]
    OBVIOUS
<1> HIDE DEF u, round, own
<1>6. u \in Turn
    BY <1>2, <1>3, <1>5 DEF Turn
<1>7. /\ u.base = t.base /\ u.added = own /\ u.cont = t.cont /\ u.answered = 0
      /\ u.incoming = <<>> /\ u.input = t.input /\ u.polled = t.polled
      /\ u.requests = t.requests /\ u.session = t.session
    BY <1>5 DEF Turn
<1>8. TranscriptOK(u, "poll")
  <2>1. /\ u.added # <<>> /\ u.added[1].role = "user" /\ Store!CallsAnswered(u.added)
        /\ CurrentCont(Working(u), u.cont)
      BY <1>6, <1>7, MoreUsers DEF own
  <2> QED
      BY <1>6, <1>7, <2>1 DEF TranscriptOK
<1>9. InputKept(u)
    BY <1>4, <1>7, ConcatEmptySeq DEF InputKept
<1>10. SessionSettles(u)
    BY <1>7 DEF SessionSettles
<1> QED
    BY <1>1, <1>7, <1>8, <1>9, <1>10 DEF TurnOK

(* All input is in; without calls the next round begins with what came after   *)
(* the response.                                                               *)
LEMMA IntakeRoundOK ==
  ASSUME NEW t, TurnOK(t, "intake"), t.calls = 0, NEW ids \in Seq(Nat)
  PROVE  TurnOK([NextRound(t, ids) EXCEPT !.polled = @ \o ids], "poll")
<1> DEFINE all == t.polled \o ids
           v == [t EXCEPT !.polled = all]
           w == [NextRound(t, ids) EXCEPT !.polled = @ \o ids]
<1>1. t \in Turn /\ TranscriptOK(t, "intake") /\ InputKept(t) /\ SessionSettles(t)
    BY DEF TurnOK, TranscriptOK
<1>2. t.added \in Seq(Message) /\ t.polled \in Seq(Nat) /\ t.input \in Nat
    BY <1>1 DEF Turn
<1>3. all \in Seq(Nat)
    BY <1>2
<1>4. v = [t EXCEPT !.polled = all]
    OBVIOUS
<1>5. UserIds(t.added) \o ids = <<t.input>> \o all
    BY <1>1, MoreInput DEF TranscriptOK
<1>6. w = NextRound(v, ids)
    BY <1>1 DEF NextRound, Turn
<1> HIDE DEF all, v, w
<1>7. v \in Turn
    BY <1>1, <1>3, <1>4 DEF Turn
<1>8. /\ v.base = t.base /\ v.added = t.added /\ v.cont = t.cont /\ v.input = t.input
      /\ v.polled = all /\ v.requests = t.requests /\ v.session = t.session
    BY <1>1, <1>4 DEF Turn
<1>9. /\ HistoryOK(v.base) /\ v.added # <<>> /\ v.added[1].role = "user"
      /\ CurrentCont(Working(v), v.cont)
    BY <1>1, <1>8 DEF TranscriptOK, Working
<1>10. Store!CallsAnswered(v.added)
  <2>1. Open(t.added, t.calls, 0)
      BY <1>1 DEF TranscriptOK
  <2> QED
      BY <1>2, <1>8, <2>1, OpenClosed
<1>11. SessionSettles(v)
    BY <1>1, <1>8 DEF SessionSettles
<1>12. TurnOK(NextRound(v, ids), "poll")
    BY <1>5, <1>7, <1>8, <1>9, <1>10, <1>11, NextRoundOK
<1> QED
    BY <1>6, <1>12 DEF w

(* A tool result answers the next call; the last one ends the round.           *)
LEMMA InvokeToolOK ==
  ASSUME NEW t, TurnOK(t, "tools")
  PROVE  LET u == [t EXCEPT !.added = Append(@, Tool(t.answered + 1)), !.answered = @ + 1]
         IN  IF u.answered = u.calls THEN TurnOK(NextRound(u, u.incoming), "poll")
             ELSE TurnOK(u, "tools")
<1> DEFINE next == t.answered + 1
           own == Append(t.added, Tool(next))
           u == [t EXCEPT !.added = own, !.answered = next]
<1>1. t \in Turn /\ TranscriptOK(t, "tools") /\ InputKept(t) /\ SessionSettles(t)
    BY DEF TurnOK, TranscriptOK
<1>2. /\ t.added \in Seq(Message) /\ t.calls \in Nat /\ t.answered \in Nat
      /\ next \in Nat /\ t.incoming \in Seq(Nat)
    BY <1>1 DEF Turn
<1>3. Tool(next) \in Message /\ Tool(next).role = "tool"
    BY <1>2, Messages DEF Tool
<1>4. own \in Seq(Message)
    BY <1>2, <1>3
<1>5. Open(own, t.calls, next) /\ next <= t.calls
  <2>1. Open(t.added, t.calls, t.answered) /\ t.answered < t.calls
      BY <1>1 DEF TranscriptOK
  <2> QED
      BY <1>2, <2>1, OpenAnswer
<1>6. u = [t EXCEPT !.added = own, !.answered = next]
    OBVIOUS
<1> HIDE DEF u
<1>7. u \in Turn
    BY <1>1, <1>2, <1>4, <1>6 DEF Turn
<1>8. /\ u.base = t.base /\ u.added = own /\ u.cont = t.cont /\ u.answered = next
      /\ u.incoming = t.incoming /\ u.input = t.input /\ u.polled = t.polled
      /\ u.requests = t.requests /\ u.session = t.session /\ u.calls = t.calls
    BY <1>1, <1>6 DEF Turn
<1>9. /\ u.added # <<>> /\ u.added[1].role = "user" /\ UserIds(u.added) = UserIds(t.added)
      /\ CurrentCont(Working(u), u.cont)
    BY <1>1, <1>3, <1>7, <1>8, OneMore DEF TranscriptOK
<1>10. HistoryOK(u.base) /\ SessionSettles(u) /\ InputKept(u)
    BY <1>1, <1>8, <1>9 DEF TranscriptOK, SessionSettles, InputKept
<1> HIDE DEF next, own
<1>11. ASSUME u.answered = u.calls
       PROVE  TurnOK(NextRound(u, u.incoming), "poll")
  <2>1. Store!CallsAnswered(u.added)
      BY <1>2, <1>4, <1>5, <1>8, <1>11, OpenClosed
  <2>2. UserIds(u.added) \o u.incoming = <<u.input>> \o u.polled
      BY <1>10 DEF InputKept
  <2> QED
      BY <1>2, <1>7, <1>8, <1>9, <1>10, <2>1, <2>2, NextRoundOK
<1>12. ASSUME u.answered # u.calls
       PROVE  TurnOK(u, "tools")
  <2>1. u.answered < u.calls
      BY <1>2, <1>5, <1>8, <1>12
  <2>2. TranscriptOK(u, "tools")
      BY <1>5, <1>7, <1>8, <1>9, <1>10, <2>1 DEF TranscriptOK
  <2> QED
      BY <1>10, <2>2 DEF TurnOK
<1> QED
    BY <1>11, <1>12 DEF u, own, next

(* What a turn commits: one complete turn more. *)
LEMMA CommitOK ==
  ASSUME NEW t, TurnOK(t, "intake"), t.calls = 0
  PROVE  LET h == [messages |-> Working(t), cont |-> t.cont,
                   bounds |-> Append(t.base.bounds, Len(Working(t)))]
         IN  HistoryOK(h) /\ Store!Extends(h, t.base)
<1> DEFINE work == Working(t)
           old == t.base.messages
           own == t.added
           size == Len(old)
           bounds == Append(t.base.bounds, Len(work))
           h == [messages |-> work, cont |-> t.cont, bounds |-> bounds]
<1>1. t \in Turn /\ TranscriptOK(t, "intake") /\ HistoryOK(t.base)
    BY DEF TurnOK, TranscriptOK
<1>2. /\ own \in Seq(Message) /\ old \in Seq(Message) /\ t.cont \in Nat
      /\ t.base.bounds \in Seq(Nat) /\ work = old \o own
    BY <1>1 DEF Turn, History, Working
<1>3. /\ work \in Seq(Message) /\ Len(work) = size + Len(own) /\ size \in Nat
      /\ \A i \in 1 .. size : work[i] = old[i]
      /\ \A i \in 1 .. Len(own) : work[size + i] = own[i]
  <2> DEFINE both == old \o own
  <2> HIDE DEF old, own
  <2>1. /\ both \in Seq(Message) /\ Len(both) = Len(old) + Len(own) /\ Len(old) \in Nat
        /\ \A i \in 1 .. Len(old) : both[i] = old[i]
        /\ \A i \in 1 .. Len(own) : both[Len(old) + i] = own[i]
      BY <1>2, ConcatSplit
  <2>2. both = work
      BY <1>2
  <2> HIDE DEF both
  <2> QED
      BY <2>1, <2>2
<1>4. own # <<>> /\ own[1].role = "user" /\ Open(own, 0, 0) /\ CurrentCont(work, t.cont)
    BY <1>1 DEF TranscriptOK
<1>5. Store!CallsAnswered(own) /\ Store!CallsAnswered(old)
    BY <1>1, <1>2, <1>4, OpenClosed DEF HistoryOK
<1>6. own[Len(own)] = Assistant(0) /\ Len(own) \in Nat /\ Len(own) >= 2
  <2>1. own[Len(own)] = Assistant(0) /\ Len(own) >= 1 /\ Len(own) \in Nat
      BY <1>2, <1>4 DEF Open
  <2>2. Len(own) # 1
      BY <2>1, <1>4 DEF Assistant
  <2>3. \A m \in Nat : m >= 1 /\ m # 1 => m >= 2
      OBVIOUS
  <2> HIDE DEF own
  <2> QED
      BY <2>1, <2>2, <2>3
<1>7. t.cont \in {0, Len(work)}
    BY <1>1 DEF TranscriptOK
<1>8. Store!CompleteTurn(own)
    BY <1>4, <1>5, <1>6 DEF Store!CompleteTurn, Assistant
<1> HIDE DEF work, old, own, size
<1>9. bounds \in Seq(Nat) /\ h \in History /\ Len(work) \in Nat
    BY <1>2, <1>3 DEF History
<1>10. h.messages = work /\ h.cont = t.cont /\ h.bounds = bounds
    OBVIOUS
<1> HIDE DEF h
<1>11. Store!CallsAnswered(work)
    BY <1>2, <1>5, AnsweredConcat
<1>12. \A cut \in 0 .. size : StartsTurn(old, cut) => StartsTurn(work, cut)
    BY <1>3, <1>4, <1>6 DEF StartsTurn, size
<1>13. StartsTurn(work, 0)
    BY <1>1, <1>3, <1>12 DEF HistoryOK, old
<1>14. ASSUME NEW i \in DOMAIN bounds
       PROVE  bounds[i] <= Len(work) /\ StartsTurn(work, bounds[i])
  <2> DEFINE n == Len(t.base.bounds)
  <2>1. CASE i = n + 1
    <3>1. bounds[i] = Len(work)
        BY <2>1, <1>2
    <3> QED
        BY <3>1, <1>9 DEF StartsTurn
  <2>2. CASE i \in 1 .. n
    <3>1. bounds[i] = t.base.bounds[i] /\ i \in DOMAIN t.base.bounds /\ bounds[i] \in Nat
        BY <2>2, <1>2
    <3>2. bounds[i] <= size /\ StartsTurn(old, bounds[i])
        BY <3>1, <1>1 DEF HistoryOK, old, size
    <3> QED
        BY <3>1, <3>2, <1>3, <1>6, <1>12
  <2>3. i = n + 1 \/ i \in 1 .. n
    <3>1. n \in Nat /\ DOMAIN bounds = 1 .. n + 1
        BY <1>2
    <3> HIDE DEF bounds, n
    <3> QED
        BY <3>1
  <2> QED
      BY <2>1, <2>2, <2>3
<1>15. HistoryOK(h)
    BY <1>4, <1>9, <1>10, <1>11, <1>13, <1>14 DEF HistoryOK
<1>16. SubSeq(work, 1, size) = old
  <2> DEFINE front == SubSeq(work, 1, size)
  <2>1. front \in Seq(Message) /\ Len(front) = size /\ \A i \in 1 .. size : front[i] = work[i]
      BY <1>3, <1>6, SubSeqProperties
  <2> HIDE DEF front
  <2>2. front = old
      BY <1>2, <1>3, <2>1, SeqEqual DEF size
  <2> QED
      BY <2>2 DEF front
<1>17. SubSeq(work, size + 1, Len(work)) = own
  <2> DEFINE tail == SubSeq(work, size + 1, Len(work))
  <2>1. /\ tail \in Seq(Message) /\ Len(tail) = Len(own)
        /\ \A i \in 1 .. Len(own) : tail[i] = work[size + i]
      BY <1>3, <1>6, SubSeqProperties
  <2> HIDE DEF tail
  <2>2. tail = own
      BY <1>2, <1>3, <2>1, SeqEqual
  <2> QED
      BY <2>2 DEF tail
<1>18. Store!Extends(h, t.base)
  <2>1. Len(work) > size
      BY <1>3, <1>6
  <2>2. h.bounds = Append(t.base.bounds, Len(h.messages))
      BY <1>10
  <2> QED
      BY <2>1, <2>2, <1>7, <1>8, <1>10, <1>16, <1>17 DEF Store!Extends, old, size
<1> QED
    BY <1>15, <1>18 DEF h, work

-----------------------------------------------------------------------------
(* The contents of the whole state. *)

(* Preloaded histories are well formed: a constructor takes them as they are.  *)
SeedsOK == \A seed \in Seeds : HistoryOK(seed)

Contents ==
    /\ \A c \in Facades : HistoryOK(history[c]) /\ reminders[c] \in Seq(Registrable)
    /\ kept \in [history : History, reminders : Seq(Registrable)] /\ HistoryOK(kept.history)
    /\ inbox \in Seq(Nat) /\ inputs \in Nat
    /\ \A f \in Flows : pc[f] = "asked" =>
          turn[f].input \in Nat /\ turn[f] = NewTurn(turn[f].input)
    /\ \A f \in Flows : pc[f] \in InTurn => TurnOK(turn[f], pc[f])

LEMMA EmptyHistoryOK == HistoryOK(EmptyHistory)
<1>1. EmptyHistory \in History
    BY EmptySeq DEF EmptyHistory, History
<1> QED
    BY <1>1 DEF HistoryOK, EmptyHistory, Store!CallsAnswered, StartsTurn, CurrentCont

LEMMA InitContents == SeedsOK /\ Init => Contents
<1> SUFFICES ASSUME SeedsOK, Init
             PROVE  Contents
    OBVIOUS
<1>1. \A c \in Facades : HistoryOK(history[c]) /\ reminders[c] \in Seq(Registrable)
    BY EmptyHistoryOK, EmptySeq DEF Init, SeedsOK
<1>2. /\ kept \in [history : History, reminders : Seq(Registrable)] /\ HistoryOK(kept.history)
      /\ inbox \in Seq(Nat) /\ inputs \in Nat
    BY EmptyHistoryOK, EmptySeq DEF Init, HistoryOK
<1>3. \A f \in Flows : pc[f] = "none"
    BY DEF Init
<1> QED
    BY <1>1, <1>2, <1>3 DEF Contents, InTurn

(* Flow f goes on in its turn, or starts it. *)
LEMMA MovesKeeps ==
  ASSUME IInv, Contents, NEW f \in Flows, NEW t, NEW where \in InTurn, TurnOK(t, where),
         turn' = [turn EXCEPT ![f] = t], pc' = [pc EXCEPT ![f] = where],
         UNCHANGED <<history, reminders, inputs, kept>>, inbox' \in Seq(Nat)
  PROVE  Contents'
<1> USE DEF IInv, Shape
<1>1. turn'[f] = t /\ pc'[f] = where /\ where # "asked"
    BY DEF InTurn
<1>2. \A g \in Flows \ {f} : turn'[g] = turn[g] /\ pc'[g] = pc[g]
    OBVIOUS
<1> QED
    BY <1>1, <1>2 DEF Contents

(* Flow f ends; what it installs is well formed. *)
LEMMA ForgetKeeps ==
  ASSUME IInv, Contents, NEW f \in Flows, Forget(f), inputs' = inputs, kept' = kept,
         inbox' \in Seq(Nat),
         \A c \in Facades : HistoryOK(history'[c]) /\ reminders'[c] \in Seq(Registrable)
  PROVE  Contents'
<1> USE DEF IInv, Shape
<1>1. pc'[f] = "none" /\ "none" \notin InTurn
    BY DEF Forget, InTurn
<1>2. \A g \in Flows \ {f} : turn'[g] = turn[g] /\ pc'[g] = pc[g]
    BY DEF Forget
<1> QED
    BY <1>1, <1>2 DEF Contents

LEMMA ReleaseKeeps ==
  ASSUME IInv, Contents, NEW f \in Flows, pc[f] \in InTurn, Release(f),
         inputs' = inputs, kept' = kept, inbox' \in Seq(Nat),
         \A c \in Facades : HistoryOK(history'[c])
  PROVE  Contents'
<1>1. turn[f] \in Turn
    BY DEF Contents, TurnOK, TranscriptOK
<1>2. turn[f].session.remaining \in Seq(Registrable)
    BY <1>1 DEF Turn, Session
<1>3. \A c \in Facades : reminders'[c] \in Seq(Registrable)
    BY <1>2 DEF Release, Contents, IInv, Shape
<1> QED
    BY <1>3, ForgetKeeps DEF Release

LEMMA BeginContents ==
  ASSUME IInv, Contents, NEW f \in Flows, Begin(f)
  PROVE  Contents'
<1> DEFINE c == owner[f]
           n == turn[f].input
           t == [NewTurn(n) EXCEPT !.base = history[c], !.added = <<User(n)>>,
                                   !.cont = history[c].cont,
                                   !.session = OpenSession(reminders[c])]
<1>1. c \in Facades /\ f \in DOMAIN turn
    BY DEF IInv, Shape
<1>2. /\ HistoryOK(history[c]) /\ reminders[c] \in Seq(Registrable) /\ n \in Nat
      /\ turn[f] = NewTurn(n)
    BY <1>1 DEF Contents, Begin
<1>3. TurnOK(t, "poll")
    BY <1>2, StartOK
<1>4. turn' = [turn EXCEPT ![f] = t]
    BY <1>1, <1>2 DEF Begin
<1>5. /\ pc' = [pc EXCEPT ![f] = "poll"] /\ "poll" \in InTurn
      /\ UNCHANGED <<history, reminders, inputs, kept>> /\ inbox' \in Seq(Nat)
    BY DEF Begin, appVars, InTurn, Contents
<1> HIDE DEF t
<1> QED
    BY <1>3, <1>4, <1>5, MovesKeeps

LEMMA PollContents ==
  ASSUME IInv, Contents, NEW f \in Flows, PollBefore(f)
  PROVE  Contents'
<1> DEFINE t == [turn[f] EXCEPT !.added = @ \o Users(inbox), !.polled = @ \o inbox]
<1>1. TurnOK(turn[f], "poll") /\ inbox \in Seq(Nat) /\ <<>> \in Seq(Nat)
    BY EmptySeq DEF Contents, PollBefore, InTurn
<1>2. TurnOK(t, "compile")
    BY <1>1, PollOK
<1>3. turn' = [turn EXCEPT ![f] = t]
  <2>1. DOMAIN turn = Flows
      BY DEF IInv, Shape
  <2> QED
      BY <2>1 DEF PollBefore
<1>4. /\ pc' = [pc EXCEPT ![f] = "compile"] /\ "compile" \in InTurn
      /\ UNCHANGED <<history, reminders, inputs, kept>> /\ inbox' \in Seq(Nat)
    BY <1>1 DEF PollBefore, facadeVars, InTurn
<1> HIDE DEF t
<1> QED
    BY <1>2, <1>3, <1>4, MovesKeeps

LEMMA RequestUpdate ==
  ASSUME NEW g, NEW f \in DOMAIN g, NEW request, NEW session
  PROVE  [g EXCEPT ![f].request = request, ![f].session = session, ![f].requests = @ + 1]
           = [g EXCEPT ![f] = [g[f] EXCEPT !.request = request, !.session = session,
                                           !.requests = @ + 1]]
    OBVIOUS

LEMMA CompileContents ==
  ASSUME IInv, Contents, NEW f \in Flows, Compile(f)
  PROVE  Contents'
<1> DEFINE t == turn[f]
           u(cut) == [t EXCEPT
              !.request = [messages  |-> SubSeq(Working(t), cut + 1, Len(Working(t))),
                           cont      |-> IF SendsContinuation THEN t.cont ELSE 0,
                           reminders |-> Active(t.session)],
              !.session = Accept(t.session),
              !.requests = @ + 1]
<1>1. TurnOK(t, "compile")
    BY DEF Contents, Compile, InTurn
<1>2. PICK cut \in Cuts(t) : turn' = [turn EXCEPT ![f] = u(cut)]
  <2>1. PICK cut \in Cuts(t) :
           turn' = [turn EXCEPT
              ![f].request = [messages  |-> SubSeq(Working(t), cut + 1, Len(Working(t))),
                              cont      |-> IF SendsContinuation THEN t.cont ELSE 0,
                              reminders |-> Active(t.session)],
              ![f].session = Accept(t.session),
              ![f].requests = @ + 1]
      BY DEF Compile
  <2>2. DOMAIN turn = Flows
      BY DEF IInv, Shape
  <2>3. turn' = [turn EXCEPT ![f] = u(cut)]
      BY <2>1, <2>2, RequestUpdate
  <2> HIDE DEF u
  <2> QED
      BY <2>3
<1>3. TurnOK(u(cut), "generate")
    BY <1>1, CompileOK
<1>4. /\ pc' = [pc EXCEPT ![f] = "generate"] /\ "generate" \in InTurn
      /\ UNCHANGED <<history, reminders, inputs, kept>> /\ inbox' \in Seq(Nat)
    BY DEF Compile, facadeVars, appVars, InTurn, Contents
<1> HIDE DEF u
<1> QED
    BY <1>2, <1>3, <1>4, MovesKeeps

LEMMA ResponseUpdate ==
  ASSUME NEW g, NEW f \in DOMAIN g, NEW message, NEW cont, NEW calls
  PROVE  [g EXCEPT ![f].added = Append(@, message), ![f].cont = cont, ![f].calls = calls]
           = [g EXCEPT ![f] = [g[f] EXCEPT !.added = Append(@, message), !.cont = cont,
                                           !.calls = calls]]
    OBVIOUS

LEMMA GenerateContents ==
  ASSUME IInv, Contents, NEW f \in Flows, Generate(f)
  PROVE  Contents'
<1> DEFINE t == turn[f]
           u(n, returned) == [t EXCEPT !.added = Append(@, Assistant(n)),
                                       !.cont = NextCont(t, returned), !.calls = n]
<1>1. TurnOK(t, "generate")
    BY DEF Contents, Generate, InTurn
<1>2. PICK n \in 0 .. MaxCalls, returned \in BOOLEAN : turn' = [turn EXCEPT ![f] = u(n, returned)]
  <2>1. PICK n \in 0 .. MaxCalls, returned \in BOOLEAN :
           turn' = [turn EXCEPT ![f].added = Append(@, Assistant(n)),
                                ![f].cont = NextCont(turn[f], returned),
                                ![f].calls = n]
      BY DEF Generate
  <2>2. DOMAIN turn = Flows
      BY DEF IInv, Shape
  <2>3. turn' = [turn EXCEPT ![f] = u(n, returned)]
      BY <2>1, <2>2, ResponseUpdate
  <2> HIDE DEF u
  <2> QED
      BY <2>3
<1>3. n \in Nat
    BY ConversationAssumption
<1>4. TurnOK(u(n, returned), "intake")
    BY <1>1, <1>3, GenerateOK
<1>5. /\ pc' = [pc EXCEPT ![f] = "intake"] /\ "intake" \in InTurn
      /\ UNCHANGED <<history, reminders, inputs, kept>> /\ inbox' \in Seq(Nat)
    BY DEF Generate, facadeVars, appVars, InTurn, Contents
<1> HIDE DEF u
<1> QED
    BY <1>2, <1>4, <1>5, MovesKeeps

LEMMA InvokeToolContents ==
  ASSUME IInv, Contents, NEW f \in Flows, InvokeTool(f)
  PROVE  Contents'
<1> DEFINE u == [turn[f] EXCEPT !.added = Append(@, Tool(turn[f].answered + 1)),
                                !.answered = @ + 1]
<1>1. TurnOK(turn[f], "tools")
    BY DEF Contents, InvokeTool, InTurn
<1>2. IF u.answered = u.calls THEN TurnOK(NextRound(u, u.incoming), "poll")
      ELSE TurnOK(u, "tools")
    BY <1>1, InvokeToolOK
<1>3. /\ turn' = [turn EXCEPT ![f] = IF u.answered = u.calls THEN NextRound(u, u.incoming) ELSE u]
      /\ pc' = [pc EXCEPT ![f] = IF u.answered = u.calls THEN "poll" ELSE "tools"]
      /\ UNCHANGED <<history, reminders, inputs, kept>> /\ inbox' \in Seq(Nat)
    BY DEF InvokeTool, facadeVars, appVars, Contents
<1>4. "poll" \in InTurn /\ "tools" \in InTurn
    BY DEF InTurn
<1> HIDE DEF u
<1>5. CASE u.answered = u.calls
    BY <1>2, <1>3, <1>4, <1>5, MovesKeeps
<1>6. CASE u.answered # u.calls
    BY <1>2, <1>3, <1>4, <1>6, MovesKeeps
<1> QED
    BY <1>5, <1>6

(* What a commit installs. *)
LEMMA CommitInstalls ==
  ASSUME IInv, Contents, NEW f \in Flows, pc[f] = "intake", turn[f].calls = 0, Commit(f)
  PROVE  /\ history' = [history EXCEPT ![owner[f]] = history'[owner[f]]]
         /\ history'[owner[f]] =
               [messages |-> Working(turn[f]), cont |-> turn[f].cont,
                bounds |-> Append(turn[f].base.bounds, Len(Working(turn[f])))]
         /\ HistoryOK(history'[owner[f]])
         /\ Store!Extends(history'[owner[f]], history[owner[f]])
<1> DEFINE h == [messages |-> Working(turn[f]), cont |-> turn[f].cont,
                 bounds |-> Append(turn[f].base.bounds, Len(Working(turn[f])))]
<1>1. TurnOK(turn[f], "intake")
    BY DEF Contents, InTurn
<1>2. HistoryOK(h) /\ Store!Extends(h, turn[f].base)
    BY <1>1, CommitOK
<1>3. turn[f].base = history[owner[f]]
    BY DEF IInv, TurnBasedOnCommitted, InTurn
<1>4. history' = [history EXCEPT ![owner[f]] = h] /\ owner[f] \in DOMAIN history
    BY DEF Commit, IInv, Shape
<1> HIDE DEF h
<1>5. history'[owner[f]] = h
    BY <1>4
<1> QED
    BY <1>2, <1>3, <1>4, <1>5 DEF h

LEMMA IntakeContents ==
  ASSUME IInv, Contents, NEW f \in Flows, Intake(f)
  PROVE  Contents'
<1> DEFINE t == turn[f]
           waiting == [t EXCEPT !.incoming = inbox, !.polled = @ \o inbox]
           next == [NextRound(t, inbox) EXCEPT !.polled = @ \o inbox]
<1>1. /\ pc[f] = "intake" /\ TurnOK(t, "intake") /\ inbox \in Seq(Nat) /\ t.calls \in Nat
      /\ inbox' = <<>> /\ <<>> \in Seq(Nat) /\ inputs' = inputs /\ kept' = kept
  <2>1. TurnOK(t, "intake") /\ inbox \in Seq(Nat)
      BY DEF Contents, Intake, InTurn
  <2>2. t.calls \in Nat
      BY <2>1 DEF TurnOK, TranscriptOK, Turn
  <2> QED
      BY <2>1, <2>2, EmptySeq DEF Intake
<1>2. "poll" \in InTurn /\ "tools" \in InTurn /\ "intake" \in InTurn
    BY DEF InTurn
<1>3. CASE t.calls = 0 /\ Commit(f)
  <2>1. HistoryOK(history'[owner[f]])
        /\ history' = [history EXCEPT ![owner[f]] = history'[owner[f]]]
      BY <1>1, <1>3, CommitInstalls
  <2>2. \A c \in Facades : HistoryOK(history'[c])
      BY <2>1 DEF Contents, IInv, Shape
  <2> QED
      BY <1>1, <1>2, <1>3, <2>2, ReleaseKeeps DEF Commit
<1>4. CASE Release(f) /\ UNCHANGED history
  <2>1. \A c \in Facades : HistoryOK(history'[c])
      BY <1>4 DEF Contents
  <2> QED
      BY <1>1, <1>2, <1>4, <2>1, ReleaseKeeps
<1>5. CASE /\ t.calls > 0
           /\ turn' = [turn EXCEPT ![f].incoming = inbox, ![f].polled = @ \o inbox]
           /\ pc' = [pc EXCEPT ![f] = "tools"]
           /\ UNCHANGED <<facadeVars, owner>>
  <2>1. turn' = [turn EXCEPT ![f] = waiting]
    <3>1. DOMAIN turn = Flows
        BY DEF IInv, Shape
    <3> QED
        BY <1>5, <3>1
  <2>2. TurnOK(waiting, "tools")
      BY <1>1, <1>5, IntakeToolsOK
  <2> HIDE DEF waiting
  <2> QED
      BY <1>1, <1>2, <1>5, <2>1, <2>2, MovesKeeps DEF facadeVars
<1>6. CASE /\ t.calls = 0
           /\ turn' = [turn EXCEPT ![f] = next]
           /\ pc' = [pc EXCEPT ![f] = "poll"]
           /\ UNCHANGED <<facadeVars, owner>>
  <2>1. TurnOK(next, "poll")
      BY <1>1, <1>6, IntakeRoundOK
  <2> HIDE DEF next
  <2> QED
      BY <1>1, <1>2, <1>6, <2>1, MovesKeeps DEF facadeVars
<1> QED
    BY <1>3, <1>4, <1>5, <1>6 DEF Intake

LEMMA UpsertTyped ==
  ASSUME NEW T, NEW state \in Seq(T), NEW r \in T
  PROVE  Upsert(state, r) \in Seq(T)
<1> DEFINE replaced == [i \in DOMAIN state |-> IF state[i].key = r.key THEN r ELSE state[i]]
<1>1. /\ DOMAIN state = 1 .. Len(state) /\ Len(state) \in Nat
      /\ \A i \in 1 .. Len(state) : state[i] \in T
    OBVIOUS
<1>2. replaced = [i \in 1 .. Len(state) |-> replaced[i]]
      /\ \A i \in 1 .. Len(state) : replaced[i] \in T
    BY <1>1
<1> HIDE DEF replaced
<1>3. replaced \in Seq(T)
    BY <1>1, <1>2
<1>4. Append(state, r) \in Seq(T)
    OBVIOUS
<1> QED
    BY <1>3, <1>4 DEF Upsert, replaced

(* A method of the facade installs a history it had, one the application kept, *)
(* or the empty one, and reminders of those or that the application registers. *)
Known == {history[d] : d \in Facades} \cup {kept.history, EmptyHistory}

LEMMA EditInstalls ==
  ASSUME IInv, Contents, NEW c \in Facades, Edit(c)
  PROVE  /\ \A d \in Facades : history'[d] \in Known /\ reminders'[d] \in Seq(Registrable)
         /\ kept' \in [history : Known, reminders : Seq(Registrable)]
         /\ UNCHANGED <<inbox, inputs>>
<1> USE DEF Contents
<1>1. DOMAIN history = Facades /\ DOMAIN reminders = Facades
    BY DEF IInv, Shape
<1>2. /\ \A d \in Facades : history[d] \in Known /\ reminders[d] \in Seq(Registrable)
      /\ kept \in [history : Known, reminders : Seq(Registrable)]
      /\ EmptyHistory \in Known
    BY DEF Known
<1> HIDE DEF Contents
<1>3. ASSUME NEW h \in Known, NEW r \in Seq(Registrable), Idle(c), Install(c, h, r)
      PROVE  /\ \A d \in Facades : history'[d] \in Known /\ reminders'[d] \in Seq(Registrable)
             /\ UNCHANGED <<kept, inbox, inputs>>
    BY <1>1, <1>2, <1>3 DEF Install, Idle
<1>4. CASE Snapshot(c)
    BY <1>2, <1>4 DEF Snapshot, Idle
<1>5. CASE HistorySnapshot(c)
  <2>1. /\ kept' = [kept EXCEPT !.history = history[c]]
        /\ UNCHANGED <<history, reminders, inbox, inputs>>
      BY <1>5 DEF HistorySnapshot, facadeVars
  <2> QED
      BY <1>2, <2>1
<1>6. CASE Restore(c) \/ RestoreHistory(c) \/ ClearHistory(c) \/ Reset(c)
  <2>1. \E h \in Known, r \in Seq(Registrable) : Idle(c) /\ Install(c, h, r)
      BY <1>2, <1>6, EmptySeq DEF Restore, RestoreHistory, ClearHistory, Reset
  <2> QED
      BY <1>2, <1>3, <2>1
<1>7. CASE ClearReminders(c)
  <2>1. \A scope : Without(reminders[c], scope) \in Seq(Registrable)
      BY <1>2, WithoutKeeps
  <2>2. \E r \in Seq(Registrable) : Idle(c) /\ Install(c, history[c], r)
      BY <1>7, <2>1, EmptySeq DEF ClearReminders
  <2> QED
      BY <1>2, <1>3, <2>2
<1>8. CASE Remind(c) \/ RemoveReminder(c)
  <2>1. \A r \in Registrable : Upsert(reminders[c], r) \in Seq(Registrable)
      BY <1>2, UpsertTyped
  <2>2. \A key : Remove(reminders[c], key) \in Seq(Registrable)
      BY <1>2, SelectedMembers DEF Remove
  <2>3. \E r \in Seq(Registrable) : Idle(c) /\ Install(c, history[c], r)
      BY <1>8, <2>1, <2>2 DEF Remind, RemoveReminder
  <2> QED
      BY <1>2, <1>3, <2>3
<1>9. ASSUME NEW d \in Facades, Fork(c, d)
      PROVE  /\ \A e \in Facades : history'[e] \in Known /\ reminders'[e] \in Seq(Registrable)
             /\ UNCHANGED <<kept, inbox, inputs>>
  <2>1. PICK from \in {[history |-> history[c], reminders |-> reminders[c]], kept} :
           /\ history' = [history EXCEPT ![d] = from.history]
           /\ reminders' = [reminders EXCEPT ![d] = from.reminders]
      BY <1>9 DEF Fork
  <2>2. from.history \in Known /\ from.reminders \in Seq(Registrable)
      BY <1>2
  <2> QED
      BY <1>1, <1>2, <1>9, <2>1, <2>2 DEF Fork, Idle
<1> QED
    BY <1>2, <1>4, <1>5, <1>6, <1>7, <1>8, <1>9 DEF Edit

LEMMA EditContents ==
  ASSUME IInv, Contents, NEW c \in Facades, Edit(c)
  PROVE  Contents'
<1>1. /\ \A d \in Facades : history'[d] \in Known /\ reminders'[d] \in Seq(Registrable)
      /\ kept' \in [history : Known, reminders : Seq(Registrable)]
      /\ UNCHANGED <<inbox, inputs>>
    BY EditInstalls
<1>2. \A h \in Known : HistoryOK(h) /\ h \in History
    BY EmptyHistoryOK DEF Known, Contents, HistoryOK
<1>3. UNCHANGED <<pc, turn>>
    BY EditSparesTurns
<1> QED
    BY <1>1, <1>2, <1>3 DEF Contents

LEMMA StepKeepsContents == IInv /\ Contents /\ [Next]_vars => Contents'
<1> SUFFICES ASSUME IInv, Contents, [Next]_vars
             PROVE  Contents'
    OBVIOUS
<1>1. ASSUME NEW f \in Flows, Abort(f)
      PROVE  Contents'
  <2>1. \A c \in Facades : HistoryOK(history'[c])
      BY <1>1 DEF Abort, Contents
  <2> QED
      BY <1>1, <2>1, ReleaseKeeps DEF Abort, appVars, Contents
<1>2. ASSUME NEW f \in Flows, Refuse(f) \/ BeginRaises(f)
      PROVE  Contents'
  <2>1. /\ Forget(f) /\ UNCHANGED <<history, reminders, inputs, kept>> /\ inbox' \in Seq(Nat)
      BY <1>2 DEF Refuse, BeginRaises, facadeVars, appVars, Contents
  <2> QED
      BY <2>1, ForgetKeeps DEF Contents
<1>3. ASSUME NEW f \in Flows, NEW c \in Facades, Ask(f, c)
      PROVE  Contents'
  <2>1. /\ inputs' \in Nat /\ turn' = [turn EXCEPT ![f] = NewTurn(inputs')]
        /\ pc' = [pc EXCEPT ![f] = "asked"] /\ "asked" \notin InTurn
        /\ UNCHANGED <<history, reminders, inbox, kept>>
      BY <1>3 DEF Ask, facadeVars, Contents, InTurn
  <2>2. turn'[f] = NewTurn(inputs') /\ pc'[f] = "asked"
      BY <2>1 DEF IInv, Shape
  <2>3. turn'[f].input = inputs'
      BY <2>1, <2>2, NewTurnTyped
  <2>4. \A g \in Flows \ {f} : turn'[g] = turn[g] /\ pc'[g] = pc[g]
      BY <2>1 DEF IInv, Shape
  <2> QED
      BY <2>1, <2>2, <2>3, <2>4 DEF Contents
<1>4. ASSUME NEW c \in Facades, Edit(c)
      PROVE  Contents'
    BY <1>4, EditContents
<1>5. CASE Arrive
  <2>1. /\ inputs' \in Nat /\ inbox' \in Seq(Nat)
        /\ UNCHANGED <<history, reminders, kept, turn, pc>>
      BY <1>5 DEF Arrive, facadeVars, flowVars, Contents
  <2> QED
      BY <2>1 DEF Contents
<1>6. CASE UNCHANGED vars
    BY <1>6 DEF vars, facadeVars, flowVars, appVars, Contents
<1> QED
    BY <1>1, <1>2, <1>3, <1>4, <1>5, <1>6, BeginContents, PollContents, CompileContents,
       GenerateContents, IntakeContents, InvokeToolContents DEF Next, TurnStep

-----------------------------------------------------------------------------
(* The steps, as seen from the state of the facades. *)

TurnsGoOn == \A f \in Flows : pc[f] \in InTurn => pc'[f] \in InTurn

Stays == UNCHANGED <<history, reminders, busy, live, kept>> /\ TurnsGoOn

Acquires(f) ==
    /\ pc[f] = "asked" /\ ~ busy[owner[f]]
    /\ busy' = [busy EXCEPT ![owner[f]] = TRUE]
    /\ UNCHANGED <<history, reminders, live, kept>>
    /\ TurnsGoOn

Commits(f) == pc[f] = "intake" /\ turn[f].calls = 0 /\ Commit(f)

Ends(f) ==
    /\ pc[f] \in InTurn
    /\ Release(f)
    /\ UNCHANGED kept
    /\ UNCHANGED history \/ Commits(f)

LEMMA EndsTypes ==
  ASSUME IInv, NEW f \in Flows, Ends(f)
  PROVE  /\ owner[f] \in live /\ owner[f] \in Facades /\ busy[owner[f]]
         /\ live' = live /\ kept' = kept
         /\ busy' = [busy EXCEPT ![owner[f]] = FALSE]
         /\ reminders' = [reminders EXCEPT ![owner[f]] = turn[f].session.remaining]
         /\ \A g \in Flows \ {f} : pc'[g] = pc[g]
         /\ \A c \in Facades \ {owner[f]} : history'[c] = history[c]
         /\ DOMAIN history = Facades /\ DOMAIN reminders = Facades /\ DOMAIN busy = Facades
  BY DEF Ends, Commits, Commit, Release, Forget, InTurn, IInv, Shape, Exclusive

LEMMA StepKinds ==
  ASSUME IInv, [Next]_vars
  PROVE  \/ Stays
         \/ \E f \in Flows : Acquires(f) \/ Ends(f)
         \/ \E c \in Facades : Edit(c)
<1> USE DEF IInv, Shape
<1>1. ASSUME NEW f \in Flows, NEW where \in InTurn, pc' = [pc EXCEPT ![f] = where]
      PROVE  TurnsGoOn
    BY <1>1 DEF TurnsGoOn
<1>2. ASSUME NEW f \in Flows, NEW where, pc' = [pc EXCEPT ![f] = where], pc[f] \notin InTurn
      PROVE  TurnsGoOn
    BY <1>2 DEF TurnsGoOn
<1>3. /\ {"poll", "compile", "generate", "intake", "tools"} = InTurn
      /\ "asked" \notin InTurn /\ "none" \notin InTurn
    BY DEF InTurn
<1>4. ASSUME NEW f \in Flows, Begin(f)
      PROVE  Acquires(f)
    BY <1>1, <1>3, <1>4 DEF Begin, Acquires, appVars
<1>5. ASSUME NEW f \in Flows, BeginRaises(f)
      PROVE  Acquires(f)
    BY <1>2, <1>3, <1>5 DEF BeginRaises, Forget, Acquires, appVars
<1>6. ASSUME NEW f \in Flows, Refuse(f) \/ \E c \in Facades : Ask(f, c)
      PROVE  Stays
    BY <1>2, <1>3, <1>6 DEF Refuse, Ask, Forget, Stays, appVars, facadeVars
<1>7. ASSUME NEW f \in Flows, Abort(f)
      PROVE  Ends(f)
    BY <1>7 DEF Abort, Ends, appVars
<1>8. ASSUME NEW f \in Flows, PollBefore(f) \/ Compile(f) \/ Generate(f) \/ InvokeTool(f)
      PROVE  Stays
  <2>1. /\ \E where \in InTurn : pc' = [pc EXCEPT ![f] = where]
        /\ UNCHANGED <<history, reminders, busy, live, kept>>
      BY <1>3, <1>8 DEF PollBefore, Compile, Generate, InvokeTool, facadeVars, appVars
  <2> QED
      BY <1>1, <2>1 DEF Stays
<1>9. ASSUME NEW f \in Flows, Intake(f)
      PROVE  Stays \/ Ends(f)
  <2>1. pc[f] = "intake" /\ kept' = kept
      BY <1>9 DEF Intake
  <2>2. CASE turn[f].calls = 0 /\ Commit(f)
      BY <1>3, <2>1, <2>2 DEF Ends, Commits, Commit
  <2>3. CASE Release(f) /\ UNCHANGED history
      BY <1>3, <2>1, <2>3 DEF Ends
  <2>4. CASE pc' = [pc EXCEPT ![f] = "tools"] /\ UNCHANGED facadeVars
      BY <1>1, <1>3, <2>1, <2>4 DEF Stays, facadeVars
  <2>5. CASE pc' = [pc EXCEPT ![f] = "poll"] /\ UNCHANGED facadeVars
      BY <1>1, <1>3, <2>1, <2>5 DEF Stays, facadeVars
  <2> QED
      BY <1>9, <2>2, <2>3, <2>4, <2>5 DEF Intake
<1>10. CASE Arrive \/ UNCHANGED vars
    BY <1>10 DEF Arrive, vars, facadeVars, flowVars, appVars, Stays, TurnsGoOn
<1> QED
    BY <1>4, <1>5, <1>6, <1>7, <1>8, <1>9, <1>10 DEF Next, TurnStep

(* Only what is live is busy. *)
BusyLive == \A c \in Facades : busy[c] => c \in live

LEMMA StepKeepsBusyLive == IInv /\ BusyLive /\ [Next]_vars => BusyLive'
<1> SUFFICES ASSUME IInv, BusyLive, [Next]_vars
             PROVE  BusyLive'
    OBVIOUS
<1>1. CASE Stays
    BY <1>1 DEF Stays, BusyLive
<1>2. ASSUME NEW f \in Flows, Acquires(f)
      PROVE  BusyLive'
    BY <1>2 DEF Acquires, BusyLive, IInv, Shape, Exclusive
<1>3. ASSUME NEW f \in Flows, Ends(f)
      PROVE  BusyLive'
    BY <1>3, EndsTypes DEF BusyLive
<1>4. ASSUME NEW c \in Facades, Edit(c)
      PROVE  BusyLive'
    BY <1>4, EditSparesTurns DEF BusyLive
<1> QED
    BY <1>1, <1>2, <1>3, <1>4, StepKinds

(* Every message of a history belongs to a turn it has the boundary of. *)
Closed(h) == IF h.bounds = <<>> THEN h.messages = <<>>
             ELSE h.bounds[Len(h.bounds)] = Len(h.messages)

AllClosed == Closed(kept.history) /\ \A c \in Facades : Closed(history[c])

LEMMA CommitsCloses ==
  ASSUME IInv, Contents, NEW f \in Flows, Commits(f)
  PROVE  Closed(history'[owner[f]])
<1> DEFINE bounds == turn[f].base.bounds
           size == Len(Working(turn[f]))
<1>1. bounds \in Seq(Nat) /\ size \in Nat
  <2>1. turn[f] \in Turn
      BY DEF Commits, Contents, TurnOK, TranscriptOK, InTurn
  <2>2. Working(turn[f]) \in Seq(Message)
      BY <2>1, WorkingTyped
  <2>3. turn[f].base \in History
      BY <2>1 DEF Turn
  <2> QED
      BY <2>2, <2>3, LenProperties DEF History
<1>2. /\ history'[owner[f]].bounds = Append(bounds, size)
      /\ Len(history'[owner[f]].messages) = size
  <2>1. history'[owner[f]] = [messages |-> Working(turn[f]), cont |-> turn[f].cont,
                             bounds |-> Append(bounds, size)]
      BY CommitInstalls DEF Commits
  <2> QED
      BY <2>1
<1> HIDE DEF bounds, size
<1>3. /\ Append(bounds, size) # <<>>
      /\ Append(bounds, size)[Len(Append(bounds, size))] = size
    BY <1>1
<1> QED
    BY <1>2, <1>3 DEF Closed

LEMMA StepKeepsClosed == IInv /\ Contents /\ AllClosed /\ [Next]_vars => AllClosed'
<1> SUFFICES ASSUME IInv, Contents, AllClosed, [Next]_vars
             PROVE  AllClosed'
    OBVIOUS
<1>1. CASE Stays \/ \E f \in Flows : Acquires(f)
    BY <1>1 DEF Stays, Acquires, AllClosed
<1>2. ASSUME NEW f \in Flows, Ends(f)
      PROVE  AllClosed'
    BY <1>2, EndsTypes, CommitsCloses DEF Ends, AllClosed
<1>3. ASSUME NEW c \in Facades, Edit(c)
      PROVE  AllClosed'
  <2>1. Closed(EmptyHistory)
      BY DEF Closed, EmptyHistory
  <2>2. \A h \in Known : Closed(h)
      BY <2>1 DEF Known, AllClosed
  <2>3. (\A d \in Facades : history'[d] \in Known) /\ kept'.history \in Known
      BY <1>3, EditInstalls
  <2> QED
      BY <2>2, <2>3 DEF AllClosed
<1> QED
    BY <1>1, <1>2, <1>3, StepKinds

-----------------------------------------------------------------------------
(* The theorems about what a turn contains and leaves.  They assume that a      *)
(* preloaded history is well formed: the constructor takes it as it is.         *)

(* Both layers of the invariant hold in every state of a conversation.          *)
THEOREM ContentsInvariance == ASSUME SeedsOK PROVE Spec => [](IInv /\ Contents)
<1>1. Init => IInv /\ Contents
    BY InitInv, InitContents
<1>2. IInv /\ Contents /\ [Next]_vars => (IInv /\ Contents)'
    BY StepKeeps, StepKeepsContents
<1> QED
    BY <1>1, <1>2, PTL DEF Spec

(* Every request a model is given starts at a user message, holds the turn in   *)
(* progress as a whole and answers every tool call, whatever was cut before it. *)
THEOREM RequestsAreWellFormed == ASSUME SeedsOK PROVE Spec => []RequestsWellFormed
<1>1. IInv /\ Contents => RequestsWellFormed
    BY DEF Contents, TurnOK, TranscriptOK, Requested, RequestsWellFormed, InTurn
<1> QED
    BY <1>1, ContentsInvariance, PTL

(* No continuation is sent, and none stored, but that of the last response.     *)
THEOREM NoStaleContinuation == ASSUME SeedsOK PROVE Spec => []ContinuationIsCurrent
<1>1. IInv /\ Contents => ContinuationIsCurrent
  <2> SUFFICES ASSUME Contents
               PROVE  ContinuationIsCurrent
      OBVIOUS
  <2>1. \A c \in Facades : CurrentCont(history[c].messages, history[c].cont)
      BY DEF Contents, HistoryOK
  <2>2. \A f \in Flows : pc[f] = "generate" =>
            CurrentCont(Working(turn[f]), turn[f].request.cont)
      BY DEF Contents, TurnOK, TranscriptOK, Requested, InTurn
  <2> QED
      BY <2>1, <2>2 DEF CurrentCont, ContinuationIsCurrent
<1> QED
    BY <1>1, ContentsInvariance, PTL

(* All input a turn took is in it once, in the order it arrived.                *)
THEOREM InputIsKept == ASSUME SeedsOK PROVE Spec => []InputKeptInOrder
<1>1. IInv /\ Contents => InputKeptInOrder
    BY DEF Contents, TurnOK, InputKept, InputKeptInOrder
<1> QED
    BY <1>1, ContentsInvariance, PTL

LEMMA LeavingEnds ==
  ASSUME IInv, [Next]_vars, NEW f \in Flows, pc[f] \in InTurn, pc'[f] \notin InTurn
  PROVE  Ends(f)
<1>1. ~ Stays /\ \A g \in Flows : ~ Acquires(g)
    BY DEF Stays, Acquires, TurnsGoOn
<1>2. \A c \in Facades : ~ Edit(c)
    BY EditSparesTurns
<1>3. \A g \in Flows : Ends(g) => g = f
    BY EndsTypes
<1> QED
    BY <1>1, <1>2, <1>3, StepKinds

(* What the prompt session leaves is the conversation's reminders without the   *)
(* TURN ones, and without the NEXT_REQUEST ones if a request was accepted.      *)
LEMMA EndsSettles ==
  ASSUME IInv, Contents, NEW f \in Flows, Ends(f)
  PROVE  LET left == Without(reminders[owner[f]], "turn")
         IN  reminders'[owner[f]] = IF turn[f].requests = 0 THEN left
                                    ELSE Without(left, "next_request")
<1>1. turn[f].session.base = reminders[owner[f]] /\ SessionSettles(turn[f])
    BY DEF Ends, IInv, TurnBasedOnCommitted, Contents, TurnOK
<1>2. reminders'[owner[f]] = turn[f].session.remaining
    BY EndsTypes
<1> QED
    BY <1>1, <1>2 DEF SessionSettles

(* A turn that ends, however it ends, settles the reminders.                    *)
THEOREM RemindersAreSettled == ASSUME SeedsOK PROVE Spec => RemindersSettle
<1> DEFINE Settled(f) ==
       LET kept1 == Without(reminders[owner[f]], "turn")
       IN  reminders'[owner[f]] = IF turn[f].requests = 0 THEN kept1
                                  ELSE Without(kept1, "next_request")
<1>1. IInv /\ Contents /\ [Next]_vars =>
        [\A f \in Flows : pc[f] \in InTurn /\ pc'[f] \notin InTurn => Settled(f)]_vars
    BY LeavingEnds, EndsSettles
<1> QED
    BY <1>1, ContentsInvariance, PTL DEF Spec, RemindersSettle

(* The store speaks of reminders as the conversation does. *)
LEMMA StoreWithout ==
  ASSUME NEW state, NEW scope
  PROVE  Store!Without(state, scope) = Without(state, scope)
  BY DEF Store!Without, Without, Store!Selected, Selected, Store!Members, Members

LEMMA EndsStoreSettle ==
  ASSUME IInv, Contents, NEW f \in Flows, Ends(f)
  PROVE  Store!Settle(owner[f])
<1>1. history'[owner[f]] = history[owner[f]]
      \/ Store!Extends(history'[owner[f]], history[owner[f]])
    BY CommitInstalls DEF Ends, Commits
<1>2. reminders'[owner[f]] \in Store!Settlements(reminders[owner[f]])
    BY EndsSettles, StoreWithout DEF Store!Settlements
<1>3. \A d \in Facades \ {owner[f]} : history'[d] = history[d] /\ reminders'[d] = reminders[d]
    BY EndsTypes
<1> QED
    BY <1>1, <1>2, <1>3, EndsTypes DEF Store!Settle

LEMMA EditStoreEdit ==
  ASSUME IInv, BusyLive, NEW c \in Facades, Edit(c)
  PROVE  (\E d \in Facades : Store!Edit(d)) \/ UNCHANGED <<history, reminders, busy>>
<1> USE DEF IInv, Shape
<1>1. ASSUME NEW h, NEW r, Idle(c), Install(c, h, r)
      PROVE  Store!Edit(c)
    BY <1>1 DEF Idle, Install, Store!Edit
<1>2. CASE Snapshot(c) \/ HistorySnapshot(c)
    BY <1>2 DEF Snapshot, HistorySnapshot, Idle, facadeVars
<1>3. ASSUME NEW d \in Facades, Fork(c, d)
      PROVE  Store!Edit(d)
    BY <1>3 DEF Fork, Idle, BusyLive, Store!Edit
<1>4. Edit(c) => \/ Snapshot(c) \/ HistorySnapshot(c)
                 \/ \E h, r : Idle(c) /\ Install(c, h, r)
                 \/ \E d \in Facades : Fork(c, d)
    BY DEF Edit, Restore, RestoreHistory, ClearHistory, ClearReminders, Reset, Remind,
           RemoveReminder
<1> QED
    BY <1>1, <1>2, <1>3, <1>4

(* Turns are transactions: the conversation implements ConversationStore.       *)
THEOREM TurnsAreTransactions == ASSUME SeedsOK PROVE Spec => Transactional
<1>1. Init => Store!Init /\ BusyLive
    BY DEF Init, Store!Init, BusyLive
<1>2. IInv /\ BusyLive /\ [Next]_vars => BusyLive'
    BY StepKeepsBusyLive
<1>3. IInv /\ Contents /\ BusyLive /\ [Next]_vars =>
        [Store!Next]_<<history, reminders, busy>>
  <2> SUFFICES ASSUME IInv, Contents, BusyLive, [Next]_vars
               PROVE  [Store!Next]_<<history, reminders, busy>>
      OBVIOUS
  <2>1. CASE Stays
      BY <2>1 DEF Stays
  <2>2. ASSUME NEW f \in Flows, Acquires(f)
        PROVE  Store!Next
    <3>1. Store!Acquire(owner[f]) /\ owner[f] \in Facades
        BY <2>2 DEF Acquires, Store!Acquire, IInv, Shape
    <3> QED
        BY <3>1 DEF Store!Next
  <2>3. ASSUME NEW f \in Flows, Ends(f)
        PROVE  Store!Next
      BY <2>3, EndsStoreSettle, EndsTypes DEF Store!Next
  <2>4. ASSUME NEW c \in Facades, Edit(c)
        PROVE  [Store!Next]_<<history, reminders, busy>>
      BY <2>4, EditStoreEdit DEF Store!Next
  <2> QED
      BY <2>1, <2>2, <2>3, <2>4, StepKinds
<1> QED
    BY <1>1, <1>2, <1>3, ContentsInvariance, PTL DEF Spec, Transactional, Store!Spec

(* The messages of a committed turn are those between its boundary and the one  *)
(* before it; a history preloaded without boundaries would join its first turn. *)
LEMMA LastSlice ==
  ASSUME NEW old \in History, Closed(old), NEW own \in Seq(Message), NEW h,
         h.messages = old.messages \o own, h.bounds = Append(old.bounds, Len(h.messages))
  PROVE  ResultMessages(h) = own
<1> DEFINE before == old.messages
           work == before \o own
           size == Len(before)
           upto == old.bounds
           bounds == Append(upto, size + Len(own))
           count == Len(upto)
           start == IF count + 1 > 1 THEN bounds[count] + 1 ELSE 1
<1>1. before \in Seq(Message) /\ upto \in Seq(Nat)
    BY DEF History
<1> HIDE DEF before, upto
<1>2. /\ work \in Seq(Message) /\ Len(work) = size + Len(own)
      /\ \A i \in 1 .. Len(own) : work[size + i] = own[i]
      /\ size \in Nat /\ Len(own) \in Nat
    BY <1>1, ConcatSplit, LenProperties
<1> HIDE DEF work
<1>3. h.messages = work /\ h.bounds = bounds
    BY <1>2 DEF before, upto, work
<1> HIDE DEF size
<1>4. /\ Len(bounds) = count + 1 /\ count \in Nat
      /\ bounds[count + 1] = size + Len(own)
      /\ \A i \in 1 .. count : bounds[i] = upto[i]
    BY <1>1, <1>2
<1> HIDE DEF bounds
<1>5. start = size + 1
  <2>1. CASE count = 0
    <3>1. upto = <<>>
        BY <1>1, <2>1, EmptySeq
    <3>2. before = <<>>
        BY <3>1 DEF Closed, upto, before
    <3>3. size = 0
        BY <3>2 DEF size
    <3> QED
        BY <2>1, <3>3
  <2>2. CASE count # 0
    <3>1. upto # <<>>
        BY <2>2
    <3>2. upto[count] = size
        BY <3>1 DEF Closed, upto, before, size
    <3> HIDE DEF count
    <3> QED
        BY <1>4, <2>2, <3>2
  <2> QED
      BY <2>1, <2>2
<1>6. ResultMessages(h) = SubSeq(work, start, size + Len(own))
  <2>1. Len(bounds) > 1 <=> count + 1 > 1
      BY <1>4
  <2>2. Len(bounds) - 1 = count
      BY <1>4
  <2> HIDE DEF count
  <2> QED
      BY <1>3, <1>4, <2>1, <2>2 DEF ResultMessages, start
<1> HIDE DEF start
<1> DEFINE tail == SubSeq(work, size + 1, size + Len(own))
<1>7. /\ tail \in Seq(Message) /\ Len(tail) = Len(own)
      /\ \A i \in 1 .. Len(own) : tail[i] = work[size + i]
    BY <1>2, SubSeqProperties
<1> HIDE DEF tail
<1>8. tail = own
    BY <1>2, <1>7, SeqEqual
<1> QED
    BY <1>5, <1>6, <1>8 DEF tail

LEMMA CommitResult ==
  ASSUME IInv, Contents, AllClosed, NEW f \in Flows, Commits(f)
  PROVE  ResultMessages(history'[owner[f]]) = turn[f].added
<1>1. TurnOK(turn[f], "intake") /\ turn[f].base = history[owner[f]] /\ owner[f] \in Facades
    BY DEF Commits, Contents, InTurn, IInv, TurnBasedOnCommitted, Shape
<1>2. turn[f] \in Turn /\ history[owner[f]] \in History /\ Closed(history[owner[f]])
    BY <1>1 DEF AllClosed, TurnOK, TranscriptOK, HistoryOK
<1>3. history'[owner[f]] = [messages |-> Working(turn[f]), cont |-> turn[f].cont,
          bounds |-> Append(turn[f].base.bounds, Len(Working(turn[f])))]
    BY CommitInstalls DEF Commits
<1>4. /\ history'[owner[f]].messages = history[owner[f]].messages \o turn[f].added
      /\ history'[owner[f]].bounds =
            Append(history[owner[f]].bounds, Len(history'[owner[f]].messages))
  <2> DEFINE h == history'[owner[f]]
             work == Working(turn[f])
             bounds == turn[f].base.bounds
  <2>1. h = [messages |-> work, cont |-> turn[f].cont, bounds |-> Append(bounds, Len(work))]
      BY <1>3
  <2> HIDE DEF h, work, bounds
  <2>2. h.messages = work /\ h.bounds = Append(bounds, Len(h.messages))
      BY <2>1
  <2> QED
      BY <2>2, <1>1 DEF h, work, bounds, Working
<1>5. turn[f].added \in Seq(Message)
    BY <1>2, WorkingTyped
<1> QED
    BY <1>2, <1>4, <1>5, LastSlice

(* The messages of a turn's result are those the turn committed.                *)
THEOREM ResultHoldsThisTurn ==
  ASSUME SeedsOK, \A seed \in Seeds : Closed(seed)
  PROVE  Spec => ResultIsThisTurn
<1>1. Init => AllClosed
    BY DEF Init, AllClosed, Closed, EmptyHistory
<1>2. IInv /\ Contents /\ AllClosed /\ [Next]_vars => AllClosed'
    BY StepKeepsClosed
<1>3. IInv /\ Contents /\ AllClosed /\ [Next]_vars =>
        [\A f \in Flows : pc[f] \in InTurn /\ history'[owner[f]] # history[owner[f]] =>
            ResultMessages(history'[owner[f]]) = turn[f].added]_vars
  <2> SUFFICES ASSUME IInv, Contents, AllClosed, [Next]_vars, NEW f \in Flows,
                      pc[f] \in InTurn, history'[owner[f]] # history[owner[f]]
               PROVE  ResultMessages(history'[owner[f]]) = turn[f].added
      OBVIOUS
  <2>1. ~ Stays /\ \A g \in Flows : ~ Acquires(g)
      BY DEF Stays, Acquires
  <2>2. \A c \in Facades : ~ Edit(c)
    <3>1. owner[f] \in live /\ busy[owner[f]]
        BY DEF InTurn, IInv, Exclusive
    <3> QED
        BY <3>1, EditSparesTurns
  <2>3. \A g \in Flows : Ends(g) => g = f
    <3> SUFFICES ASSUME NEW g \in Flows, Ends(g)
                 PROVE  g = f
        OBVIOUS
    <3>1. owner[f] \in Facades /\ owner[g] = owner[f]
        BY EndsTypes DEF IInv, Shape
    <3> QED
        BY <3>1 DEF Ends, IInv, Exclusive
  <2>4. Commits(f)
      BY <2>1, <2>2, <2>3, StepKinds DEF Ends
  <2> QED
      BY <2>4, CommitResult
<1> QED
    BY <1>1, <1>2, <1>3, ContentsInvariance, PTL DEF Spec, ResultIsThisTurn
=============================================================================
