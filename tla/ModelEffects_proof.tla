------------------------- MODULE ModelEffects_proof -------------------------
(***************************************************************************)
(* Proofs about the effects that call a model backend: GenerateStream, for *)
(* any number of emissions, any set of responses and whatever the backend  *)
(* does with its callback; DecisionExchange, for any questions and any     *)
(* answers the value types can hold; and Conformance, the suite that tests *)
(* a backend from outside, for any adapters.                               *)
(*                                                                         *)
(* The forwarder does not keep the events it saw.  EmissionInv says what   *)
(* its three fields remember of them, PrefixInv what observers were shown. *)
(* Of a decision, DecisionInv says what the constructors have let through  *)
(* by the time the response is validated, and ValidAnswers why comparing   *)
(* the set of options an answer names with the set a question declares is  *)
(* enough: distinct on both sides, they are equally many.  Of a suite,     *)
(* RemovalInv says what an adapter must have kept when it is found out.    *)
(***************************************************************************)
EXTENDS ModelEffects, FiniteSetTheorems, TLAPS

(* Until a violation, the fields summarise everything the backend emitted. *)
EmissionInv ==
    ~ violation =>
        /\ WellFormed(emitted)
        /\ seen <=> emitted # <<>>
        /\ completed = NoEvent =>
              \A i \in DOMAIN emitted : emitted[i].type # "completed"
        /\ completed # NoEvent => emitted # <<>> /\ emitted[Len(emitted)] = completed

(* Observers lag behind the backend by the completion held back, if any.    *)
PrefixInv ==
    /\ WellFormed(forwarded)
    /\ Len(forwarded) <= Len(emitted)
    /\ \A i \in 1 .. Len(forwarded) : forwarded[i] = emitted[i]
    /\ ~ violation /\ channel = "open" =>
          /\ completed = NoEvent => Len(forwarded) = Len(emitted)
          /\ completed # NoEvent /\ pc # "done" => Len(forwarded) + 1 = Len(emitted)

IInv == TypeOK /\ EmissionInv /\ PrefixInv /\ CompletionIsTrue

-----------------------------------------------------------------------------
(* An event type tells the events apart.                                       *)
LEMMA EventTypes ==
  /\ \A r \in Responses : Completed(r).type = "completed" /\ Completed(r) \in Events
  /\ \A e \in Events : e.type = "completed" => \E r \in Responses : e = Completed(r)
  /\ \A e \in Events : e.type # "none"
  /\ NoEvent.type = "none"
<1>1. \A r \in Responses : Completed(r).type = "completed" /\ Completed(r) \in Events
    BY DEF Events, Completed
<1>2. ASSUME NEW e \in Events
      PROVE  /\ e.type = "completed" => \E r \in Responses : e = Completed(r)
             /\ e.type # "none"
    BY DEF Events, Started, Delta, Garbage, Completed
<1> QED
    BY <1>1, <1>2 DEF NoEvent

LEMMA InitInv == Init => IInv
<1> SUFFICES ASSUME Init PROVE IInv
    OBVIOUS
<1> USE DEF Init
<1>1. TypeOK
  <2>1. forwarded \in Seq(Events) /\ emitted \in Seq(Events)
      OBVIOUS
  <2>2. completed \in {NoEvent} \cup {Completed(r) : r \in Responses}
      OBVIOUS
  <2> QED
      BY <2>1, <2>2 DEF TypeOK
<1>2. EmissionInv
    BY DEF EmissionInv, WellFormed
<1>3. PrefixInv
    BY DEF PrefixInv, WellFormed
<1>4. CompletionIsTrue
    BY DEF CompletionIsTrue
<1> QED
    BY <1>1, <1>2, <1>3, <1>4 DEF IInv

(* A stream the forwarder accepts one more event of is still well formed.      *)
LEMMA AcceptedEvent ==
  ASSUME IInv, ~ violation, NEW event \in Events, Accepts(event)
  PROVE  WellFormed(Append(emitted, event))
<1>1. emitted \in Seq(Events) /\ WellFormed(emitted) /\ (seen <=> emitted # <<>>)
      /\ \A i \in DOMAIN emitted : emitted[i].type # "completed"
    BY DEF IInv, TypeOK, EmissionInv, Accepts
<1> DEFINE s == Append(emitted, event)
<1>2. s \in Seq(Events) /\ Len(s) = Len(emitted) + 1 /\ s[Len(s)] = event
      /\ \A i \in 1 .. Len(emitted) : s[i] = emitted[i]
    BY <1>1
<1> HIDE DEF s
<1>3. \A i \in DOMAIN s : s[i] # Garbage
    BY <1>1, <1>2 DEF WellFormed, Accepts
<1>4. \A i \in DOMAIN s : s[i] = Started => i = 1
    BY <1>1, <1>2 DEF WellFormed, Accepts
<1>5. \A i \in DOMAIN s : s[i].type = "completed" => i = Len(s)
    BY <1>1, <1>2
<1> QED
    BY <1>3, <1>4, <1>5 DEF WellFormed, s

-----------------------------------------------------------------------------
LEMMA EmitKeeps ==
  ASSUME IInv, NEW event \in Events, Emit(event)
  PROVE  IInv'
<1> USE DEF IInv
<1>0. /\ emitted \in Seq(Events) /\ forwarded \in Seq(Events)
      /\ emitted' = Append(emitted, event) /\ emitted' \in Seq(Events)
      /\ Len(emitted') = Len(emitted) + 1 /\ emitted'[Len(emitted')] = event
      /\ \A i \in 1 .. Len(emitted) : emitted'[i] = emitted[i]
      /\ emitted' # <<>>
      /\ UNCHANGED <<pc, response, outcome>>
    BY DEF Emit, TypeOK
<1>1. ASSUME violation' = TRUE, UNCHANGED <<seen, completed, forwarded, channel>>
      PROVE  IInv'
  <2>1. TypeOK'
      BY <1>0, <1>1 DEF TypeOK
  <2>2. PrefixInv'
      BY <1>0, <1>1 DEF PrefixInv, WellFormed
  <2>3. EmissionInv' /\ CompletionIsTrue'
      BY <1>0, <1>1 DEF EmissionInv, CompletionIsTrue
  <2> QED
      BY <2>1, <2>2, <2>3
<1>2. ASSUME ~ violation, Accepts(event), Holds(event), seen' = TRUE,
             completed' = event, UNCHANGED <<violation, forwarded, channel>>
      PROVE  IInv'
  <2>1. (\E r \in Responses : event = Completed(r)) /\ event # NoEvent
      BY <1>2, EventTypes DEF Holds
  <2>2. TypeOK'
      BY <1>0, <1>2, <2>1 DEF TypeOK
  <2>3. EmissionInv'
      BY <1>0, <1>2, <2>1, AcceptedEvent DEF EmissionInv
  <2>4. PrefixInv'
      BY <1>0, <1>2, <2>1 DEF PrefixInv, WellFormed, Accepts
  <2>5. CompletionIsTrue'
      BY <1>0, <1>2 DEF CompletionIsTrue
  <2> QED
      BY <2>2, <2>3, <2>4, <2>5
<1>3. ASSUME ~ violation, Accepts(event), ~ Holds(event), seen' = TRUE,
             Progress(event), UNCHANGED <<violation, completed>>
      PROVE  IInv'
  <2>1. event.type # "completed" /\ completed = NoEvent
      BY <1>3 DEF Holds, Accepts
  <2>2. EmissionInv'
    <3>1. WellFormed(emitted')
        BY <1>0, <1>3, AcceptedEvent
    <3>2. \A i \in DOMAIN emitted' : emitted'[i].type # "completed"
        BY <1>0, <1>3, <2>1 DEF EmissionInv
    <3> QED
        BY <1>0, <1>3, <2>1, <3>1, <3>2 DEF EmissionInv
  <2>3. CASE channel # "open"
    <3>1. UNCHANGED <<forwarded, channel>>
        BY <1>3, <2>3 DEF Progress
    <3>2. TypeOK' /\ CompletionIsTrue'
        BY <1>0, <1>3, <3>1 DEF TypeOK, CompletionIsTrue
    <3>3. PrefixInv'
        BY <1>0, <1>3, <2>3, <3>1 DEF PrefixInv, WellFormed
    <3> QED
        BY <2>2, <3>2, <3>3
  <2>4. CASE channel = "open"
    <3>1. /\ forwarded' = Append(forwarded, event) /\ forwarded' \in Seq(Events)
          /\ Len(forwarded') = Len(forwarded) + 1 /\ forwarded'[Len(forwarded')] = event
          /\ \A i \in 1 .. Len(forwarded) : forwarded'[i] = forwarded[i]
          /\ channel' \in {"open", "latched"}
      <4>1. forwarded' = Append(forwarded, event) /\ channel' \in {"open", "latched"}
          BY <1>3, <2>4 DEF Progress
      <4>2. forwarded \in Seq(Events) /\ event \in Events
          BY <1>0
      <4> HIDE DEF IInv
      <4> QED
          BY <4>1, <4>2
    <3>2. TypeOK'
        BY <1>0, <1>3, <3>1 DEF TypeOK
    <3>3. CompletionIsTrue'
        BY <1>0, <2>1, <3>1 DEF CompletionIsTrue
    <3>4. Len(forwarded) = Len(emitted)
        BY <1>3, <2>1, <2>4 DEF PrefixInv
    <3>5. \A i \in 1 .. Len(forwarded') : forwarded'[i] = emitted'[i]
        BY <1>0, <3>1, <3>4 DEF PrefixInv
    <3>6. WellFormed(emitted')
        BY <1>0, <1>3, AcceptedEvent
    <3>7. WellFormed(forwarded')
        BY <1>0, <3>1, <3>4, <3>5, <3>6 DEF WellFormed
    <3>8. PrefixInv'
        BY <1>0, <1>3, <2>1, <3>1, <3>4, <3>5, <3>7 DEF PrefixInv
    <3> QED
        BY <2>2, <3>2, <3>3, <3>8
  <2> QED
      BY <2>3, <2>4
<1> QED
    BY <1>1, <1>2, <1>3 DEF Emit, TypeOK

(* The completion is shown at last, with the response it was compared with.    *)
LEMMA ValidateKeeps ==
  ASSUME IInv, Validate
  PROVE  IInv'
<1> USE DEF IInv
<1>1. /\ pc = "validating" /\ pc' = "done"
      /\ UNCHANGED <<seen, completed, response, emitted>>
      /\ forwarded \in Seq(Events) /\ emitted \in Seq(Events)
    BY DEF Validate, TypeOK
<1>2. \A i \in DOMAIN forwarded : forwarded[i].type # "completed"
    BY <1>1 DEF CompletionIsTrue
<1>3. CASE UNCHANGED <<forwarded, channel>>
  <2>1. outcome' \in {"protocol", "value", "dispatch"} /\ violation' \in BOOLEAN
        /\ (~ violation' => ~ violation)
      BY DEF Validate, TypeOK
  <2>2. TypeOK' /\ EmissionInv'
      BY <1>1, <1>3, <2>1 DEF TypeOK, EmissionInv
  <2>3. PrefixInv' /\ CompletionIsTrue'
      BY <1>1, <1>2, <1>3, <2>1 DEF PrefixInv, CompletionIsTrue
  <2> QED
      BY <2>2, <2>3
<1>4. CASE /\ ~ violation /\ completed # NoEvent /\ Matches /\ channel = "open"
           /\ Progress(completed)
           /\ outcome' = (IF channel' = "open" THEN "value" ELSE "dispatch")
           /\ UNCHANGED violation
  <2>1. completed \in Events /\ completed.type = "completed" /\ completed.response = response
      BY <1>4, EventTypes DEF TypeOK, Matches, Events
  <2>2. /\ forwarded' = Append(forwarded, completed) /\ forwarded' \in Seq(Events)
        /\ Len(forwarded') = Len(forwarded) + 1 /\ forwarded'[Len(forwarded')] = completed
        /\ \A i \in 1 .. Len(forwarded) : forwarded'[i] = forwarded[i]
        /\ channel' \in {"open", "latched"}
      BY <1>1, <1>4, <2>1 DEF Progress
  <2>3. Len(forwarded) + 1 = Len(emitted) /\ emitted[Len(emitted)] = completed
        /\ WellFormed(emitted)
      BY <1>1, <1>4 DEF PrefixInv, EmissionInv
  <2>4. TypeOK' /\ EmissionInv'
      BY <1>1, <1>4, <2>2 DEF TypeOK, EmissionInv
  <2>5. CompletionIsTrue'
      BY <1>1, <1>2, <1>4, <2>1, <2>2 DEF CompletionIsTrue
  <2>6. \A i \in 1 .. Len(forwarded') : forwarded'[i] = emitted'[i]
      BY <1>1, <2>2, <2>3 DEF PrefixInv
  <2>7. WellFormed(forwarded')
      BY <1>1, <2>2, <2>3, <2>6 DEF WellFormed
  <2>8. PrefixInv'
      BY <1>1, <1>4, <2>2, <2>3, <2>6, <2>7 DEF PrefixInv
  <2> QED
      BY <2>4, <2>5, <2>8
<1> QED
    BY <1>3, <1>4 DEF Validate, Progress

LEMMA StepKeeps == IInv /\ [Next]_vars => IInv'
<1> SUFFICES ASSUME IInv, [Next]_vars
             PROVE  IInv'
    OBVIOUS
<1> USE DEF IInv
<1>1. ASSUME NEW how \in Failures \cup {"protocol", "dispatch"}, Raise(how)
      PROVE  IInv'
    BY <1>1 DEF Raise, TypeOK, EmissionInv, PrefixInv, CompletionIsTrue
<1>2. CASE Return
    BY <1>2 DEF Return, TypeOK, EmissionInv, PrefixInv, CompletionIsTrue
<1>3. CASE CloseChannel
    BY <1>3 DEF CloseChannel, TypeOK, EmissionInv, PrefixInv, CompletionIsTrue
<1>4. CASE UNCHANGED vars
    BY <1>4 DEF vars, TypeOK, EmissionInv, PrefixInv, CompletionIsTrue, WellFormed
<1> QED
    BY <1>1, <1>2, <1>3, <1>4, EmitKeeps, ValidateKeeps DEF Next


THEOREM Invariance == Spec => []IInv
<1>1. IInv /\ [Next]_vars => IInv'
    BY StepKeeps
<1> QED
    BY InitInv, <1>1, PTL DEF Spec

(* Every variable keeps its range, whatever the backend emits and returns.      *)
THEOREM TypeCorrect == Spec => []TypeOK
<1>1. IInv => TypeOK
    BY DEF IInv
<1> QED
    BY Invariance, <1>1, PTL

-----------------------------------------------------------------------------
(* Observers see a well-formed prefix of what the backend emitted. *)
THEOREM ObserversSeeStream == Spec => []ObserversSeeAStream
<1>1. IInv => ObserversSeeAStream
    BY DEF IInv, TypeOK, PrefixInv, ObserversSeeAStream, IsPrefix
<1> QED
    BY Invariance, <1>1, PTL

(* A completion is shown only with the response the effect returns. *)
THEOREM CompletionsAreTrue == Spec => []CompletionIsTrue
<1>1. IInv => CompletionIsTrue
    BY DEF IInv
<1> QED
    BY Invariance, <1>1, PTL

(* A response is accepted only from a backend that kept the protocol, however   *)
(* many of its callback errors it swallowed.                                    *)
THEOREM NoViolationSucceeds == Spec => ViolationIsNoSuccess
<1>1. IInv /\ [Next]_vars =>
         (outcome' = "value" /\ outcome # "value" =>
            /\ WellFormed(emitted)
            /\ emitted # <<>> /\ Last(emitted).type = "completed" =>
                  Last(emitted).response = response)
  <2> SUFFICES ASSUME IInv, [Next]_vars, outcome' = "value", outcome # "value"
               PROVE  /\ WellFormed(emitted)
                      /\ emitted # <<>> /\ Last(emitted).type = "completed" =>
                            Last(emitted).response = response
      OBVIOUS
  <2>1. Validate
      BY StreamAssumption DEF Next, vars, Emit, Raise, Return, CloseChannel
  <2>2. ~ violation /\ (completed = NoEvent \/ completed.response = response)
      BY <2>1 DEF Validate, Matches
  <2>3. WellFormed(emitted) /\ emitted \in Seq(Events)
      BY <2>2 DEF IInv, TypeOK, EmissionInv
  <2>4. ASSUME emitted # <<>>, Last(emitted).type = "completed"
        PROVE  Last(emitted).response = response
    <3>1. Len(emitted) \in DOMAIN emitted
        BY <2>3, <2>4
    <3>2. completed # NoEvent
        BY <2>2, <2>4, <3>1 DEF IInv, EmissionInv, Last
    <3> QED
        BY <2>2, <3>2 DEF IInv, EmissionInv, Last
  <2> QED
      BY <2>3, <2>4
<1> QED
    BY Invariance, <1>1, PTL DEF Spec, ViolationIsNoSuccess

-----------------------------------------------------------------------------
(* Decisions: an answer that names every declared option, and none twice, gives *)
(* each of them one probability, and the converse.                              *)

(* The n values of v differ, and so do the m of w; v and w have the same values; *)
(* every value of v occurs once in w.                                            *)
Differ(v, n) == \A i, j \in 1 .. n : v[i] = v[j] => i = j
SameValues(v, n, w, m) == {w[j] : j \in 1 .. m} = {v[i] : i \in 1 .. n}
EachOnce(v, n, w, m) == \A i \in 1 .. n : Cardinality({j \in 1 .. m : w[j] = v[i]}) = 1

LEMMA UpTo ==
  ASSUME NEW n \in Nat
  PROVE  IsFiniteSet(1 .. n) /\ Cardinality(1 .. n) = n
    BY FS_Interval

LEMMA ValuesCounted ==
  ASSUME NEW n \in Nat, NEW v, Differ(v, n)
  PROVE  Cardinality({v[i] : i \in 1 .. n}) = n
<1> DEFINE S == {v[i] : i \in 1 .. n}
           g == [i \in 1 .. n |-> v[i]]
<1>1. g \in [1 .. n -> S] /\ \A i, j \in 1 .. n : g[i] = g[j] => i = j
    BY DEF Differ
<1>2. \A t \in S : \E i \in 1 .. n : g[i] = t
    OBVIOUS
<1> HIDE DEF S, g
<1>3. DOMAIN g = 1 .. n
    BY <1>1
<1>4. g \in Surjection(1 .. n, S)
    BY <1>1, <1>2 DEF Surjection
<1>5. g \in Injection(1 .. n, S)
    BY <1>1, <1>3 DEF Injection, IsInjective
<1>6. Cardinality(S) = Cardinality(1 .. n)
    BY <1>4, <1>5, UpTo, FS_Surjection
<1> QED
    BY <1>6, UpTo DEF S

LEMMA CoveredOnce ==
  ASSUME NEW m \in Nat, NEW n \in Nat, NEW v, NEW w,
         Differ(v, n), Differ(w, m), SameValues(v, n, w, m)
  PROVE  m = n /\ EachOnce(v, n, w, m)
<1>1. m = n
  <2>1. {v[i] : i \in 1 .. n} = {w[j] : j \in 1 .. m}
      BY DEF SameValues
  <2>2. Cardinality({v[i] : i \in 1 .. n}) = n
      BY ValuesCounted
  <2>3. Cardinality({w[j] : j \in 1 .. m}) = m
      BY ValuesCounted
  <2> QED
      BY <2>1, <2>2, <2>3
<1>2. ASSUME NEW i \in 1 .. n
      PROVE  Cardinality({j \in 1 .. m : w[j] = v[i]}) = 1
  <2>1. v[i] \in {w[j] : j \in 1 .. m}
      BY DEF SameValues
  <2>2. PICK j \in 1 .. m : w[j] = v[i]
      BY <2>1
  <2>3. {k \in 1 .. m : w[k] = v[i]} = {j}
      BY <2>2 DEF Differ
  <2> QED
      BY <2>3, FS_Singleton
<1> QED
    BY <1>1, <1>2 DEF EachOnce

LEMMA OnceCovers ==
  ASSUME NEW n \in Nat, NEW v, NEW w, Differ(v, n), EachOnce(v, n, w, n)
  PROVE  SameValues(v, n, w, n)
<1>1. \A i \in 1 .. n : \E j \in 1 .. n : w[j] = v[i]
  <2> SUFFICES ASSUME NEW i \in 1 .. n, \A j \in 1 .. n : w[j] # v[i]
               PROVE  FALSE
      OBVIOUS
  <2>1. {j \in 1 .. n : w[j] = v[i]} = {}
      OBVIOUS
  <2> QED
      BY <2>1, FS_EmptySet DEF EachOnce
<1> DEFINE at == [i \in 1 .. n |-> CHOOSE j \in 1 .. n : w[j] = v[i]]
<1>2. at \in [1 .. n -> 1 .. n] /\ \A i \in 1 .. n : w[at[i]] = v[i]
    BY <1>1
<1> HIDE DEF at
<1>3. at \in Injection(1 .. n, 1 .. n)
    BY <1>2 DEF Injection, IsInjective, Differ
<1>4. at \in Surjection(1 .. n, 1 .. n)
  <2> DEFINE I == 1 .. n
  <2>1. IsFiniteSet(I) /\ at \in Injection(I, I)
      BY <1>3, UpTo
  <2> HIDE DEF I
  <2>2. at \in Surjection(I, I)
      BY <2>1, FS_Injection
  <2> QED
      BY <2>2 DEF I
<1>5. \A j \in 1 .. n : \E i \in 1 .. n : w[j] = v[i]
    BY <1>2, <1>4 DEF Surjection
<1> QED
    BY <1>1, <1>5 DEF SameValues

(* The options of a question, and those of an answer, as functions. *)
Options(q) == IF q.kind = "score" THEN [i \in 1 .. Len(q.options) |-> Level(q, i)]
              ELSE [i \in 1 .. Len(q.options) |-> q.options[i]]
Given(a) == [j \in 1 .. Len(a.weights) |-> a.weights[j].option]

LEMMA QuestionTypes ==
  ASSUME NEW q \in Questions
  PROVE  /\ q.kind \in Kinds /\ q.options \in Seq(Values)
         /\ Len(q.options) \in Nat /\ DOMAIN q.options = 1 .. Len(q.options)
         /\ \A i \in 1 .. Len(q.options) : q.options[i] \in Values
         /\ Options(q) \in [1 .. Len(q.options) -> Values \cup {Level(q, i) : i \in 1 .. Len(q.options)}]
         /\ Declared(q) = {Options(q)[i] : i \in 1 .. Len(q.options)}
<1>1. q \in [name : STRING, kind : Kinds, options : Seq(Values)]
    BY DecisionAssumption
<1>2. q.kind \in Kinds /\ q.options \in Seq(Values)
    BY <1>1
<1> DEFINE s == q.options
<1>3. /\ Len(s) \in Nat /\ DOMAIN s = 1 .. Len(s)
      /\ \A i \in 1 .. Len(s) : s[i] \in Values
  <2> HIDE DEF s
  <2>1. s \in Seq(Values)
      BY <1>2 DEF s
  <2> QED
      BY <2>1
<1> QED
    BY <1>2, <1>3 DEF Options, Declared

LEMMA AnswerTypes ==
  ASSUME NEW a \in Answers
  PROVE  /\ a.kind \in Kinds \cup {"refusal"} /\ a.number.n \in Int
         /\ Len(a.weights) \in Nat /\ DOMAIN a.weights = 1 .. Len(a.weights)
         /\ \A j \in 1 .. Len(a.weights) : a.weights[j].option \in Values
         /\ Given(a) \in [1 .. Len(a.weights) -> Values]
         /\ Covered(a) = {Given(a)[j] : j \in 1 .. Len(a.weights)}
<1> DEFINE Entries == [option : Values, p : Numbers]
<1>1. a \in [name : STRING, kind : Kinds \cup {"refusal"}, choice : Values, number : Numbers,
             confidence : Numbers, weights : Seq(Entries)]
    BY DecisionAssumption
<1>2. a.kind \in Kinds \cup {"refusal"} /\ a.number \in Numbers
    BY <1>1
<1> DEFINE s == a.weights
<1>3. s \in Seq(Entries)
    BY <1>1
<1>4. /\ Len(s) \in Nat /\ DOMAIN s = 1 .. Len(s)
      /\ \A i \in 1 .. Len(s) : s[i] \in Entries
  <2> HIDE DEF s, Entries
  <2> QED
      BY <1>3
<1>5. \A i \in 1 .. Len(s) : s[i].option \in Values
    BY <1>4
<1> QED
    BY <1>2, <1>4, <1>5 DEF Given, Covered, Numbers

(* The constructors make a question's options, and an answer's, distinct.      *)
LEMMA OptionsDistinct ==
  ASSUME NEW q \in Questions, QuestionBuilds(q), q.kind \in {"choice", "score"}
  PROVE  \A i, j \in 1 .. Len(q.options) : Options(q)[i] = Options(q)[j] => i = j
<1>1. CASE q.kind = "choice"
    BY <1>1, QuestionTypes DEF QuestionBuilds, Distinct, Options
<1>2. CASE q.kind = "score"
  <2>1. \A i, j \in 1 .. Len(q.options) : Level(q, i) = Level(q, j) => i - 1 = j - 1
      BY DEF Level
  <2> QED
      BY <1>2, <2>1, QuestionTypes DEF Options
<1> QED
    BY <1>1, <1>2

LEMMA GivenDistinct ==
  ASSUME NEW a \in Answers, AnswerBuilds(a), a.kind \in {"choice", "score"}
  PROVE  \A i, j \in 1 .. Len(a.weights) : Given(a)[i] = Given(a)[j] => i = j
<1>1. DistributionBuilds(a)
    BY DEF AnswerBuilds
<1>2. \A i, j \in 1 .. Len(a.weights) : Identities(a)[i] = Identities(a)[j] => i = j
    BY <1>1, AnswerTypes DEF DistributionBuilds, Distinct, Identities
<1> QED
    BY <1>2, AnswerTypes DEF Identities, Given

(* An answer that passes validation decides the question, and the converse. *)
LEMMA MatchingDecides ==
  ASSUME NEW q \in Questions, QuestionBuilds(q), NEW a \in Answers, AnswerBuilds(a),
         a.kind # "refusal"
  PROVE  MatchesQuestion(q, a) <=> Decides(a, q)
<1> DEFINE n == Len(q.options)
           m == Len(a.weights)
           v == Options(q)
           w == Given(a)
           Once == m = n /\ EachOnce(v, n, w, m)
<1>1. n \in Nat /\ m \in Nat
    BY QuestionTypes, AnswerTypes
<1>2. Covered(a) = {w[j] : j \in 1 .. m} /\ Declared(q) = {v[i] : i \in 1 .. n}
    BY QuestionTypes, AnswerTypes
<1>3. q.kind \in {"choice", "score"} /\ a.kind = q.kind =>
        (Covered(a) = Declared(q) <=> Once)
  <2> SUFFICES ASSUME q.kind \in {"choice", "score"}, a.kind = q.kind
               PROVE  Covered(a) = Declared(q) <=> Once
      OBVIOUS
  <2>1. Differ(v, n) /\ Differ(w, m)
      BY OptionsDistinct, GivenDistinct DEF Differ
  <2> HIDE DEF n, m, v, w
  <2>2. SameValues(v, n, w, m) <=> Once
      BY <1>1, <2>1, CoveredOnce, OnceCovers
  <2> QED
      BY <1>2, <2>2 DEF SameValues
<1>4. CASE q.kind = "predicate"
    BY <1>4 DEF MatchesQuestion, Decides, AnswerBuilds, IsProbability
<1>5. CASE q.kind = "choice"
  <2>1. /\ DOMAIN a.weights = 1 .. m /\ DOMAIN q.options = 1 .. n
        /\ \A i \in 1 .. n : v[i] = q.options[i]
        /\ \A j \in 1 .. m : w[j] = a.weights[j].option
      BY <1>5, QuestionTypes, AnswerTypes DEF Options, Given
  <2>2. Decides(a, q) <=>
           /\ a.kind = q.kind /\ Once
           /\ \E i \in 1 .. n : a.choice = v[i]
      BY <1>5, <2>1 DEF Decides, EachOnce
  <2>3. a.choice \in Declared(q) <=> \E i \in 1 .. n : a.choice = v[i]
      BY <1>2
  <2>4. MatchesQuestion(q, a) <=>
           /\ a.kind = q.kind /\ Covered(a) = Declared(q) /\ a.choice \in Declared(q)
      BY <1>5 DEF MatchesQuestion
  <2> HIDE DEF Once
  <2> QED
      BY <1>3, <1>5, <2>2, <2>3, <2>4
<1>6. CASE q.kind = "score"
  <2>1. /\ DOMAIN a.weights = 1 .. m /\ DOMAIN q.options = 1 .. n
        /\ \A i \in 1 .. n : v[i] = Level(q, i)
        /\ \A j \in 1 .. m : w[j] = a.weights[j].option
      BY <1>6, QuestionTypes, AnswerTypes DEF Options, Given
  <2>2. Decides(a, q) <=> a.kind = q.kind /\ Once /\ a.number.n \in 0 .. n - 1
      BY <1>6, <2>1 DEF Decides, EachOnce
  <2>3. a.kind = "score" => a.number.n \in Int /\ a.number.n >= 0
      BY AnswerTypes DEF AnswerBuilds
  <2>4. MatchesQuestion(q, a) <=>
           a.kind = q.kind /\ Covered(a) = Declared(q) /\ a.number.n <= n - 1
      BY <1>6 DEF MatchesQuestion
  <2> HIDE DEF Once, n
  <2> QED
      BY <1>1, <1>3, <1>6, <2>2, <2>3, <2>4
<1> QED
    BY <1>4, <1>5, <1>6, QuestionTypes DEF Kinds

(* What the constructors have let through when the response is validated. *)
DecisionInv ==
    /\ stage \in {"asking", "deciding", "done"}
    /\ answers \in Seq(Answers) /\ \A i \in DOMAIN answers : AnswerBuilds(answers[i])
    /\ stage = "deciding" \/ verdict \in {"decided", "response_error"} =>
          questions \in Seq(Questions) /\ RequestBuilds(questions)
    /\ stage # "done" => verdict = "none"
    /\ verdict = "decided" => ValidFor
    /\ verdict = "response_error" => answers = <<>> \/ ~ ValidFor

LEMMA ValidAnswers ==
  ASSUME answers \in Seq(Answers), \A i \in DOMAIN answers : AnswerBuilds(answers[i]),
         questions \in Seq(Questions), RequestBuilds(questions)
  PROVE  ValidFor <=> AnswerTheRequest
<1>1. /\ DOMAIN answers = 1 .. Len(answers) /\ Len(answers) \in Nat
      /\ DOMAIN questions = 1 .. Len(questions) /\ Len(questions) \in Nat
      /\ \A i \in 1 .. Len(answers) : answers[i] \in Answers
      /\ \A i \in 1 .. Len(questions) : questions[i] \in Questions
    OBVIOUS
<1>2. /\ Names(answers) = [i \in 1 .. Len(answers) |-> answers[i].name]
      /\ Names(questions) = [i \in 1 .. Len(questions) |-> questions[i].name]
    BY <1>1 DEF Names
<1>3. Names(answers) = Names(questions) <=>
         /\ Len(answers) = Len(questions)
         /\ \A i \in 1 .. Len(questions) : answers[i].name = questions[i].name
  <2>1. ASSUME Names(answers) = Names(questions)
        PROVE  Len(answers) = Len(questions)
    <3>1. 1 .. Len(answers) = 1 .. Len(questions)
        BY <1>2, <2>1
    <3>2. Cardinality(1 .. Len(answers)) = Len(answers)
          /\ Cardinality(1 .. Len(questions)) = Len(questions)
        BY <1>1, UpTo
    <3> QED
        BY <3>1, <3>2
  <2>2. ASSUME Len(answers) = Len(questions)
        PROVE  Names(answers) = Names(questions) <=>
                  \A i \in 1 .. Len(questions) : answers[i].name = questions[i].name
      BY <1>2, <2>2
  <2> QED
      BY <2>1, <2>2
<1>4. ASSUME Len(answers) = Len(questions), NEW i \in 1 .. Len(questions)
      PROVE  MatchesQuestion(questions[i], answers[i]) <=>
                answers[i].kind = "refusal" \/ Decides(answers[i], questions[i])
  <2>1. questions[i] \in Questions /\ QuestionBuilds(questions[i])
        /\ answers[i] \in Answers /\ AnswerBuilds(answers[i])
      BY <1>1, <1>4 DEF RequestBuilds
  <2>2. CASE answers[i].kind = "refusal"
      BY <2>2 DEF MatchesQuestion
  <2> QED
      BY <2>1, <2>2, MatchingDecides
<1> QED
    BY <1>1, <1>3, <1>4 DEF ValidFor, AnswerTheRequest

LEMMA DecisionInitInv == DecisionInit => DecisionInv
  BY DEF DecisionInit, DecisionInv

LEMMA DecisionStep == DecisionInv /\ DecisionNext => DecisionInv'
<1> SUFFICES ASSUME DecisionInv, DecisionNext
             PROVE  DecisionInv'
    OBVIOUS
<1> USE DEF DecisionInv
<1>1. ASSUME NEW qs \in Requests, Ask(qs)
      PROVE  DecisionInv'
  <2>1. qs \in Seq(Questions)
    <3>1. PICK n \in 0 .. MaxQuestions : qs \in [1 .. n -> Questions]
        BY DEF Requests
    <3> QED
        BY <3>1, DecisionAssumption
  <2> QED
      BY <1>1, <2>1 DEF Ask
<1>2. ASSUME NEW a \in Answers, BuildAnswer(a)
      PROVE  DecisionInv'
  <2>1. CASE AnswerBuilds(a)
    <3>1. answers' = Append(answers, a) /\ UNCHANGED <<stage, questions, verdict>>
          /\ stage = "deciding"
        BY <1>2, <2>1 DEF BuildAnswer
    <3>2. /\ answers' \in Seq(Answers) /\ DOMAIN answers' = 1 .. Len(answers) + 1
          /\ answers'[Len(answers) + 1] = a
          /\ \A i \in 1 .. Len(answers) : answers'[i] = answers[i]
          /\ DOMAIN answers = 1 .. Len(answers) /\ Len(answers) \in Nat
        BY <3>1
    <3>3. \A i \in DOMAIN answers' : i = Len(answers) + 1 \/ i \in 1 .. Len(answers)
        BY <3>2
    <3>4. \A i \in DOMAIN answers' : AnswerBuilds(answers'[i])
        BY <2>1, <3>2, <3>3
    <3> QED
        BY <3>1, <3>2, <3>4
  <2>2. CASE ~ AnswerBuilds(a)
      BY <1>2, <2>2 DEF BuildAnswer, DecideEnds
  <2> QED
      BY <2>1, <2>2
<1>3. CASE ReturnDecision
  <2>1. stage = "deciding" /\ stage' = "done" /\ UNCHANGED <<questions, answers>>
        /\ verdict' = IF ~ ResponseBuilds THEN "invalid_value"
                      ELSE IF ValidFor THEN "decided" ELSE "response_error"
      BY <1>3 DEF ReturnDecision, DecideEnds
  <2>2. ValidFor' <=> ValidFor
      BY <2>1 DEF ValidFor
  <2> QED
      BY <2>1, <2>2
<1>4. CASE ReturnOther
    BY <1>4 DEF ReturnOther, DecideEnds
<1>5. CASE RaiseFromBackend
    BY <1>5 DEF RaiseFromBackend, DecideEnds
<1> QED
    BY <1>1, <1>2, <1>3, <1>4, <1>5 DEF DecisionNext

(* A response reaches the application exactly if it answers the request: one    *)
(* answer or refusal per question, with one probability per declared option     *)
(* (DecisionResponse.validate_for), whatever the backend builds.                *)
THEOREM DecisionsAreAnswers == EffectSpec => []DecisionsAnswerTheRequest
<1>1. EffectInit => DecisionInv
    BY DecisionInitInv DEF EffectInit
<1>2. DecisionInv /\ [PerformGenerate \/ PerformDecide \/ PerformSuite]_backendVars
        => DecisionInv'
  <2>1. ASSUME DecisionInv, UNCHANGED decisionVars
        PROVE  DecisionInv'
      BY <2>1 DEF DecisionInv, decisionVars, ValidFor
  <2> QED
      BY <2>1, DecisionStep DEF PerformGenerate, PerformDecide, PerformSuite, backendVars
<1>3. DecisionInv => DecisionsAnswerTheRequest
    BY ValidAnswers DEF DecisionInv, DecisionsAnswerTheRequest
<1> QED
    BY <1>1, <1>2, <1>3, PTL DEF EffectSpec

-----------------------------------------------------------------------------
(* The composition neither adds a step to a stream nor takes its guards away:   *)
(* what is proved of Spec holds of a driver that also performs decisions, and   *)
(* what is proved of SuiteSpec holds beside both.                               *)
THEOREM EffectsContainStreams == EffectSpec => Spec
<1>1. EffectInit => Init
    BY DEF EffectInit
<1>2. [PerformGenerate \/ PerformDecide \/ PerformSuite]_backendVars => [Next]_vars
    BY DEF PerformGenerate, PerformDecide, PerformSuite, backendVars
<1> QED
    BY <1>1, <1>2, PTL DEF EffectSpec, Spec

(* The same for the suite. *)
THEOREM EffectsContainSuites == EffectSpec => SuiteSpec
<1>1. EffectInit => SuiteInit
    BY DEF EffectInit
<1>2. [PerformGenerate \/ PerformDecide \/ PerformSuite]_backendVars => [SuiteNext]_suiteVars
    BY DEF PerformGenerate, PerformDecide, PerformSuite, backendVars
<1> QED
    BY <1>1, <1>2, PTL DEF EffectSpec, SuiteSpec

-----------------------------------------------------------------------------
(* The conformance suite. *)

Scenarios == {BasicResponse, RequestSemantics, ReminderRemoval,
              ReminderReplacement, Streaming,
              ErrorScenario("model_error", "exception"),
              ErrorScenario("cancellation", "cancelled")}

(* The responses scenarios expect. *)
Expected(reply) ==
    /\ reply = [id |-> reply.id, role |-> "assistant", cursor |-> reply.cursor]
    /\ reply.role = "assistant" /\ reply.id # "other"

(* What the verdict on a call depends on. *)
Runnable(scenario) ==
    /\ scenario.error \in {"none", "exception", "cancelled"}
    /\ Len(scenario.steps) \in 1 .. 2
    /\ \A k \in 1 .. Len(scenario.steps) :
          Expected(scenario.steps[k].response)

LEMMA OneStep ==
  ASSUME NEW case, NEW controls, NEW cursor, NEW reply, Expected(reply),
         NEW error \in {"none", "exception", "cancelled"}, NEW streaming
  PROVE  Runnable(Scenario(case, << Step(controls, cursor, reply) >>, error,
                                   streaming))
    BY DEF Runnable, Scenario, Step

LEMMA TwoSteps ==
  ASSUME NEW case, NEW controls, NEW cursor, NEW reply, Expected(reply),
         NEW controls2, NEW cursor2, NEW reply2, Expected(reply2)
  PROVE  Runnable(Scenario(case, << Step(controls, cursor, reply),
                                            Step(controls2, cursor2, reply2) >>,
                                   "none", FALSE))
    BY DEF Runnable, Scenario, Step

LEMMA ScenariosRunnable ==
  ASSUME NEW scenario \in Scenarios PROVE Runnable(scenario)
<1>1. /\ Expected(Response("basic", NoCursor))
      /\ Expected(Response("semantics", "response-cursor"))
      /\ Expected(Response("stream", NoCursor))
      /\ Expected(Response("none", NoCursor))
    BY DEF NoCursor, Response, Expected
<1>2. /\ Expected(Response("removal-1", "removal"))
      /\ Expected(Response("removal-2", NoCursor))
      /\ Expected(Response("replacement-1", "replacement"))
      /\ Expected(Response("replacement-2", NoCursor))
    BY DEF NoCursor, Response, Expected
<1>3. Runnable(BasicResponse)
    BY <1>1, OneStep, Zenon DEF BasicResponse
<1>4. Runnable(RequestSemantics)
    BY <1>1, OneStep, Zenon DEF RequestSemantics
<1>5. Runnable(Streaming)
    BY <1>1, OneStep, Zenon DEF Streaming
<1>6. Runnable(ReminderRemoval) /\ Runnable(ReminderReplacement)
    BY <1>2, TwoSteps, Zenon DEF ReminderRemoval, ReminderReplacement
<1>7. /\ Runnable(ErrorScenario("model_error", "exception"))
      /\ Runnable(ErrorScenario("cancellation", "cancelled"))
    BY <1>1, OneStep, Zenon DEF ErrorScenario
<1> QED
    BY <1>3, <1>4, <1>5, <1>6, <1>7 DEF Scenarios

(* A run has all of them, or all but the one that streams. *)
LEMMA Runs ==
  ASSUME selected \in {Standard, WithoutStreaming}
  PROVE  /\ Len(selected) \in {6, 7}
         /\ \A n \in 1 .. Len(selected) : selected[n] \in Scenarios
         /\ selected[3] = ReminderRemoval
    BY DEF Standard, WithoutStreaming, Scenarios

-----------------------------------------------------------------------------
(* The inductive invariant of a run. *)

Verdicts == {[case |-> scenario.case, passed |-> passed] : scenario \in Scenarios,
                                                           passed \in BOOLEAN}

RunInv ==
    /\ adapter \in Adapters
    /\ selected \in {Standard, WithoutStreaming}
    /\ status \in {"running", "reported", "aborted"}
    /\ index \in 1 .. Len(selected) + 1
    /\ step \in 0 .. 2
    /\ step > 0 => index <= Len(selected) /\ step <= Len(selected[index].steps)
    /\ status = "reported" => index = Len(selected) + 1
    /\ results \in Seq(Verdicts) /\ Len(results) = index - 1

(* The results are the truth about the scenarios before this one; of those to  *)
(* come the provider has broken none.                                          *)
VerdictInv ==
    /\ broken \subseteq Nat
    /\ \A n \in 1 .. index - 1 :
          /\ results[n].case = selected[n].case
          /\ results[n].passed <=> n \notin broken
    /\ status # "aborted" => \A n \in broken : n < index

(* Before its second request an adapter that mixes controls has kept those of  *)
(* the first; it cannot get past the removal scenario.                         *)
RemovalInv ==
    adapter # "fresh" /\ status # "aborted" =>
        /\ index = 3 /\ step = 2 => kept = [cursor |-> "removal", controls |-> [temporary |-> "old"]]
        /\ index > 3 => 3 \in broken

SuiteInv == RunInv /\ VerdictInv /\ RemovalInv /\ (interrupted => status = "aborted")

-----------------------------------------------------------------------------
Other == Returns(Response("other", NoCursor), <<>>)

Misbehaviour == {answer \in WrongAnswers :
                    answer.kind = "response" /\ ~Now.streaming =>
                        answer.value # RightAnswer.value}

(* The right answer passes, every other one fails. *)
LEMMA RightAnswerPasses ==
  ASSUME Runnable(Now), step \in 1 .. Len(Now.steps)
  PROVE  Passes(RightAnswer)
<1>1. Now.error \in {"none", "exception", "cancelled"} /\ Request.response.role = "assistant"
    BY DEF Runnable, Request, Expected
<1>2. AssertCompleteStream(CompleteStream)
    BY DEF AssertCompleteStream, CompleteStream, Last
<1> QED
    BY <1>1, <1>2 DEF Passes, RightAnswer, Returns, Raises

LEMMA IncompleteStreams ==
  ASSUME NEW events \in {<<>>, <<"started", "completed">>, <<"delta", "completed">>,
                         <<"started", "delta">>}
  PROVE  ~AssertCompleteStream(events)
    BY DEF AssertCompleteStream, Last

LEMMA OtherFails ==
  ASSUME Runnable(Now), step \in 1 .. Len(Now.steps), NEW events
  PROVE  ~Passes(Returns(Response("other", NoCursor), events))
<1>1. Now.error \in {"none", "exception", "cancelled"} /\ Request.response.id # "other"
    BY DEF Runnable, Request, Expected
<1> QED
    BY <1>1 DEF Passes, Returns, Response

LEMMA MisbehaviourFails ==
  ASSUME Runnable(Now), step \in 1 .. Len(Now.steps),
         NEW answer \in Misbehaviour
  PROVE  ~Passes(answer)
<1>1. Now.error \in {"none", "exception", "cancelled"}
    BY DEF Runnable
<1>2. CASE \E e \in {<<>>, CompleteStream} :
              answer = Returns(Response("other", NoCursor), e)
    BY <1>2, OtherFails
<1>3. CASE answer = Returns([Request.response EXCEPT !.role = "user"], CompleteStream)
  <2>1. Request.response = [id |-> Request.response.id, role |-> "assistant",
                                  cursor |-> Request.response.cursor]
      BY DEF Runnable, Request, Expected
  <2>2. answer.kind = "response" /\ answer.value.role = "user"
      BY <1>3, <2>1 DEF Returns
  <2> QED
      BY <1>1, <2>2 DEF Passes
<1>4. CASE \E e \in {<<>>, <<"started", "completed">>, <<"delta", "completed">>, <<"started", "delta">>} :
              answer = Returns(Request.response, e)
  <2>1. answer.kind = "response" /\ answer.value = Request.response
        /\ ~AssertCompleteStream(answer.events)
      BY <1>4, IncompleteStreams DEF Returns
  <2>2. Now.error = "none" => RightAnswer.value = Request.response
      BY DEF RightAnswer, Returns
  <2>3. Now.error = "none" => Now.streaming
      BY <2>1, <2>2 DEF Misbehaviour
  <2> QED
      BY <1>1, <2>1, <2>3 DEF Passes
<1>5. CASE answer \in {Raises("exception", FALSE), Raises("cancelled", FALSE),
                       Raises("exit", FALSE)}
    BY <1>1, <1>5 DEF Passes, Raises
<1> QED
    BY <1>2, <1>3, <1>4, <1>5 DEF Misbehaviour, WrongAnswers

-----------------------------------------------------------------------------
LEMMA SuiteInitInv == SuiteInit => SuiteInv
<1> SUFFICES ASSUME SuiteInit PROVE SuiteInv
    OBVIOUS
<1>1. Len(selected) \in {6, 7}
    BY Runs DEF SuiteInit
<1>2. RunInv
    BY <1>1 DEF SuiteInit, RunInv
<1> QED
    BY <1>2 DEF SuiteInit, SuiteInv, VerdictInv, RemovalInv

(* A scenario ends with an entry, and broken is what it says. *)
LEMMA Recorded ==
  ASSUME SuiteInv, status = "running", index <= Len(selected), NEW passed \in BOOLEAN,
         Record(passed), UNCHANGED <<adapter, selected>>, ~interrupted',
         broken' = IF passed THEN broken ELSE broken \cup {index},
         adapter # "fresh" /\ index = 3 => ~passed
  PROVE  SuiteInv'
<1>1. /\ index \in Nat /\ index >= 1 /\ Len(selected) \in Nat
      /\ Len(results) = index - 1 /\ results \in Seq(Verdicts)
    BY Runs DEF SuiteInv, RunInv
<1>2. selected[index] \in Scenarios
    BY <1>1, Runs DEF SuiteInv, RunInv
<1> DEFINE entry == [case |-> selected[index].case, passed |-> passed]
<1>3. entry \in Verdicts /\ entry.case = selected[index].case /\ entry.passed = passed
    BY <1>2 DEF Verdicts
<1>4. results' = Append(results, entry) /\ index' = index + 1 /\ step' = 0 /\ status' = "running"
    BY DEF Record, Now
<1> HIDE DEF entry
<1>5. /\ results' \in Seq(Verdicts) /\ Len(results') = index
      /\ \A n \in 1 .. index - 1 : results'[n] = results[n]
      /\ results'[index] = entry
    BY <1>1, <1>3, <1>4
<1>6. RunInv'
    BY <1>1, <1>4, <1>5 DEF SuiteInv, RunInv
<1>7. VerdictInv'
  <2>1. broken \subseteq Nat /\ \A n \in broken : n < index
      BY DEF SuiteInv, VerdictInv
  <2>2. broken' \subseteq Nat /\ \A n \in broken' : n < index'
      BY <1>1, <1>4, <2>1
  <2>3. index \in broken' <=> ~passed
      BY <1>1, <2>1
  <2>4. ASSUME NEW n \in 1 .. index - 1
        PROVE  results'[n].case = selected[n].case /\ (results'[n].passed <=> n \notin broken')
    <3>1. n # index /\ (n \in broken' <=> n \in broken)
        BY <1>1
    <3> QED
        BY <1>5, <3>1 DEF SuiteInv, VerdictInv
  <2>5. ASSUME NEW n \in 1 .. index' - 1
        PROVE  results'[n].case = selected[n].case /\ (results'[n].passed <=> n \notin broken')
    <3>1. n = index \/ n \in 1 .. index - 1
        BY <1>1, <1>4
    <3> QED
        BY <1>3, <1>5, <2>3, <2>4, <3>1
  <2> QED
      BY <2>2, <2>5 DEF VerdictInv
<1>8. RemovalInv'
    BY <1>1, <1>4 DEF SuiteInv, RemovalInv
<1> QED
    BY <1>4, <1>6, <1>7, <1>8 DEF SuiteInv

(* A cancellation or an exit: there will be no report. *)
LEMMA Aborted ==
  ASSUME SuiteInv, status = "running", index <= Len(selected),
         Abort, UNCHANGED <<adapter, selected>>, broken' \subseteq broken \cup {index},
         \A n \in 1 .. index - 1 : n \in broken' <=> n \in broken
  PROVE  SuiteInv'
<1>1. index \in Nat /\ broken' \subseteq Nat
    BY Runs DEF SuiteInv, RunInv, VerdictInv
<1>2. RunInv'
    BY DEF SuiteInv, RunInv, Abort
<1> QED
    BY <1>1, <1>2 DEF SuiteInv, VerdictInv, RemovalInv, Abort

(* The next call of the scenario; the provider has answered those before it. *)
LEMMA Proceeds ==
  ASSUME SuiteInv, status = "running", index <= Len(selected), step' \in 1 .. 2,
         step' <= Len(Now.steps),
         UNCHANGED <<adapter, selected, index, results, status, broken>>, ~interrupted',
         adapter # "fresh" /\ index = 3 /\ step' = 2 =>
             kept' = [cursor |-> "removal", controls |-> [temporary |-> "old"]]
  PROVE  SuiteInv'
<1>1. RunInv'
    BY DEF SuiteInv, RunInv, Now
<1> QED
    BY <1>1 DEF SuiteInv, VerdictInv, RemovalInv

(* The entry on an answer that is the right one or does not pass. *)
LEMMA Judged ==
  ASSUME SuiteInv, Calling, NEW answer, Answer(answer),
         answer = RightAnswer \/ ~Passes(answer),
         adapter # "fresh" /\ index = 3 /\ step = 2 => answer # RightAnswer,
         interrupted' => /\ answer # RightAnswer
                         /\ answer.kind \notin {"response", "exception"}
  PROVE  SuiteInv'
<1>1. /\ status = "running" /\ index <= Len(selected) /\ index \in Nat /\ index >= 1
      /\ step \in 1 .. 2 /\ step <= Len(Now.steps) /\ Len(Now.steps) \in 1 .. 2
      /\ UNCHANGED <<adapter, selected>>
      /\ Runnable(Now)
  <2>1. /\ status = "running" /\ step > 0 /\ step \in 0 .. 2 /\ index \in 1 .. Len(selected) + 1
        /\ index <= Len(selected) /\ step <= Len(Now.steps)
      BY DEF SuiteInv, RunInv, Calling, Now
  <2>2. index \in 1 .. Len(selected) /\ Len(selected) \in {6, 7}
      BY <2>1, Runs DEF SuiteInv, RunInv
  <2>3. Runnable(Now)
      BY <2>2, Runs, ScenariosRunnable DEF SuiteInv, RunInv, Now
  <2> QED
      BY <2>1, <2>2, <2>3 DEF Runnable, Answer
<1>2. Passes(answer) <=> answer = RightAnswer
    BY <1>1, RightAnswerPasses
<1>3. broken' = IF answer = RightAnswer THEN broken ELSE broken \cup {index}
    BY DEF Answer
<1>4. CASE answer = RightAnswer /\ step < Len(Now.steps)
  <2>1. step' = step + 1 /\ UNCHANGED <<results, index, status>>
    <3>1. Passes(answer) /\ step < Len(Now.steps)
        BY <1>2, <1>4
    <3> QED
        BY <3>1 DEF Answer, Judge, Record, Abort
  <2>2. ASSUME adapter # "fresh", index = 3, step' = 2
        PROVE  kept' = [cursor |-> "removal", controls |-> [temporary |-> "old"]]
    <3>1. step = 1 /\ Now = ReminderRemoval
        BY <1>1, <2>1, <2>2, Runs DEF SuiteInv, RunInv, Now
    <3>2. /\ Now.error = "none" /\ ~Now.streaming
          /\ Request.response.cursor = "removal"
          /\ Request.controls = [temporary |-> "old"]
        BY <3>1 DEF ReminderRemoval, Scenario, Step, Response,
           Request, NoCursor
    <3>3. answer.kind = "response" /\ answer.value.cursor = "removal"
        BY <1>4, <3>2 DEF RightAnswer, Returns
    <3> QED
        BY <3>2, <3>3 DEF Answer, Keep, NoCursor
  <2> QED
    <3>1. step' \in 1 .. 2 /\ step' <= Len(Now.steps)
      <4> DEFINE total == Len(Now.steps)
      <4>1. step \in 1 .. 2 /\ total \in 1 .. 2 /\ step < total /\ step' = step + 1
          BY <1>1, <1>4, <2>1
      <4> HIDE DEF total
      <4>2. step' \in 1 .. 2 /\ step' <= total
          BY ONLY <4>1
      <4> QED
          BY <4>2 DEF total
    <3>3. ~interrupted'
        BY <1>4
    <3>2. UNCHANGED <<adapter, selected, index, results, status, broken>>
        BY <1>1, <1>3, <1>4, <2>1
    <3> QED
        BY <1>1, <2>2, <3>1, <3>2, <3>3, Proceeds
<1>5. CASE answer = RightAnswer /\ step = Len(Now.steps)
  <2>1. Record(TRUE)
    <3>1. Passes(answer) /\ step = Len(Now.steps) /\ ~ (step < Len(Now.steps))
        BY <1>1, <1>2, <1>5
    <3> QED
        BY <3>1 DEF Answer, Judge, Record, Abort
  <2>2. ~ (adapter # "fresh" /\ index = 3)
    <3>1. index = 3 => Now = ReminderRemoval
        BY Runs DEF SuiteInv, RunInv, Now
    <3>2. Len(ReminderRemoval.steps) = 2
        BY DEF ReminderRemoval, Scenario
    <3> QED
        BY <1>5, <3>1, <3>2
  <2> QED
      BY <1>1, <1>3, <1>5, <2>1, <2>2, Recorded
<1>6. CASE answer # RightAnswer /\ answer.kind \in {"response", "exception"}
  <2>1. Record(FALSE)
      BY <1>1, <1>2, <1>6 DEF Answer, Judge
  <2> QED
      BY <1>1, <1>3, <1>6, <2>1, Recorded
<1>7. CASE answer # RightAnswer /\ answer.kind \notin {"response", "exception"}
  <2>1. Abort
      BY <1>1, <1>2, <1>7 DEF Answer, Judge
  <2>2. /\ broken' = broken \cup {index}
        /\ \A n \in 1 .. index - 1 : n \in broken' <=> n \in broken
      BY <1>1, <1>3, <1>7
  <2> QED
      BY <1>1, <2>1, <2>2, Aborted
<1> QED
    BY <1>1, <1>4, <1>5, <1>6, <1>7

(* An adapter that mixes controls does not send the second request of the      *)
(* removal scenario as it was asked to.                                        *)
LEMMA StaleControls ==
  ASSUME AdaptersAssumption, SuiteInv, Calling, adapter # "fresh", index = 3, step = 2
  PROVE  Wire # Asked
<1>1. Now = ReminderRemoval
    BY Runs DEF SuiteInv, RunInv, Now
<1>2. Request.cursor = "removal" /\ Request.controls = <<>>
    BY <1>1 DEF Request, ReminderRemoval, Scenario, Step
<1>3. kept.cursor = "removal" /\ kept.controls = [temporary |-> "old"]
    BY DEF SuiteInv, RemovalInv, Calling
<1>4. adapter \in {"merging", "appending"}
    BY DEF SuiteInv, RunInv, AdaptersAssumption
<1>5. Asked = {}
    BY <1>2 DEF Asked
<1>6. DOMAIN kept.controls = {"temporary"}
    BY <1>3
<1>7. "temporary" \in DOMAIN kept.controls /\ "temporary" \notin DOMAIN Request.controls
    BY <1>2, <1>6
<1>8. << "temporary", kept.controls["temporary"] >> \in Wire
    BY <1>2, <1>3, <1>4, <1>7 DEF Wire, NoCursor
<1> QED
    BY <1>5, <1>8

LEMMA SuiteStep ==
  ASSUME AdaptersAssumption
  PROVE  SuiteInv /\ [SuiteNext]_suiteVars => SuiteInv'
<1> SUFFICES ASSUME SuiteInv, [SuiteNext]_suiteVars PROVE SuiteInv'
    OBVIOUS
<1>1. status = "running" => ~interrupted
    BY DEF SuiteInv
<1>2. CASE Build
  <2>1. step' = 1 /\ step' <= Len(Now.steps)
    <3>1. index \in 1 .. Len(selected)
        BY <1>2, Runs DEF Build, Building, SuiteInv, RunInv
    <3>2. Runnable(Now)
        BY <3>1, Runs, ScenariosRunnable DEF SuiteInv, RunInv, Now
    <3> QED
        BY <1>2, <3>2 DEF Runnable, Build
  <2> QED
      BY <1>1, <1>2, <2>1, Proceeds DEF Build, Building
<1>3. CASE BuildFails
    BY <1>1, <1>3, Recorded DEF BuildFails, Building
<1>4. CASE BuildInterrupted
  <2>1. \A n \in 1 .. index - 1 : n # index
      BY Runs DEF SuiteInv, RunInv
  <2> QED
      BY <1>4, <2>1, Aborted DEF BuildInterrupted, Building
<1>5. CASE Honest
  <2> DEFINE answer == IF Wire = Asked THEN RightAnswer ELSE Other
  <2>1. /\ Calling /\ Answer(answer) /\ ~interrupted'
      BY <1>1, <1>5 DEF Honest, Calling, Other
  <2>2. step \in 1 .. Len(Now.steps) /\ Runnable(Now)
    <3>1. index \in 1 .. Len(selected) /\ step \in 1 .. 2 /\ step <= Len(Now.steps)
        BY <2>1, Runs DEF Calling, SuiteInv, RunInv, Now
    <3>2. Runnable(Now)
        BY <3>1, Runs, ScenariosRunnable DEF SuiteInv, RunInv, Now
    <3> QED
        BY <3>1, <3>2 DEF Runnable
  <2>3. ~Passes(Other)
      BY <2>2, OtherFails DEF Other
  <2>4. Passes(RightAnswer)
      BY <2>2, RightAnswerPasses
  <2>5. adapter # "fresh" /\ index = 3 /\ step = 2 => answer # RightAnswer
      BY <2>1, <2>3, <2>4, StaleControls
  <2>6. answer = RightAnswer \/ ~Passes(answer)
      BY <2>3
  <2> HIDE DEF answer
  <2> QED
      BY <2>1, <2>5, <2>6, Judged
<1>6. CASE Misbehave
  <2>1. PICK answer \in WrongAnswers :
              /\ answer # RightAnswer
              /\ answer.kind = "response" /\ ~Now.streaming =>
                    answer.value # RightAnswer.value
              /\ Answer(answer)
              /\ interrupted' = (answer.kind \in {"cancelled", "exit"})
      BY <1>6 DEF Misbehave
  <2>2. Calling
      BY <1>6 DEF Misbehave
  <2>3. step \in 1 .. Len(Now.steps) /\ Runnable(Now)
    <3>1. index \in 1 .. Len(selected) /\ step \in 1 .. 2 /\ step <= Len(Now.steps)
        BY <2>2, Runs DEF Calling, SuiteInv, RunInv, Now
    <3>2. Runnable(Now)
        BY <3>1, Runs, ScenariosRunnable DEF SuiteInv, RunInv, Now
    <3> QED
        BY <3>1, <3>2 DEF Runnable
  <2>4. ~Passes(answer)
      BY <2>1, <2>3, MisbehaviourFails DEF Misbehaviour
  <2> QED
      BY <2>1, <2>2, <2>4, Judged
<1>7. CASE Report
  <2>1. index = Len(selected) + 1 /\ step \in 0 .. 2
      BY <1>7, Runs DEF Report, SuiteInv, RunInv
  <2> QED
      BY <1>1, <1>7, <2>1 DEF Report, SuiteInv, RunInv, VerdictInv, RemovalInv
<1>8. CASE UNCHANGED suiteVars
    BY <1>8 DEF suiteVars, SuiteInv, RunInv, VerdictInv, RemovalInv
<1> QED
    BY <1>2, <1>3, <1>4, <1>5, <1>6, <1>7, <1>8 DEF SuiteNext

(* The invariant holds of every run of the suite, for every set of adapters.   *)
THEOREM SuiteInvariance ==
  ASSUME AdaptersAssumption
  PROVE  SuiteSpec => []SuiteInv
<1> QED
    BY SuiteInitInv, SuiteStep, PTL DEF SuiteSpec

(* run_backend_conformance: a report has one entry per scenario, in order, and *)
(* an entry passed exactly if the provider kept its contract there; an         *)
(* unexpected cancellation leaves no report.                                   *)
THEOREM ReportsAreTrue ==
  ASSUME AdaptersAssumption
  PROVE  SuiteSpec => []ReportIsTrue
<1>1. SuiteInv => ReportIsTrue
  <2> SUFFICES ASSUME SuiteInv PROVE ReportIsTrue
      OBVIOUS
  <2>1. status = "reported" => Len(results) = Len(selected) /\ index - 1 = Len(selected)
      BY Runs DEF SuiteInv, RunInv
  <2>2. DOMAIN results = 1 .. Len(results)
      BY DEF SuiteInv, RunInv
  <2> QED
      BY <2>1, <2>2 DEF SuiteInv, VerdictInv, ReportIsTrue
<1> QED
    BY <1>1, SuiteInvariance, PTL

(* The removal scenario alone is enough to find out an adapter that lets        *)
(* reminders survive a continuation, by merging or by appending them.          *)
THEOREM PassingSuites ==
  ASSUME AdaptersAssumption
  PROVE  SuiteSpec => []PassMeansNoStaleControls
<1>1. SuiteInv => PassMeansNoStaleControls
  <2> SUFFICES ASSUME SuiteInv, status = "reported", adapter # "fresh"
               PROVE  \E n \in DOMAIN results : ~results[n].passed
      BY DEF PassMeansNoStaleControls
  <2>1. Len(selected) \in {6, 7} /\ index = Len(selected) + 1 /\ Len(results) = index - 1
      BY Runs DEF SuiteInv, RunInv
  <2>2. 3 \in broken /\ 3 \in 1 .. index - 1
      BY <2>1 DEF SuiteInv, RemovalInv
  <2>3. 3 \in DOMAIN results /\ ~results[3].passed
      BY <2>1, <2>2 DEF SuiteInv, RunInv, VerdictInv
  <2> QED
      BY <2>3
<1> QED
    BY <1>1, SuiteInvariance, PTL
=============================================================================
