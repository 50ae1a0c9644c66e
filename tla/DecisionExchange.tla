-------------------------- MODULE DecisionExchange --------------------------
(***************************************************************************)
(* One Decide.execute() (models/decisions/model.py) between an application *)
(* that builds a DecisionRequest, a backend that builds answers one by one *)
(* and may make every mistake the value types let it make, and the check   *)
(* of the response against the request.                                    *)
(*                                                                         *)
(* An option is a tagged value, because the code tells the string "true"   *)
(* from the boolean: [tag, text, index] with tag "str" or "bool" for a     *)
(* choice, "level" for a score.  A number is [finite, n]; probabilities    *)
(* are 0 and 1 and whatever is outside their range.                        *)
(***************************************************************************)
EXTENDS Integers, Sequences, FiniteSets

CONSTANTS
    Questions,    \* questions the application tries to ask
    Answers,      \* answers a backend tries to build
    MaxQuestions  \* bound: questions of a request, and answers of a response

Kinds == {"predicate", "choice", "score"}

Values  == [tag : STRING, text : STRING, index : Int]
Numbers == [finite : BOOLEAN, n : Int]

ASSUME DecisionAssumption ==
    /\ Questions \subseteq [name : STRING, kind : Kinds, options : Seq(Values)]
    /\ Answers \subseteq [name : STRING, kind : Kinds \cup {"refusal"}, choice : Values,
                          number : Numbers, confidence : Numbers,
                          weights : Seq([option : Values, p : Numbers])]
    /\ MaxQuestions \in Nat \ {0}

VARIABLES
    stage,      \* "asking", "deciding", "done"
    questions,  \* the questions of the request
    answers,    \* the answers the backend has built
    verdict     \* how execute(), or the constructor of the request, ended

decisionVars == <<stage, questions, answers, verdict>>

DecisionInit == stage = "asking" /\ questions = <<>> /\ answers = <<>> /\ verdict = "none"

-----------------------------------------------------------------------------
(* What the constructors of the value types let through. *)

Distinct(s) == \A i, j \in DOMAIN s : s[i] = s[j] => i = j
Names(s) == [i \in DOMAIN s |-> s[i].name]

IsProbability(x) == x.finite /\ x.n \in 0 .. 1

QuestionBuilds(q) ==
    CASE q.kind = "predicate" -> TRUE
      [] q.kind = "choice"    -> Len(q.options) >= 2 /\ Distinct(q.options)
      [] q.kind = "score"     -> Len(q.options) >= 2

RequestBuilds(qs) ==
    /\ qs # <<>> /\ \A i \in DOMAIN qs : QuestionBuilds(qs[i])
    /\ Distinct(Names(qs))

(* What makes an entry of a distribution a duplicate: a score's index alone. *)
Identities(a) == [i \in DOMAIN a.weights |->
                     IF a.kind = "score" THEN [a.weights[i].option EXCEPT !.text = ""]
                                         ELSE a.weights[i].option]

DistributionBuilds(a) ==
    /\ IsProbability(a.confidence)
    /\ a.weights # <<>> /\ Distinct(Identities(a))
    /\ \A i \in DOMAIN a.weights : IsProbability(a.weights[i].p)

AnswerBuilds(a) ==
    CASE a.kind = "refusal"   -> TRUE
      [] a.kind = "predicate" -> IsProbability(a.number)
      [] a.kind = "choice"    -> DistributionBuilds(a)
      [] a.kind = "score"     -> a.number.finite /\ a.number.n >= 0 /\ DistributionBuilds(a)

ResponseBuilds == answers # <<>> /\ Distinct(Names(answers))

-----------------------------------------------------------------------------
(* DecisionResponse.validate_for *)

Level(q, i) == [tag |-> "level", text |-> q.options[i].text, index |-> i - 1]

(* The options an answer must cover, levels numbered from zero. *)
Declared(q) == IF q.kind = "score" THEN {Level(q, i) : i \in DOMAIN q.options}
                                   ELSE {q.options[i] : i \in DOMAIN q.options}

Covered(a) == {a.weights[i].option : i \in DOMAIN a.weights}

(* Mutant: options are compared without their types. *)
MatchesUntyped(q, a) ==
    \/ a.kind = "refusal"
    \/ /\ a.kind = q.kind
       /\ a.kind # "predicate" =>
              {o.text : o \in Covered(a)} = {o.text : o \in Declared(q)}
       /\ a.kind = "choice" => a.choice.text \in {o.text : o \in Declared(q)}
       /\ a.kind = "score" => a.number.n <= Len(q.options) - 1

(* The body of its loop. *)
MatchesQuestion(q, a) ==
    \/ a.kind = "refusal"
    \/ /\ a.kind = q.kind
       /\ a.kind # "predicate" => Covered(a) = Declared(q)
       /\ a.kind = "choice" => a.choice \in Declared(q)
       /\ a.kind = "score" => a.number.n <= Len(q.options) - 1

ValidFor == /\ Names(answers) = Names(questions)
            /\ \A i \in DOMAIN questions : MatchesQuestion(questions[i], answers[i])

-----------------------------------------------------------------------------
(* The application builds the request, with which the effect starts. *)
Ask(qs) ==
    /\ stage = "asking"
    /\ questions' = qs
    /\ IF RequestBuilds(qs) THEN stage' = "deciding" /\ UNCHANGED verdict
                            ELSE stage' = "done" /\ verdict' = "invalid_request"
    /\ UNCHANGED answers

DecideEnds(how) == stage' = "done" /\ verdict' = how

(* The backend builds one more answer; an error of a constructor leaves it. *)
BuildAnswer(a) ==
    /\ stage = "deciding" /\ Len(answers) < MaxQuestions
    /\ IF AnswerBuilds(a) THEN answers' = Append(answers, a) /\ UNCHANGED <<stage, verdict>>
                          ELSE DecideEnds("invalid_value") /\ UNCHANGED answers
    /\ UNCHANGED questions

(* It builds the response and returns it, and execute() validates it. *)
ReturnDecision ==
    /\ stage = "deciding"
    /\ DecideEnds(IF ~ ResponseBuilds THEN "invalid_value"
                  ELSE IF ValidFor THEN "decided" ELSE "response_error")
    /\ UNCHANGED <<questions, answers>>

(* It returns something that is no response; the answers it built are lost. *)
ReturnOther == /\ stage = "deciding" /\ DecideEnds("response_error")
               /\ answers' = <<>> /\ UNCHANGED questions

(* It raises a ModelError or a cancellation, which execute() does not catch. *)
RaiseFromBackend ==
    /\ stage = "deciding"
    /\ \E how \in {"model_error", "cancelled"} : DecideEnds(how)
    /\ UNCHANGED <<questions, answers>>

Requests == UNION {[1 .. n -> Questions] : n \in 0 .. MaxQuestions}

DecisionNext == \/ \E qs \in Requests : Ask(qs)
                \/ \E a \in Answers : BuildAnswer(a)
                \/ ReturnDecision
                \/ ReturnOther
                \/ RaiseFromBackend

-----------------------------------------------------------------------------
(* Properties. *)

(* What an answer to q is: a distribution that gives every declared value one   *)
(* probability and no other value any, and a choice or a score among them.      *)
Decides(a, q) ==
    LET Weights(o) == {i \in DOMAIN a.weights : a.weights[i].option = o} IN
    CASE q.kind = "predicate" -> a.kind = q.kind /\ a.number.finite /\ a.number.n \in 0 .. 1
      [] q.kind = "choice" ->
            /\ a.kind = q.kind /\ Len(a.weights) = Len(q.options)
            /\ \A i \in DOMAIN q.options : Cardinality(Weights(q.options[i])) = 1
            /\ \E i \in DOMAIN q.options : a.choice = q.options[i]
      [] q.kind = "score" ->
            /\ a.kind = q.kind /\ Len(a.weights) = Len(q.options)
            /\ \A i \in DOMAIN q.options : Cardinality(Weights(Level(q, i))) = 1
            /\ a.number.n \in 0 .. Len(q.options) - 1

AnswerTheRequest ==
    /\ Len(answers) = Len(questions)
    /\ \A i \in DOMAIN questions : \E j \in DOMAIN answers :
          /\ answers[j].name = questions[i].name /\ i = j
          /\ answers[j].kind = "refusal" \/ Decides(answers[j], questions[i])

(* A response reaches the application exactly if it answers the request: one    *)
(* answer or refusal per question, under the question's name, of its kind and   *)
(* over the values it declared, whatever mixture of them a backend builds.      *)
DecisionsAnswerTheRequest ==
    stage = "done" =>
        /\ verdict = "decided" => AnswerTheRequest
        /\ verdict = "response_error" => answers = <<>> \/ ~ AnswerTheRequest
=============================================================================
