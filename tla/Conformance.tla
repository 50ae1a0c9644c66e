----------------------------- MODULE Conformance -----------------------------
(***************************************************************************)
(* run_backend_conformance: the standard scenarios, run one after the      *)
(* other against models that a provider's factory builds.                  *)
(*                                                                         *)
(* The provider is the environment.  An honest adapter passes each request *)
(* to a fake transport, which answers what the scenario expects if, and    *)
(* only if, it is asked exactly what the scenario asks.  An adapter that   *)
(* keeps provider state may mix the controls of an earlier request into a  *)
(* request that continues it.  At every call the adapter may also misbehave.*)
(***************************************************************************)
EXTENDS Naturals, Sequences, FiniteSets, SequencesExt, TLC

CONSTANTS
    Adapters     \* what adapters do with kept controls: "fresh", "merging", "appending"

ASSUME AdaptersAssumption == Adapters \subseteq {"fresh", "merging", "appending"}

VARIABLES
    adapter,     \* how the provider treats the controls it kept
    selected,    \* the scenarios of this run
    index,       \* the scenario being run
    step,        \* its call being made; 0 while the model is built
    kept,        \* what the provider kept: [cursor, controls]
    results,     \* the results so far: [case, passed]
    status,      \* "running", "reported" or "aborted"
    broken,      \* scenarios in which the provider broke its contract
    interrupted  \* a cancellation or exit that no scenario asked for was raised

suiteVars == <<adapter, selected, index, step, kept, results, status, broken, interrupted>>

-----------------------------------------------------------------------------
(* The standard scenarios.  A step is [controls, cursor, response]: the     *)
(* reminders of the request by key, the continuation it carries, and the    *)
(* expected response with the continuation that one hands out.              *)

NoCursor == "none"

Response(id, cursor) == [id |-> id, role |-> "assistant", cursor |-> cursor]

Step(controls, cursor, response) ==
    [controls |-> controls, cursor |-> cursor, response |-> response]

Scenario(case, steps, error, streaming) ==
    [case |-> case, steps |-> steps, error |-> error, streaming |-> streaming]

BasicResponse ==
    Scenario("basic_response", << Step(<<>>, NoCursor, Response("basic", NoCursor)) >>,
             "none", FALSE)

RequestSemantics ==
    Scenario("request_semantics",
             << Step([concise |-> "text", format |-> "text", fallback |-> "text"],
                     "request-cursor", Response("semantics", "response-cursor")) >>,
             "none", FALSE)

Streaming ==
    Scenario("streaming", << Step(<<>>, NoCursor, Response("stream", NoCursor)) >>,
             "none", TRUE)

ErrorScenario(case, error) ==
    Scenario(case, << Step(<<>>, NoCursor, Response("none", NoCursor)) >>, error, FALSE)

(* Mutant: the second request does not continue the first. *)
RemovalStartingAfresh ==
    Scenario("reminder_removal",
             << Step([temporary |-> "old"], NoCursor, Response("removal-1", "removal")),
                Step(<<>>, NoCursor, Response("removal-2", NoCursor)) >>,
             "none", FALSE)

ReminderRemoval ==
    Scenario("reminder_removal",
             << Step([temporary |-> "old"], NoCursor, Response("removal-1", "removal")),
                Step(<<>>, "removal", Response("removal-2", NoCursor)) >>,
             "none", FALSE)

ReminderReplacement ==
    Scenario("reminder_replacement",
             << Step([persistent |-> "old"], NoCursor, Response("replacement-1", "replacement")),
                Step([persistent |-> "new"], "replacement", Response("replacement-2", NoCursor)) >>,
             "none", FALSE)

(* _standard_scenarios *)
Standard == <<BasicResponse, RequestSemantics, ReminderRemoval, ReminderReplacement,
              Streaming, ErrorScenario("model_error", "exception"),
              ErrorScenario("cancellation", "cancelled")>>

(* include_streaming=False *)
WithoutStreaming == <<BasicResponse, RequestSemantics, ReminderRemoval, ReminderReplacement,
                      ErrorScenario("model_error", "exception"),
                      ErrorScenario("cancellation", "cancelled")>>

(* BackendConformanceScenario.__post_init__ *)
Constructible(scenario) ==
    /\ scenario.streaming => scenario.error = "none"
    /\ Len(scenario.steps) > 1 => scenario.error = "none" /\ ~scenario.streaming

ASSUME ScenariosAreConstructible ==
    /\ \A n \in DOMAIN Standard : Constructible(Standard[n])
    /\ WithoutStreaming = SelectSeq(Standard, LAMBDA s : s.case # "streaming")

-----------------------------------------------------------------------------
(* The provider.                                                            *)

Now == selected[index]
Request == Now.steps[step]

(* The controls of the request as they reach the transport, as a set. *)
Wire ==
    LET own == {<<key, Request.controls[key]>> : key \in DOMAIN Request.controls}
        continued == Request.cursor # NoCursor /\ Request.cursor = kept.cursor
        old == {<<key, kept.controls[key]>> : key \in DOMAIN kept.controls}
    IN CASE ~continued \/ adapter = "fresh" -> own
         [] continued /\ adapter = "appending" -> own \cup old
         [] continued /\ adapter = "merging" ->
                own \cup {control \in old : control[1] \notin DOMAIN Request.controls}

Asked == {<<key, Request.controls[key]>> : key \in DOMAIN Request.controls}

CompleteStream == <<"started", "delta", "completed">>

(* What a call gives back: a response, an exception or a cancellation, and the *)
(* events that Generate forwarded on the way.  What is raised may be the very  *)
(* object the scenario supplied.                                               *)
Returns(response, events) ==
    [kind |-> "response", value |-> response, supplied |-> FALSE, events |-> events]

Raises(kind, supplied) ==
    [kind |-> kind, value |-> Response("none", NoCursor), supplied |-> supplied,
     events |-> <<>>]

RightAnswer ==
    CASE Now.error = "none" ->
             Returns(Request.response, IF Now.streaming THEN CompleteStream ELSE <<>>)
      [] OTHER -> Raises(Now.error, TRUE)

(* A response to another request, a malformed one, a stream Generate lets pass  *)
(* without its start, its end or its deltas, an error that is wrapped or of the *)
(* adapter's own, a cancellation of the task, an exit.                          *)
WrongAnswers ==
    {Returns(Response("other", NoCursor), e) : e \in {<<>>, CompleteStream}}
        \cup {Returns([Request.response EXCEPT !.role = "user"], CompleteStream)}
        \cup {Returns(Request.response, e) :
              e \in {<<>>, <<"started", "completed">>, <<"delta", "completed">>,
                     <<"started", "delta">>}}
        \cup {Raises("exception", FALSE), Raises("cancelled", FALSE),
              Raises("exit", FALSE)}

-----------------------------------------------------------------------------
(* The runner.                                                              *)

SuiteInit == /\ adapter \in Adapters
             /\ selected \in {Standard, WithoutStreaming}
             /\ index = 1
             /\ step = 0
             /\ kept = [cursor |-> NoCursor, controls |-> <<>>]
             /\ results = <<>>
             /\ status = "running"
             /\ broken = {}
             /\ interrupted = FALSE

(* `except Exception`, or `else`: one result, and the next scenario. *)
Record(passed) == /\ results' = Append(results, [case |-> Now.case, passed |-> passed])
                  /\ index' = index + 1
                  /\ step' = 0
                  /\ UNCHANGED status

(* No `except` of the runner catches a cancellation or exit: there is no report. *)
Abort == /\ status' = "aborted"
         /\ UNCHANGED <<results, index, step>>

(* _assert_complete_stream *)
AssertCompleteStream(events) ==
    /\ events # <<>> /\ Head(events) = "started" /\ Last(events) = "completed"
    /\ \E n \in 2 .. Len(events) - 1 : events[n] = "delta"

(* Mutant: an error of the expected type is enough. *)
PassesByType(answer) ==
    IF Now.error # "none" THEN answer.kind = Now.error
    ELSE /\ answer.kind = "response"
         /\ answer.value = Request.response
         /\ Now.streaming => AssertCompleteStream(answer.events)

(* _assert_expected_error, or the checks of _run_scenario in their order; only *)
(* the first call's events are looked at, follow-up steps have no callback.    *)
Passes(answer) ==
    IF Now.error # "none" THEN answer.kind = Now.error /\ answer.supplied
    ELSE /\ answer.kind = "response"
         /\ answer.value.role = "assistant"
         /\ answer.value = Request.response
         /\ Now.streaming => AssertCompleteStream(answer.events)

Building == status = "running" /\ index <= Len(selected) /\ step = 0
Calling  == status = "running" /\ step > 0

(* _build_model: a model of the name that was asked for. *)
Build == /\ Building
         /\ step' = 1
         /\ kept' = [cursor |-> NoCursor, controls |-> <<>>]
         /\ UNCHANGED <<adapter, selected, index, results, status, broken, interrupted>>

(* The factory raises, returns no Model, or one of another name. *)
BuildFails == /\ Building
              /\ broken' = broken \cup {index}
              /\ Record(FALSE)
              /\ UNCHANGED <<adapter, selected, kept, interrupted>>

(* The task is cancelled while it waits for the factory. *)
BuildInterrupted == /\ Building
                    /\ interrupted' = TRUE
                    /\ broken' = broken \cup {index}
                    /\ Abort
                    /\ UNCHANGED <<adapter, selected, kept>>

(* A call has answered: the next step of the scenario, or its verdict. *)
Judge(answer) ==
    CASE Passes(answer) /\ step < Len(Now.steps) ->
             step' = step + 1 /\ UNCHANGED <<results, index, status>>
      [] Passes(answer) /\ step = Len(Now.steps) -> Record(TRUE)
      [] ~Passes(answer) /\ answer.kind \in {"response", "exception"} -> Record(FALSE)
      [] OTHER -> Abort

(* What a provider keeps of an answered request, under the continuation it     *)
(* hands out.                                                                  *)
Keep(answer) ==
    kept' = IF answer.kind = "response" /\ answer.value.cursor # NoCursor
            THEN [cursor |-> answer.value.cursor, controls |-> Request.controls] ELSE kept

Answer(answer) == /\ Judge(answer)
                  /\ Keep(answer)
                  /\ broken' = IF answer = RightAnswer THEN broken ELSE broken \cup {index}
                  /\ UNCHANGED <<adapter, selected>>

(* The transport answers the request it was sent. *)
Honest == /\ Calling
          /\ Answer(IF Wire = Asked THEN RightAnswer
                    ELSE Returns(Response("other", NoCursor), <<>>))
          /\ UNCHANGED interrupted

Misbehave == /\ Calling
             /\ \E answer \in WrongAnswers :
                   /\ answer # RightAnswer
                   /\ answer.kind = "response" /\ ~Now.streaming =>
                         answer.value # RightAnswer.value
                   /\ Answer(answer)
                   /\ interrupted' = (answer.kind \in {"cancelled", "exit"})

Report == /\ status = "running" /\ index > Len(selected)
          /\ status' = "reported"
          /\ UNCHANGED <<adapter, selected, index, step, kept, results, broken, interrupted>>

SuiteNext ==
    Build \/ BuildFails \/ BuildInterrupted \/ Honest \/ Misbehave \/ Report

SuiteSpec == SuiteInit /\ [][SuiteNext]_suiteVars

-----------------------------------------------------------------------------
(* A report has one entry per selected scenario, in order, and an entry passed *)
(* exactly when the provider kept its contract in that scenario: the supplied  *)
(* error or cancellation unwrapped, the expected response, a complete stream,  *)
(* nothing left of an earlier request.  A cancellation nobody asked for is     *)
(* never an entry: it leaves no report.                                        *)
ReportIsTrue ==
    /\ interrupted => status = "aborted"
    /\ status = "reported" =>
          /\ Len(results) = Len(selected)
          /\ \A n \in DOMAIN results :
                /\ results[n].case = selected[n].case
                /\ results[n].passed <=> n \notin broken

(* An adapter that lets reminders survive a continuation, whether it forgets   *)
(* to remove them or to replace them, never passes every scenario.             *)
PassMeansNoStaleControls ==
    status = "reported" /\ (\A n \in DOMAIN results : results[n].passed) => adapter = "fresh"
=============================================================================
