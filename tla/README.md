# Purrcept Core: TLA+ models, model checking and proofs

Purrcept Core runs *agent flows*: Python generators that yield effects and
receive their results. The library has two stateful centres: the **driver**,
which advances one flow and reports what happens to an observer, and the
**conversation**, which runs a model/tool loop as a transaction on committed
history. Everything else is either a boundary (executors, middleware, sinks,
backends, tools) or an immutable value. This directory models the centres and
the boundaries that have behaviour of their own.

All paths below are relative to `src/src/purrcept_core/` unless they start with
`docs/`, `adr/` or `tests/`.

## 1. Inventory

| part | state it keeps | operations | talks to | what makes it correct |
|---|---|---|---|---|
| agent driver (`driver.py`) | locals of one `run()`: state, step index, the exception in flight; one channel (`active`, latched error) per effect | `run`, `report_progress`, `finish_progress`, `_emit` | flow (`start/send/throw/close`), executor (`execute`), sink (`emit`), clock and ids | one outcome per effect, exactly one close on abnormal exit, the observer and the caller are told the same, cancellation stays a cancellation |
| run adapter (`run.py`) | `_state` of the generator | `start`, `send`, `throw`, `close` | driver, flow | linear lifecycle; closing is idempotent |
| events and sinks (`events.py`) | none (order only) | `emit` | driver | order of events, nothing after a failed dispatch, isolation by `SafeEventSink`, what each observer of a composite hears is a run of its own |
| executors (`executor.py`) | registered handlers | `execute` | driver, effects | nearest handler in the MRO, then the fallback |
| middleware (`middleware.py`) | attempt counter, deadline | `execute` | asyncio timeouts and task cancellation | bounded attempts, cancellation and dispatch errors are never retried |
| Generate and the stream (`models/effects.py`, `backend.py`, `streaming.py`) | `_seen_event`, `_completed_event`, `_protocol_error` | the emit callback, `validate_response` | backend, progress channel | stream order, completion only after the matching response |
| conversation (`models/conversation.py`) | `_state`, `_reminder_state`, `_busy` | `ask`, `snapshot`, `restore`, `fork`, `clear*`, `reset`, `remind`, `remove*` | flows it hands out, application callbacks | a turn is a transaction; one turn at a time; reminders settle on every exit |
| model/tool loop (`models/loop.py`) | working transcript, continuation, round | `run_model_turn`, `_poll_input` | model, tools, input effect, context policy, prompt session | each request well formed, tools only when deliverable, input never reordered or lost within the turn |
| prompt session and compiler (`models/prompt/compiler.py`, `reminders.py`, `reminder_sources.py`) | base reminders, remaining reminders | `begin`, `compile` | sources, token counter, trace sink | scopes: TURN expires, NEXT_REQUEST is consumed once |
| context policies (`models/context_policy.py`) | none | `prepare`, `count` | loop | whole turns only, the current turn is never cut |
| tools (`models/tools/`) | the registry of a `ToolSet`; containers on the current path of an encoding | definition, `get`, `invoke`, `execute`, `encode_tool_result` | loop, worker threads, progress channel | expected mistakes become results, the rest follows the error policy; the callable gets what its signature declares; exactly the JSON values encode |
| prompt templates, render policies, library (`models/prompt/`) | none of their own (frozen copies of what the caller bound) | `with_values`, `without_values`, `clear_values`, `render`, `render_partial`, `apply`, `resolve` | application, prompt session | the last binding of a field wins, a value is never parsed as template text, no decoration around nothing |
| decisions (`models/decisions/`) | none | construction of requests and answers, `Decide.execute`, `validate_for` | backend | a response reaches the application only if it answers the request |
| conformance (`models/conformance.py`) | the results so far | `run_backend_conformance`, the standard scenarios | backend under test | a report is true: a pass means the contract was kept; an interruption leaves no report |
| value types (messages, content, requests, responses, settings, caching, errors), `testing.py` | immutable; scaffolding | validation | all | not modelled: no behaviour over time |

What is hard here: exceptions of four families (ordinary, event dispatch,
cancellation, other `BaseException`) can come out of *every* call and each
selects another unwinding; an effect may swallow or replace an exception; the
progress callback outlives its effect and may be called by other coroutines or
threads; generators may be advanced in any interleaving, closed at any yield,
and application callbacks run in the middle of a turn.

## 2. The modules

| module | models | kind |
|---|---|---|
| `EventStream` | what a run promises to an event sink | abstract specification |
| `AgentDriver` | `AgentDriver.run`, `GeneratorRun`, the progress channels | implements `EventStream` |
| `EventSinks` | every nesting of the four sinks under one driver | uses `EventStream` as its driver; each observer implements it again |
| `EffectExecution` | `MiddlewareExecutor` with timeout and retry layers, in one asyncio task | component |
| `ToolExecution` | `ToolSet`, `DispatchExecutor`, `InvokeTool.execute`, `FunctionTool.invoke`, worker threads, result encoding | component |
| `GenerateStream` | `Generate.execute` and `_StreamForwarder` over an arbitrary backend | component |
| `DecisionExchange` | `Decide.execute` and `validate_for` over an arbitrary backend | component |
| `Reminders` | `ReminderState` and the lifetime rules of a prompt session, as operators | used by the next three |
| `ConversationStore` | what a conversation promises about its state: turns are transactions | abstract specification |
| `Conversation` | the facade, its flows and the model/tool loop | implements `ConversationStore` |
| `TurnRequests` | what a turn relies on when it asks for a request: `compile()` is one step | abstract specification |
| `PromptSession` | `TurnPromptSession.compile`, context policies, request budget, tracing | implements `TurnRequests`; the inside of `Conversation!Compile` |
| `PromptTemplates` | `PromptTemplate`, `RenderPolicy`, `PromptLibrary` | component |
| `Prompts` | a session or templates, whichever is used | composes the two above |
| `Conformance` | `run_backend_conformance` with its standard scenarios | component |
| `ModelEffects` | what is done with a backend: a `Generate`, a `Decide` or the suite | composes `GenerateStream`, `DecisionExchange`, `Conformance` |
| `*_proof` | `AgentDriver`, `EventSinks`, `EffectExecution`, `ToolExecution`, `ModelEffects`, `Reminders`, `Conversation`, `PromptSession` | theorems and proofs; those about `Conformance` are in `ModelEffects_proof`, those about `PromptTemplates` and `Prompts` in `PromptSession_proof` |
| `MC*` | the constant values TLC needs; one `.cfg` per question | |

The layers meet where one module's step is another's component: one `_emit` of
`AgentDriver` is a walk of `EventSinks` from `Emit` to the end of `emit()`; one
`ExecuteEnds` of `AgentDriver` is a whole `EffectExecution` behaviour; one
`InvokeTool` of `Conversation` is a `ToolExecution` from `Request` to its
outcome; one `Generate` is a whole `GenerateStream` behaviour; one `Compile` is
the `prepare` ... `consume` part of `PromptSession`. The outer module lets the
inner one answer in every way the inner one can, so each is checked against an
environment at least as free as the real one. Two of these joints are formal.
`EventStream`: `AgentDriver` implements it, `EventSinks` takes it for its driver.
`TurnRequests`: its `Compile` is that of `Conversation`, for one conversation and
without continuations, and `PromptSession` implements it. `Conversation` and
`PromptSession` also share the reminder operators.

Every module treats code it does not own (agents, sinks, backends, tools,
sources, counters) as an environment that may return or raise at each call.

### AgentDriver

`pc` names the next call the driver makes, and an action is the code between
two such calls; this is the granularity at which another exception can arrive.
`gen` is `GeneratorRun._state`, `state` the last `RunState`, `step` is
`step_index`, `err` the exception in flight. `active[k]` and `latched[k]` are
the closure variables `active` and `dispatch_error` of effect *k*'s progress
channel: one pair per effect, because a coroutine may keep the context of an
old effect. The exceptions are four kinds, one per `except` clause.
`primary`, `closes`, `last`, `result` and `delivered` are history variables;
`primary` is the exception that stopped the run, and where `execute()` was
cancelled or exited that is its exception even if the latch then replaces it.

| code (`driver.py`) | action |
|---|---|
| ids, metadata and clock before the first event | `Preflight` |
| the three `_emit` calls of the body, `RunSucceeded` | `EmitRunStarted`, `EmitEffectStarted`, `EmitEffectSucceeded`, `EmitEffectFailed`, `EmitRunSucceeded` |
| `agent_run.start / send / throw` with `GeneratorRun._advance` | `Start`, `Resume` |
| `execute()`, `finish_progress()` and classification | `ExecuteEnds` |
| `report_progress` in the loop; in a worker thread | `Report`; `ThreadCheck` then `ThreadEmit` |
| `except CancelledError` | `CloseCancelled`, `EmitRunCancelled` |
| `except EventDispatchError`, `except BaseException` | `CloseSilently` |
| `except Exception` with its `finally` | `EmitRunFailed`, `CloseFailed` |

`Spec` has reports in the event loop only; `ThreadedSpec` adds worker threads,
for which `report_progress` is a test and a separate emission.

Left out: elapsed times, ids and metadata (no decision depends on them), notes
attached to exceptions, and a sink that calls `progress()` re-entrantly from
`emit()`. One worker thread per effect may be between its test and its
emission.

### EventSinks

The sinks are numbered in preorder, each with the last sink inside it, so any
tree is a constant. `offered` is the event of the latest `emit()` call; `at` is
the sink called next. `Descend` is a composite or safe sink calling its first
inner one, `Accept` and `Refuse` a callback (`CallbackEventSink.emit`, an
awaitable or a value returned counts as raising). An exception that leaves a
sink goes to the nearest `SafeEventSink` around it (`guard`, `Contain`,
`OnErrorFails`), else to the driver; cancellations and other `BaseException`
pass every sink. `heard[l]` is history: what observer *l* last got and did.

### EffectExecution

`level` is the depth in the chain of layers, `pc` the direction. `cancels`,
`pending` and `baseline[i]` are the counters of `asyncio.Task` and
`asyncio.timeout` (external code, modelled from how `middleware.py` uses it):
a timeout turns a `CancelledError` into `TimeoutError` only if the number of
requests not undone has fallen back to what it was on entry. The effect may
answer, fail with an error the retry policy selects or refuses, hang, fail to
report progress and say so or raise something else instead, and take any time
to clean up after a cancellation. The
effect does re-raise a cancellation it is given; one that swallows it would
break any claim about deadlines, as in asyncio generally. Middleware written by
the application is left out.

### GenerateStream

`seen`, `completed`, `violation` are the fields of `_StreamForwarder`;
`channel` is the driver's progress channel of this effect. The backend is
arbitrary: it emits anything, ignores callback errors, keeps the callback after
it returned, returns or raises anything. `emit_stream_events=False`, where the
callback discards everything, is left out.

### DecisionExchange, ModelEffects

`Ask` builds a request (or its constructor refuses), `BuildAnswer` is one
constructor call of the backend, `ReturnDecision`, `ReturnOther` and
`RaiseFromBackend` end it. Options are tagged values because the code compares
values with their types: the text `"true"` is not the boolean. Scores name their
levels by text and index. The two effects and the suite share no state;
`ModelEffects` lets the application perform one of them.

### ToolExecution

`DefineTool` and `SetBuilt` are `ToolSet.__init__` over `ArgumentAdapter`: the
first parameter that cannot be exposed rejects the set. `Handler` is the
selection along the MRO through a chain of fallbacks. `Request` starts an
`InvokeTool` with the tool the model's name resolves to, or with one resolved
before; `UnknownTool`, `InvalidArguments`, `StartCallable` are the branches of
`execute` and `invoke`. The callable runs on the loop, in a thread
(`sync_policy="thread"`) or as an awaitable it returned, may lose a progress
event (`LoseProgress`), return, or raise (`Policy` is the error policy with what
`InvokeTool.execute` adds). `CancelWait` and `CancelLands` cancel the wait, not
the worker, which stays in `workers` until `WorkerEnds`. A returned value is a
heap of nodes that may share and may be cyclic; `Convertible` is `_to_json_value`
with its set of active containers.

Of annotations only what decides acceptance is kept; the depth limit of Python
is left out (a value nested too deep raises `RecursionError`, which the code
does not turn into an encoding error).

### Conversation

`history[c]`, `reminders[c]`, `busy[c]` are `_state`, `_reminder_state`,
`_busy`; `turn[f]` holds the locals of `_ask_flow`, `run_model_turn` and of the
prompt session; `pc[f]` is the yield the generator is suspended at. A message
is a role and a number: that is all the loop's decisions depend on. The
continuation is opaque in the code as well; its identity is the message it came
with. Between two advancements anything else may happen: another flow of the
same facade advances, input arrives, the facade is edited, forked or restored.
`Abort` is every exception raised in the flow or thrown into it, and `close()`.

`Compile` is atomic here and may cut any number of whole old turns, which
covers every context policy and budget. `SendsContinuation` is the continuation
policy. `BeginFails` lets `TurnPromptSession.begin` raise.

### PromptSession

One turn after another of one conversation, with compile() as single steps:
`Prepare` (policy), `Resolve` (one source), `CompileCandidate`, `CountFits` or
`Trim`, `Trace`, `Consume`. A message is its position in the transcript and a
reminder's text the number of its registration, so a projection records the
very history it was made from. The three context policies are written with
their boundary arithmetic; their counter gives one token a message, whereas the
request counter answers anything, so every sequence of trims occurs. Priorities,
placements and hashes, which only order and describe what is sent, are left
out. `over`, `fitting`, `traced` and `owed` are history.

### PromptTemplates

`source` is one template string and `policies` its policies. `mapping` and
`object` belong to the caller, who keeps and changes them (`MutateMapping`,
`MutateObject`); whether a template is affected is decided by where the code
copies. `templates` are the objects made so far, each with the operations it was
made by (history). A policy chain maps a value to a text; only the first
transform sees the value itself. `Prompts` puts templates beside sessions, one of
which is used: a session takes a text as it is, so they share no state.

### Conformance

`index` and `step` are the scenario and the call in it, `results` what the
runner has appended. The provider is honest, or at any call misbehaves in one of
the ways a scenario is meant to catch; besides, a stateful `adapter` may keep the
controls of a request (`kept`) and mix them into the request that continues it.
The transport answers an honest adapter as expected if and only if it is asked
what the scenario asks. `broken` and `interrupted` are history.

## 3. Runs

On two workers `conversation` and `prompts` take between one and two minutes, the
others half a minute at most. Deadlock checking is off because every system stops:
a run, an effect, a generation, a report and a bounded sequence of calls or turns
end.

| run | question | states |
|---|---|---|
| `agent_driver` | one run, every call raising every kind of exception | 3 966 |
| `late_progress` (violation) | can a thread's progress event arrive after its effect? | |
| `latched_cancellation` (violation) | does a cancellation stay the primary exception after progress was lost? | |
| `event_sinks` | observers before, inside and after nested guards, each raising anything at any event | 42 374 |
| `effect_execution` | five chains, deadlines and two cancellations at any await | 2 112 |
| `hidden_dispatch_failure` (violation) | is an effect executed again after it hid a lost progress event? | |
| `tool_execution` | two calls of tools of every signature, policy and form, and every returned heap of three nodes | 1 272 994 |
| `nested_tool_error` (violation) | does every exception of a callable follow the tool's error policy? | |
| `model_effects` | every sequence of four stream events, any response; every two answers to every two questions; the standard scenarios against three kinds of adapter, misbehaving or interrupted at any call | 71 790 |
| `conversation` | two flows on two facades, input at any time, checkpoints, forks and edits between turns | 443 144 |
| `begin_leaves_busy` (violation) | does the facade become idle if the session cannot open? | |
| `prompts` | three turns, five policies, budget, two sources, four reminder shapes; two templates and a library, made, derived and rendered while the caller changes what it bound | 435 642 |

### What the passing runs show

* **Driver.** No result reaches the agent for an effect whose progress was not
  dispatched, whether the effect swallowed the error, replaced it, or a kept
  context failed later (`ResultsAreObserved`). Every abnormal exit closes the run
  exactly once (`ClosedOnAbnormalExit`). The exception that stopped the run
  reaches the caller, whatever `close()` raises, but for three replacements that
  `PrimaryErrorSurvives` lists: `RunFailed` cannot be announced; the announcement
  of `RunCancelled` ends in something other than an `EventDispatchError`; or the
  cancelled effect had lost a progress event (`latched_cancellation` is that case
  against the documentation). What the observer was last told is what the caller
  got (`ObserverAgreesWithCaller`), and the events are those `EventStream` allows
  (`EventOrder`).
* **Sinks.** Each observer outside the guards hears a legal event stream of its
  own, whatever its siblings do (`ObserversHearTheRun`, a refinement of
  `EventStream` per observer); an `emit()` that returned was accepted by all of
  them (`AcceptedByAll`): partial delivery is always reported. Once one of them is
  lost, no observer anywhere hears anything more (`NoneOutlivesTheLost`).
* **Middleware.** An external cancellation is never turned into a timeout or a
  result, whatever deadlines fired before the task woke (`CancellationWins`);
  a retry layer stops once the task is cancelled or an outer deadline fired
  (`NoRetryOnceStopped`); with a deadline anywhere, `execute()` ends though
  the effect hangs (`ExecutionEnds`). An `EventDispatchError` that reaches the
  layers ends `execute()`: no policy retries it and no deadline or cancellation
  replaces it (`DispatchErrorIsFinal`). An effect that hides it is executed again
  (`hidden_dispatch_failure`, section 5).
* **Tools.** The model is told of an error only when it was wrong itself, or the
  callable raised an ordinary exception its author chose to return, or one of its
  own calls had wrong arguments (`nested_tool_error`: that one does not follow the
  policy); a cancellation, an exit and a lost progress event never become a
  message (`ErrorResultsAreExpected`). A callable starts
  with exactly its signature's parameters, the context under the one name the
  model can neither see nor set (`StartsAsDeclared`). A value encodes exactly
  if it is a finite JSON tree, sharing allowed; the reference is the least set
  that contains the value and the items of what it contains (`Reached`): no bad
  part in it and no cycle (`EncodesExactlyJson`).
* **Stream.** Observers see a well-formed prefix of what the backend emitted;
  a completion is shown only with the response `generate()` returned; no
  response is accepted from a backend that broke the protocol.
* **Decisions.** A response reaches the application exactly if it gives every
  question, in order, a refusal or an answer of its kind over the declared values
  (`DecisionsAnswerTheRequest`), stated without `validate_for`'s comparisons.
* **Conversation.** At most one advanced flow per facade, which is busy as long as
  there is one (`OneFlow`; that it is busy no longer than that fails if a prompt
  session cannot be opened, `begin_leaves_busy`); a turn ends; it
  extends the state that is still committed; requests answer every tool call in
  order and contain the turn in progress as a whole; no input taken is lost or
  reordered within a turn; no continuation outlives the assistant message it came
  with; reminders settle on every exit; all of it implements `ConversationStore`.
* **Prompt session.** A NEXT_REQUEST reminder is in exactly one request, the first
  that generation is asked for, and survives every earlier failure; scoped
  reminders are in every request they are for; every projection was made from the
  history it is sent with, also after trimming; what is sent is the longest
  whole-turn history the policy and the budget allow and is the request that was
  counted (`LongestHistory`), what is traced as consumed was in it
  (`NextRequestOnce`). To the turn `compile()` is one step, and it ends
  (`CompileIsOneStep`): whatever sources and counters raise and however often the
  candidate is trimmed, the session of the turn changes only in the step that
  returns a request, and the request is the working transcript from one of its
  boundaries on.
* **Templates.** For every field the last operation on it decides, whatever the
  caller did to its mapping meanwhile (`LastBindingWins`, against the whole
  history of a template); a text contains what literals and policies give and
  nothing a second substitution would add (`ValuesAreNeverTemplates`); titles and
  wrappers appear only around words (`NoOrphanDecoration`).
* **Conformance.** A report has one entry per scenario, passed exactly if the
  provider kept its contract there, and an interruption leaves no report
  (`ReportIsTrue`). An adapter that lets reminders outlive their request, by
  forgetting to remove or to replace them, never passes all (`PassMeansNoStaleControls`).

### Bounds, and why they are enough

* `MaxSteps = 3`: the driver's loop keeps no more than the current effect, so a
  first, a middle and a last effect show every transition; the third also lets
  a context be kept across a whole later effect. The theorems are for every bound.
* `MaxAttempts = 2`, two external cancellations, chains of up to three layers: one
  attempt that fails and one that is the last; a deadline outside, inside and
  between retries; a cancellation before and after a deadline fires.
  `MaxExecutions` is the product of the attempts along the chain; `executions` is
  a history counter that stops one above its bound, so that exceeding it shows.
* `MaxEmits = 4`, two responses: the shortest protocol (start, delta,
  completion) and one illegal event anywhere in it, or a late one. Two questions
  and two answers: a swapped, a missing and a doubled name, options equal as text.
* The tree of `EventSinks` has an observer before, between and after two nested
  guards, one with and one without `on_error`, and a null sink. `MaxEffects = 2`:
  an event of the first effect can be missed or kept during the second.
* `MaxCalls = 2` lets a worker of a cancelled call live on during the next one.
  Signatures have at most two parameters: every declaration alone, before an
  ordinary one and before the context. Three heap nodes with two items each
  hold a shared leaf, a self-loop, a cycle through another node and a diamond.
* `MaxTemplates = 2`: a template and one derived from it, or two of one name.
  Values include an empty one, blanks, a list with blank items, an object whose
  text changes, and a text that looks like a field.
* `Conformance` runs the standard scenarios themselves, with and without streaming.
* Two flows, two facades, two rounds, two calls, three user messages: a refused
  flow beside an active one, input before a request and between a response and its
  tool results, results in order, and the round limit reached with calls, with
  input and with neither. Two edits of an idle facade take the place of one user
  message (`InputsLeft`, `EditsLeft`): snapshot then restore, register then remove,
  fork then diverge, each around a turn of two messages.
* `PromptSession`: three turns give a window of one turn something to drop and
  to keep; a budget of two messages rejects a second round, one of five keeps one
  short turn; two sources and one key give conflicts between sources and with
  stored reminders; one preloaded message makes the first boundary differ from
  the first message. Two registrations allow a keyed reminder to be replaced.

Symmetry is not used: flows and facades are few, and liveness is checked in the
same runs.

### Fairness

* `EventSinks`, `ToolExecution`, `ModelEffects`, `PromptTemplates`: none; their
  properties are safety.
* `AgentDriver`: `WF(DriverStep)`. The event loop runs the task, and every
  `execute()` ends, which is a condition on the effect: the driver has no
  deadline. No property claims that a run ends; the flow decides that.
* `EffectExecution`: `WF(TaskStep)` (the loop runs the task; a cleanup ends) and
  `WF(Expire)` (the loop runs its timers). No fairness for the effect's answer.
* `Conversation`: `WF(TurnStep(f))` for each flow: a driver advances a flow
  until it ends. Without it a generator that is merely abandoned keeps the
  facade busy, which is what the code does.
* `PromptSession`: `WF(CompileStep)`; compile is straight-line synchronous code
  between two yields.

## 4. Proofs

Each proof module states an inductive invariant `IInv` of its component, proves
that it holds initially and that every action keeps it, and derives the
properties (`Reminders_proof` has lemmas only). They assume the named assumptions
on constants, which TLC evaluates in every run, and what the table states:

* `SeedsOK`, every preloaded history is well formed: it answers its tool calls,
  its boundaries are where turns start, its continuation is that of its last
  response. `Conversation`'s constructor takes a history as it is, so this is a
  condition on the application. Without preloaded histories it is true.
* *closed* seeds: no preloaded history has messages behind its last boundary. The
  second observation of section 5 is what happens otherwise.
* `~ BeginFails`: the case of `begin_leaves_busy`.
* `ToolsAssumption` contains that the parameters of a callable have distinct names,
  which is Python's syntax, and that a returned value is a finite heap: leaves
  and containers, with the nodes a container refers to. `DecisionAssumption`
  contains that labels, values and probabilities are of the types the value
  classes require.
* `TemplatesAssumption`: what the caller binds are the four kinds of value the
  modelled policies distinguish, user texts hold no decoration of their own, and
  policies are chains of the built-in ones, in any order and of any length.
* `AdaptersAssumption`: an adapter keeps no controls, merges or appends them.

| theorem | specification | says, for every value of the constants |
|---|---|---|
| `AgentDriver_proof!TypeCorrect` | `Spec` | type invariant |
| `AgentResultsObserved` | `Spec` | no result of an effect whose progress was lost |
| `ObserverCallerAgreement` | `Spec` | the observer and the caller are told the same |
| `AbnormalExitCloses`, `PrimarySurvives`, `LifecycleIsLinear` | `ThreadedSpec` | closing, which exception the caller gets and the generator's lifecycle, with worker threads reporting at any time |
| `ImplementsEventStream`, `SilentAfterFailure` | `Spec` | the refinement of `EventStream`; a failed dispatch is final |
| `EventSinks_proof!TypeCorrect`, `DeliveryIsComplete`, `SilenceAfterLoss` | `Spec` | complete delivery, and silence after a loss, in every tree of sinks |
| `EventSinks_proof!EachHearsALegalRun` | `Spec` | each unguarded observer's own refinement of `EventStream`, in every tree |
| `EffectExecution_proof!CancellationsWin`, `StoppedLayersStayStopped` | `Spec` | an external cancellation is the outcome, and no layer retries after it, in chains of any length |
| `ExecutionsAreBounded` | `Spec` | the effect is executed at most as often as the product of the attempts along the chain |
| `DispatchErrorsAreFinal` | `Spec` | an `EventDispatchError` that reached the layers is the outcome, without another execution |
| `ModelEffects_proof!TypeCorrect`, `ObserversSeeStream`, `CompletionsAreTrue`, `NoViolationSucceeds` | `Spec` | type invariant; the stream protocol, for any number of emissions |
| `DecisionsAreAnswers` | `EffectSpec` | an accepted response gives each question, in order, a refusal or an answer over exactly its declared values, with any numbers of both |
| `EffectsContainStreams`, `EffectsContainSuites` | `EffectSpec` | performed beside the others, a generation runs as `Spec` and the suite as `SuiteSpec` says, so their theorems hold there |
| `ReportsAreTrue`, `PassingSuites` | `SuiteSpec` | a report has one true entry per scenario, an interruption leaves none; an adapter that keeps controls never passes all |
| `ToolExecution_proof!ErrorsAreExpected`, `StartedAsDeclared` | `Spec` | only expected mistakes become error results; a callable starts with exactly its declared parameters; for any catalog, executors and arguments |
| `EncodedExactly` | `Spec` | on every finite heap, with sharing and cycles, the conversion accepts exactly the JSON values |
| `Conversation_proof!NoLostUpdate`, `ToolResultsDeliverable` | `Spec` | a turn is based on what is committed; no tool runs in the last round |
| `OneFlowAtATime` | `Spec` | at most one advanced flow on a facade, which is busy meanwhile |
| `BusyIsOneFlow` | `Spec`, if `~ BeginFails` | the busy flag is exactly that flow |
| `RequestsAreWellFormed`, `NoStaleContinuation`, `InputIsKept` | `Spec`, if `SeedsOK` | what is sent: whole turns with every call answered, the current continuation, all input once and in order |
| `RemindersAreSettled`, `TurnsAreTransactions` | `Spec`, if `SeedsOK` | what a turn leaves: reminders settle on every exit; the refinement of `ConversationStore` |
| `ResultHoldsThisTurn` | `Spec`, if `SeedsOK` and all seeds are closed | the messages of a turn's result are those it committed |
| `PromptSession_proof!EachIsSentOnce`, `ScopesAreKept` | `Spec` | NEXT_REQUEST reminders are in exactly one request that is sent, the others in all they are for, whatever fails or is trimmed |
| `ProjectionsAreFresh`, `HistoryIsLongest` | `Spec` | the request sent is the one counted last, with its own projections and the longest history the policy and the budget let pass |
| `CompileIsAtomic` | `Spec` | the refinement of `TurnRequests`: `compile()` is one step of the turn |
| `LastBindings` | `TemplateSpec` | templates and renders use for each field what the last operation on it said, for any sequence of operations and any changes of the caller's mapping |
| `ValuesStayText` | `TemplateSpec` | every token occurs in a text as often as the parts of the template give it, each rendered by itself |
| `NoDecorationAlone` | `TemplateSpec` | no title or wrapper without a word, for any chain of policies and any value |
| `PromptsContainSessions`, `PromptsContainTemplates` | `PromptSpec` | used one beside the other, sessions run as `Spec` and templates as `TemplateSpec` says |

None of the safety properties is inductive, and the strengthenings say why they
hold.

* **AgentDriver.** The properties speak of the end of the run, and what they say
  was decided several calls earlier. `ControlInv` (type, `LifecycleInv`,
  `PropagationInv`, channel closing) fixes where the generator is and which
  exception is in flight at each `pc`. `LatchWins` is the one way in which that
  is not the exception that stopped the run. It depends only on what the
  driver's own task writes, and on latches being set for good, so worker threads
  cannot disturb it: `ThreadedControl` proves it for `ThreadedSpec`. `StreamInv`
  adds which event the sink was offered last and how it answered; after a failed
  dispatch inside an effect the channel is latched, so the driver can only go to
  `undelivered`. `ResultInv` adds that the result on its way to the agent
  belongs to an unlatched effect. The refinement maps `last` to itself: from
  `IInv` every step is an `EventStream` step or leaves `last` unchanged.
  `StreamInv` is false under `ThreadedSpec`; that is the finding
  `late_progress`.
* **EventSinks.** A walk leaves sinks out in two ways: it ends early, and then
  `emit()` has not returned normally, or a guard jumps behind its part of the
  tree, where every observer is guarded. `WalkInv`: every other observer the walk
  has passed accepted the event. `LostInv`: a lost observer has ended its walk and
  the driver knows, so `EventStream` offers nothing more. The sinks must nest
  (`SinksAssumption`); that a guarded sink has an innermost guard is the
  well-foundedness of `<` on the naturals. For the refinement `HearInv` says what
  an observer *could* hear: during a walk those ahead can hear the event offered,
  between walks all can hear whatever the driver may offer next (`Follows`, what
  `EventStream` allows after an event). It is kept because leaving out an event
  nobody else lost makes no gap (`SkippingIsSafe`), and accepting one makes none.
* **EffectExecution.** `Counted`: the cancel requests not undone are the external
  ones and one for each deadline that has fired. `Unwound`: while there is any,
  it is pending, being cleaned up after, or propagating. So a layer is entered
  only when there is none, every timeout's baseline is 0, and a deadline claims
  the cancellation only if no other request is left. `DispatchInv`: a dispatch
  error is an outcome only on the way out, where no layer catches it. The bound on executions has no witness among the variables: attempts
  start again whenever an outer layer calls once more. `BoundInv` says that there
  are numbers `calls[i]`, how often layer *i* has called what is inside it, that
  fit the attempts of the calls in progress (`WithinLayer`); each step of a layer
  exhibits the next ones, and along the chain `calls[i]` stays under the product
  of the attempts (`Bounded`).
* **ModelEffects.** The forwarder keeps three fields and forgets the events.
  `EmissionInv`: until a violation, the fields summarise everything the backend
  emitted. `PrefixInv`: observers lag behind by the completion held back, if any.
  `DecisionInv` carries what the constructors let through to the validation.
  There `validate_for` compares *sets* of values, where the property counts
  answers: the values are distinct on both sides, so equal sets are equally many
  and each declared value is answered exactly once (`ValidAnswers`).
* **Conformance.** `VerdictInv`: the results so far are the truth about the
  scenarios so far, and none to come is broken. That no adapter with stale
  controls passes rests on one scenario: `RemovalInv` says that before its second
  request such an adapter has kept the first one's controls, so that it cannot
  answer as expected, and that afterwards the scenario is broken.
* **ToolExecution.** Observers, workers and cancellations may act between the
  validation of the arguments and the end of the callable. `CallInv` carries what
  `StartCallable` knew of the call across all of them. `StageInv`: an effect whose
  callable runs has no outcome yet, so a progress event can only be lost before
  the verdict, never after an error message was chosen. The conversion of results
  is a recursive function over a node and the containers on the path to it. A
  recursive definition stands for some function that solves its equation, so first
  one is exhibited: a node converts exactly if nothing it reaches is bad, on the
  path or on a cycle (`Good`, `BodyAnswers`). Then any solution agrees with it, by
  induction on how many nodes are not on the path (`Conversion`); on the empty
  path it is the reference (`ConvertsJson`). `ResultInv` keeps that as the
  outcome.
* **Reminders.** `Selected` is a recursive function. What it returns, and that
  two selections commute, is proved by induction over sequences, which
  `SetInduction` derives from well-foundedness for a *set* of numbers; the
  induction theorems of the library need an operator.
* **Conversation.** Two layers. `Exclusive`: an advanced flow has acquired its
  facade and is alone there. Hence edits, forks and other flows never reach the
  state its turn is based on. Steps are grouped by what they do to the state
  (`Enters`, `Goes`, `Leaves`), so that the invariant is proved once for each
  group. `BusyInv`, the converse, needs that a session can be opened. On top,
  `Contents` says what one turn record holds at each `pc` (`TurnOK`):
  `TranscriptOK` (every call is answered but those of the last assistant message,
  whose results so far are its first ones in order; the continuation is the last
  assistant message or none), `InputKept` (the input in the transcript, then the
  input still held back for the tool results, is what was asked and then polled)
  and `SessionSettles` (what remains is a function of what the turn began with and
  of whether a request was accepted). A history has the same at its boundaries
  (`HistoryOK`), so cutting old turns leaves a request well formed, and the commit
  restores `HistoryOK` for the next turn. `Transactional` follows: at the exit the
  working transcript extends the base, and `BusyLive` says the facade exists.
* **PromptSession.** The properties speak of the step in which compile() returns;
  the invariant says what the steps before it prepared. `CandidateInv`: the
  candidate is the transcript without its *k* oldest turns, and every longer one
  is more than the policy keeps or was counted over the budget. `Prepare`
  establishes it (`DropsRight`: the boundary arithmetic of each policy keeps the
  most it may), and `Trim` keeps it because dropping one turn from the rest after
  *k* gives the rest after *k* + 1 (`DropsOfRest`) and a policy that keeps a
  history keeps every shorter one (`KeepsFewer`). `ProjectionInv`: projections
  belong to the candidate being tried. `SessionInv`: what remains is what the turn
  began with, less its TURN reminders, less the NEXT_REQUEST ones once sent.
  `OwedInv`, the first half of `NextRequestOnce`, needs `TextsInv`: no two
  reminders share a text, so one that was replaced is no longer owed. For the
  refinement the same *k* is the cut, `SessionInv` makes what is consumed the
  difference the abstract `Compile` makes, and every other step of compile() leaves
  the turn's view of the state unchanged (`WorkIsInvisible`).
* **PromptTemplates.** `HistoryInv`: the values of every template are what the
  last operation on each field said (`BindingsOf`). Every operation keeps it: it
  copies what it is given, so the caller's mapping is not among a template's
  values, and it binds on top of what the template held (`BindingsAppend`). For
  the texts, each policy keeps `Sound` values and `IsText` texts, and so does a
  chain of any length: what a policy adds, it adds around a word or not at all. A
  text is the parts joined, each computed from one part of the source, so
  occurrences add up (`FlattenedOccurrences`).

Only model-checked:

* liveness, which is beyond the prover: `TurnsEnd`, that
  `execute()` ends (the other half of `ExecutionEnds`) and that `compile()` ends
  (the other half of `CompileIsOneStep`).

Every safety property of the passing runs is proved, under the conditions above.
What the proofs do not reach is in the definitions: that they are those of the
code (section 2), and that the operators by which the properties speak, such as
`Reached` and `BindingsOf`, mean what their comments say.

`TypeCorrect`, `LifecycleIsLinear` and `SilentAfterFailure` are proved and not
listed in a run: they are lemmas of the listed properties rather than further
questions.

## 5. Disagreements between code and documentation

Five runs fail; `PROJECT.json` quotes both sides.

| run | the text says | the code does |
|---|---|---|
| `late_progress` | no event after the terminal state of its effect (`docs/events.md:26-28`) | a worker thread past the `active` test emits whenever it runs (`driver.py:336`) |
| `latched_cancellation` | the cancellation stays the primary exception (`adr/0004-executor-and-context.md:17-19`) | a progress failure latched in the channel of the cancelled effect replaces it (`driver.py:228`, as the comment beside it intends for any exception) |
| `hidden_dispatch_failure` | an event failure is never retried, so that side effects are not repeated (`docs/middleware.md:15-16`) | an effect that raises something else after it is executed again (`middleware.py:234`) |
| `nested_tool_error` | exceptions inside a function propagate by default (`docs/api.md:290-291`) | the validation error of another tool that a callable invoked becomes an error result (`models/tools/effects.py:53`) |
| `begin_leaves_busy` | busy ends when the flow returns, raises or is closed (`models/conversation.py:360-362`) | the session is opened before the `try` (`models/conversation.py:393`) |

`latched_cancellation` runs `ThreadedSpec`: a worker thread that a cancellation
left behind holds the open channel until the effect has ended, and can turn the
cancellation into a dispatch failure too.

Observed while modelling, without a run of their own. The first three are
behaviours of the models, and the properties are stated so as to allow for them:

* A backend that catches a protocol violation and raises something else ends the
  effect with that (`models/effects.py:52`); the docstring (11-12) says the
  first violation stays primary.
* With a single boundary the messages of a turn's result are everything up to it
  (`models/loop.py:108`), where line 103 says those of this turn: a conversation
  with preloaded history. `ResultIsThisTurn` is checked from a fresh start.
* An observer that accepted `RunSucceeded` may hear `RunCancelled` next, if a later
  sink of the composite answers with a cancellation (`docs/events.md:5-12` has one
  terminal event). `AsHeard` allows for it.
* The output of `render_partial` cannot be parsed again as a template: escaped
  braces have lost their escape.

## 6. Not modelled, and why

* Value types, `testing.py`: no state over time, or scaffolding.
* Parsing of docstrings, JSON Schema, the wording of messages: reading of Python
  annotations and text.
* `FunctionMiddleware` and middleware written by the application: arbitrary code
  around `execute()`; it is part of the environment of `AgentDriver`.
* The fields of trace events, ids, hashes, metadata, usage: written, never read by
  a decision.
* Wall-clock time: a deadline may fire at any await after it is armed.
