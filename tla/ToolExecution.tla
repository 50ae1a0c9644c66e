---------------------------- MODULE ToolExecution ----------------------------
(***************************************************************************)
(* Python callables as model tools: their definition (ArgumentAdapter,     *)
(* FunctionTool, ToolSet), the selection of an effect's executor           *)
(* (DispatchExecutor, InlineExecutor), and the execution of one InvokeTool *)
(* effect after another: argument validation, the callable on the event    *)
(* loop or in a worker thread, the error policy, the encoding of its       *)
(* result, and the driver's verdict on the effect's progress channel.      *)
(***************************************************************************)
EXTENDS Naturals, Sequences, FiniteSets, SequencesExt

CONSTANTS
    Catalogs,     \* sequences of tool definitions handed to ToolSet
    Executors,    \* chains of executors: see Handler
    ToolNames,    \* names a model may call
    ArgumentSets, \* arguments of a call: name -> "good" or "bad" value
    MaxCalls      \* bound: InvokeTool effects of the run

(* A returned value is native, or a finite heap with its root at node 1. *)
IsHeap(heap) ==
    /\ IsFiniteSet(DOMAIN heap) /\ 1 \in DOMAIN heap
    /\ \A node \in DOMAIN heap :
          /\ heap[node].kind \in {"leaf", "bad", "container"}
          /\ heap[node].kind = "container" => heap[node].items \in Seq(DOMAIN heap)

(* Python gives the parameters of a callable different names. *)
ASSUME ToolsAssumption ==
    /\ \A set \in Catalogs :
          /\ Len(set) \in Nat /\ DOMAIN set = 1 .. Len(set)
          /\ \A n \in DOMAIN set :
                /\ set[n].policy \in {"propagate", "return_to_model"}
                /\ set[n].sync \in {"inline", "thread"}
                /\ set[n].body \in {"plain", "coroutine", "awaitable"}
                /\ set[n].value.kind \in {"native", "heap"}
                /\ set[n].value.kind = "heap" => IsHeap(set[n].value.heap)
                /\ \A p, q \in ToSet(set[n].signature) : p.name = q.name => p = q
    /\ MaxCalls \in Nat

VARIABLES
    catalog,   \* the callables to be defined, in order
    executor,  \* the executor of the driver
    registry,  \* the tools defined so far, then the ToolSet
    stage,     \* "defining", "rejected", "idle", "requested", or how the callable runs
    call,      \* the current InvokeTool: [number, name, tool, args]
    bound,     \* the arguments the callable was started with
    ended,     \* how the callable ended
    progress,  \* "open", or "lost": an observer failed on a progress event
    outcome,   \* how the effect ended
    workers    \* calls whose effect was cancelled while their thread runs on

vars == <<catalog, executor, registry, stage, call, bound, ended, progress,
          outcome, workers>>

-----------------------------------------------------------------------------
(* Definition of tools.                                                     *)

ContextsOf(signature) == {n \in DOMAIN signature : signature[n].note = "context"}

(* _build_definitions and _split_parameter_metadata accept every parameter; *)
(* pydantic can build its field ("unsupported": it cannot).                 *)
Definable(signature) ==
    /\ \A n \in DOMAIN signature :
          /\ signature[n].kind = "keyword"     \* not positional-only or variadic
          /\ signature[n].note \in {"plain", "context"}
             \* not "missing", "unresolved", "annotated_context", "two_metadata", "unsupported"
    /\ Cardinality(ContextsOf(signature)) <= 1

(* ToolSet.__init__ adapts one callable after the other; the first that cannot *)
(* be defined, or whose name is taken, rejects the whole set.                  *)
DefineTool ==
    /\ stage = "defining" /\ Len(registry) < Len(catalog)
    /\ LET tool == catalog[Len(registry) + 1]
       IN IF /\ Definable(tool.signature)
             /\ \A n \in DOMAIN registry : registry[n].name # tool.name
          THEN registry' = Append(registry, tool) /\ UNCHANGED stage
          ELSE stage' = "rejected" /\ UNCHANGED registry
    /\ UNCHANGED <<catalog, executor, call, bound, ended, progress, outcome, workers>>

SetBuilt == /\ stage = "defining" /\ Len(registry) = Len(catalog)
            /\ stage' = "idle"
            /\ UNCHANGED <<catalog, executor, registry, call, bound, ended, progress,
                           outcome, workers>>

(* ToolSet.get: 0 stands for None. *)
Lookup(name) ==
    IF \E n \in DOMAIN registry : registry[n].name = name
    THEN CHOOSE n \in DOMAIN registry : registry[n].name = name ELSE 0

-----------------------------------------------------------------------------
(* Selection of a handler.                                                  *)

(* type(effect).__mro__ *)
Mro == <<"InvokeTool", "Effect">>

(* A chain is a sequence of DispatchExecutors (class -> what its handler does), *)
(* each the fallback of the one before it, and "inline" or "none" at its end.   *)
Handler(chain) ==
    LET hits == {n \in DOMAIN chain.dispatch : DOMAIN chain.dispatch[n] \cap ToSet(Mro) # {}}
        first == CHOOSE n \in hits : \A other \in hits : n <= other
        class == SelectInSeq(Mro, LAMBDA c : c \in DOMAIN chain.dispatch[first])
    IN IF hits = {} THEN chain.last ELSE chain.dispatch[first][Mro[class]]

-----------------------------------------------------------------------------
(* Validation of arguments.                                                 *)

Parameter(tool, name) == CHOOSE p \in ToSet(tool.signature) : p.name = name
AllParameters(tool) == {p.name : p \in ToSet(tool.signature)}
Exposed(tool) == {p.name : p \in {q \in ToSet(tool.signature) : q.note # "context"}}

(* model_validate with extra="forbid" and validate_default=True. *)
Valid(tool, args) ==
    /\ DOMAIN args \subseteq Exposed(tool)
    /\ \A name \in Exposed(tool) : IF name \in DOMAIN args THEN args[name] = "good"
                                   ELSE Parameter(tool, name).default = "good"

(* Mutant: the context is injected before the model's arguments are applied. *)
BindingContextFirst(tool, args) ==
    [name \in Exposed(tool) |-> IF name \in DOMAIN args THEN args[name] ELSE "default"]

Binding(tool, args) ==
    [name \in AllParameters(tool) |->
        IF name \notin Exposed(tool) THEN "context"
        ELSE IF name \in DOMAIN args THEN args[name] ELSE "default"]

-----------------------------------------------------------------------------
(* Encoding of results.  A value is native (ToolResult, ContentBlock, str,  *)
(* None) or node 1 of a heap: nodes [kind, items].                          *)

(* Mutant: _enter_container is never undone. *)
LeaveNothing(active, n) == active

(* `finally: active_container_ids.remove(container_id)` *)
Leave(active, n) == active \ {n}

(* _to_json_value: a leaf is itself, a dataclass, mapping or sequence converts *)
(* its items in order, up to the first that fails; "bad" is anything else, also *)
(* a key that is no string.                                                     *)
Convertible(heap) ==
    LET convert[node \in DOMAIN heap] == [active \in SUBSET DOMAIN heap |->
          IF heap[node].kind # "container"
          THEN [ok |-> heap[node].kind = "leaf", active |-> active]
          ELSE IF node \in active THEN [ok |-> FALSE, active |-> active]
          ELSE LET items == heap[node].items
                   upto[i \in 0 .. Len(items)] ==
                       IF i = 0 THEN [ok |-> TRUE, active |-> active \cup {node}]
                       ELSE IF upto[i - 1].ok THEN convert[items[i]][upto[i - 1].active]
                       ELSE upto[i - 1]
                   inside == upto[Len(items)]
               IN [ok |-> inside.ok, active |-> Leave(inside.active, node)]]
    IN convert[1][{}].ok

(* encode_tool_result *)
Encodes(value) == value.kind = "native" \/ Convertible(value.heap)

-----------------------------------------------------------------------------
(* Execution.                                                               *)

Tool == registry[call.tool]

NoCall == [number |-> 0, name |-> "none", tool |-> 0, args |-> <<>>]

Init == /\ catalog \in Catalogs
        /\ executor \in Executors
        /\ registry = <<>>
        /\ stage = "defining"
        /\ call = NoCall
        /\ bound = <<>>
        /\ ended = "not_started"
        /\ progress = "open"
        /\ outcome = "none"
        /\ workers = {}

(* The model loop performs InvokeTool(tools.get(call.name), call); other code *)
(* may pair the call with a tool it resolved earlier.                         *)
Request ==
    /\ stage = "idle" /\ call.number < MaxCalls
    /\ \E name \in ToolNames, args \in ArgumentSets :
       \E tool \in {Lookup(name)} \cup DOMAIN registry :
          call' = [number |-> call.number + 1, name |-> name, tool |-> tool, args |-> args]
    /\ stage' = "requested"
    /\ bound' = <<>> /\ ended' = "not_started"
    /\ progress' = "open" /\ outcome' = "none"
    /\ UNCHANGED <<catalog, executor, registry, workers>>

(* AgentDriver: a lost progress event is the outcome whatever the executor answered. *)
Verdict(answer, channel) == IF channel = "lost" THEN "ede" ELSE answer

EffectEnds(answer) == /\ outcome' = Verdict(answer, progress)
                      /\ stage' = "idle"

Answers(answer) == /\ EffectEnds(answer)
                   /\ UNCHANGED <<catalog, executor, registry, call, bound, ended,
                                  progress, workers>>

(* A handler that answers for the effect, or an executor without one. *)
NotExecuted == /\ stage = "requested" /\ Handler(executor) \notin {"execute", "inline"}
               /\ Answers(IF Handler(executor) = "none" THEN "unsupported" ELSE "handled")

Executes == stage = "requested" /\ Handler(executor) \in {"execute", "inline"}

Known == call.tool # 0 /\ Tool.name = call.name

UnknownTool == Executes /\ ~Known /\ Answers("error_result")

InvalidArguments == /\ Executes /\ Known
                    /\ ~Valid(Tool, call.args)
                    /\ Answers("error_result")

(* FunctionTool._call: coroutine functions are awaited whatever the sync policy. *)
StartCallable ==
    /\ Executes /\ Known /\ Valid(Tool, call.args)
    /\ bound' = Binding(Tool, call.args)
    /\ stage' = IF Tool.body = "coroutine" THEN "awaiting"
                ELSE IF Tool.sync = "thread" THEN "thread" ELSE "inline"
    /\ ended' = "running"
    /\ UNCHANGED <<catalog, executor, registry, call, progress, outcome, workers>>

Running == {"inline", "thread", "awaiting"}

(* context.progress() reaches the observers, and one of them fails; a worker *)
(* whose call is being cancelled still holds the open channel.               *)
LoseProgress == /\ \/ stage \in Running
                   \/ stage = "cancelling" /\ call.number \in workers
                /\ progress' = "lost"
                /\ UNCHANGED <<catalog, executor, registry, stage, call, bound, ended,
                               outcome, workers>>

(* The function has returned an awaitable: `return await value`. *)
AwaitResult == /\ stage \in {"inline", "thread"} /\ Tool.body = "awaitable"
               /\ stage' = "awaiting"
               /\ UNCHANGED <<catalog, executor, registry, call, bound, ended, progress,
                              outcome, workers>>

Return == /\ stage \in Running /\ (stage = "awaiting" \/ Tool.body = "plain")
          /\ ended' = "returned"
          /\ EffectEnds(IF Encodes(Tool.value) THEN "value" ELSE "encoding_error")
          /\ UNCHANGED <<catalog, executor, registry, call, bound, progress, workers>>

(* "nested": a ToolInputValidationError of another tool the callable invoked;   *)
(* "ede": an EventDispatchError, of a lost progress event or of a nested run.   *)
Ordinary == {"exc", "ede", "nested"}

(* Mutant: `except BaseException` around the callable. *)
PolicyCatchingAll(how) ==
    IF Tool.policy = "return_to_model" \/ how = "nested" THEN "error_result" ELSE how

(* invoke() applies the error policy; InvokeTool.execute answers the input     *)
(* validation errors that leave invoke(), those the callable raised included.  *)
Policy(how) ==
    IF how \in Ordinary /\ (Tool.policy = "return_to_model" \/ how = "nested")
    THEN "error_result" ELSE how

Raise == /\ stage \in Running
         /\ \E how \in Ordinary \cup {"cancelled", "base"} :
               /\ ended' = how
               /\ EffectEnds(Policy(how))
         /\ UNCHANGED <<catalog, executor, registry, call, bound, progress, workers>>

(* Task.cancel() while the effect waits for its worker: the wait is cancelled, *)
(* the worker is not.  (A cancelled coroutine is a step Raise, or goes on.)    *)
CancelWait == /\ stage = "thread"
              /\ stage' = "cancelling"
              /\ workers' = workers \cup {call.number}
              /\ UNCHANGED <<catalog, executor, registry, call, bound, ended, progress,
                             outcome>>

CancelLands == /\ stage = "cancelling"
               /\ ended' = "abandoned"
               /\ EffectEnds("cancelled")
               /\ UNCHANGED <<catalog, executor, registry, call, bound, progress, workers>>

(* An abandoned callable ends, whatever it returns or raises. *)
WorkerEnds == /\ \E worker \in workers : workers' = workers \ {worker}
              /\ UNCHANGED <<catalog, executor, registry, stage, call, bound, ended,
                             progress, outcome>>

Next == \/ DefineTool \/ SetBuilt \/ Request
        \/ NotExecuted \/ UnknownTool \/ InvalidArguments \/ StartCallable
        \/ LoseProgress \/ AwaitResult \/ Return \/ Raise
        \/ CancelWait \/ CancelLands \/ WorkerEnds

Spec == Init /\ [][Next]_vars

-----------------------------------------------------------------------------
(* The model is told of a tool error only when the model was wrong, or the     *)
(* callable raised an ordinary exception its author chose to return, or, by    *)
(* the one exception to that choice, ErrorsFollowPolicy, the validation error  *)
(* of another tool; no cancellation, no exit and no lost progress event is     *)
(* ever turned into a message for the model.                                   *)
ErrorResultsAreExpected ==
    outcome = "error_result" =>
        /\ progress = "open"
        /\ CASE ended = "not_started" -> ~Known \/ ~Valid(Tool, call.args)
             [] ended = "nested"      -> TRUE
             [] OTHER -> ended \in {"exc", "ede"} /\ Tool.policy = "return_to_model"

(* Whatever a callable raises is a message for the model only if the author    *)
(* of the tool chose so (docs/api.md:290-291, models/tools/errors.py:3-7).     *)
ErrorsFollowPolicy ==
    outcome = "error_result" /\ ended # "not_started" => Tool.policy = "return_to_model"

(* A callable is started with exactly the parameters of its signature: values  *)
(* that validated or validated defaults, and the runtime's context under the   *)
(* one name the model can neither see nor set.                                 *)
StartsAsDeclared ==
    ended # "not_started" =>
        /\ DOMAIN bound = AllParameters(Tool)
        /\ \A name \in DOMAIN bound :
              LET p == Parameter(Tool, name)
              IN \/ p.note = "context" /\ bound[name] = "context" /\ name \notin DOMAIN call.args
                 \/ p.note # "context" /\ bound[name] = "good" /\ name \in DOMAIN call.args
                 \/ p.note # "context" /\ bound[name] = "default" /\ p.default = "good"
        /\ DOMAIN call.args \subseteq DOMAIN bound

ItemsOf(heap, node) == IF heap[node].kind = "container" THEN ToSet(heap[node].items) ELSE {}

Closed(heap, nodes) == \A node \in nodes : ItemsOf(heap, node) \subseteq nodes

(* What of the heap a value reaches: what every closed part around it holds. *)
Reached(heap, from) ==
    {node \in DOMAIN heap :
        \A nodes \in SUBSET DOMAIN heap : from \in nodes /\ Closed(heap, nodes) => node \in nodes}

OnCycle(heap, node) == \E item \in ItemsOf(heap, node) : node \in Reached(heap, item)

Json(heap) ==
    \A node \in Reached(heap, 1) : heap[node].kind # "bad" /\ ~OnCycle(heap, node)

(* A returned value becomes a result exactly when it is a finite tree of JSON  *)
(* values, shared parts allowed; a value with a cycle or an unsupported part   *)
(* is an encoding error, whatever the tool's error policy.                     *)
EncodesExactlyJson ==
    ended = "returned" /\ progress = "open" =>
        outcome = IF Tool.value.kind = "native" \/ Json(Tool.value.heap)
                  THEN "value" ELSE "encoding_error"
=============================================================================
