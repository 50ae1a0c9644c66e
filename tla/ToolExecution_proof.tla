------------------------- MODULE ToolExecution_proof -------------------------
(***************************************************************************)
(* Proofs about ToolExecution, for any catalog of callables, any chain of  *)
(* executors and any arguments a model invents.                            *)
(*                                                                         *)
(* Between the validation of a call's arguments and the end of its         *)
(* callable lie steps of observers, workers and cancellations.  CallInv    *)
(* carries what StartCallable knew of the call across all of them, and     *)
(* that an effect whose callable runs has no outcome yet: a progress event *)
(* can then only be lost before the verdict on the effect.                 *)
(*                                                                         *)
(* The conversion of a result is a recursion through a heap that may share *)
(* parts and close cycles.  It is shown to answer for every node, with the *)
(* containers it is inside of, what the reach of that node says (Good):    *)
(* first that this answer solves the recursion, then that nothing else     *)
(* does, on the nodes it has not entered yet, which only become fewer.     *)
(***************************************************************************)
EXTENDS ToolExecution, FiniteSetTheorems, TLAPS

Callables == UNION {ToSet(set) : set \in Catalogs}

Progressing == Running \cup {"cancelling"}

(* Where the run is, and what it may have left in the call's fields. *)
StageInv ==
    /\ stage \in {"defining", "rejected", "idle", "requested"} \cup Progressing
    /\ stage \in {"defining", "rejected", "requested"} => ended = "not_started" /\ outcome = "none"
    /\ progress \in {"open", "lost"} /\ (stage = "requested" => progress = "open")
    /\ stage \in Progressing <=> ended = "running"
    /\ stage \in Progressing => outcome = "none"
    /\ ended \in {"not_started", "running", "returned", "abandoned", "cancelled", "base"} \cup Ordinary

(* The tools defined so far are callables of the catalog. *)
RegistryInv ==
    /\ catalog \in Catalogs
    /\ registry \in Seq(Callables)

(* A callable that was started is the one the call names, and its arguments *)
(* are what validation made of the call's.                                  *)
CallInv ==
    ended # "not_started" =>
        /\ Known /\ call.tool \in DOMAIN registry
        /\ Valid(Tool, call.args)
        /\ bound = Binding(Tool, call.args)

PendingInv == stage = "requested" => call.tool = 0 \/ call.tool \in DOMAIN registry

IInv == StageInv /\ RegistryInv /\ CallInv /\ PendingInv /\ ErrorResultsAreExpected

-----------------------------------------------------------------------------
(* The selection of a tool and the binding of its arguments. *)

LEMMA LookupFinds ==
  ASSUME NEW name
  PROVE  Lookup(name) = 0 \/ Lookup(name) \in DOMAIN registry
    BY DEF Lookup

(* What the callable gets: its parameters and no more; the context under the *)
(* one name that is not exposed, values or defaults that validated elsewhere. *)
Declares(tool, args, values) ==
    /\ DOMAIN values = AllParameters(tool)
    /\ \A name \in DOMAIN values :
          LET p == Parameter(tool, name)
          IN \/ p.note = "context" /\ values[name] = "context" /\ name \notin DOMAIN args
             \/ p.note # "context" /\ values[name] = "good" /\ name \in DOMAIN args
             \/ p.note # "context" /\ values[name] = "default" /\ p.default = "good"
    /\ DOMAIN args \subseteq DOMAIN values

LEMMA ExposedParameter ==
  ASSUME NEW tool \in Callables, NEW name \in AllParameters(tool)
  PROVE  /\ Parameter(tool, name) \in ToSet(tool.signature)
         /\ Parameter(tool, name).name = name
         /\ name \in Exposed(tool) <=> Parameter(tool, name).note # "context"
<1>1. PICK set \in Catalogs : \E n \in DOMAIN set : tool = set[n]
    BY DEF Callables, ToSet
<1>2. \A p, q \in ToSet(tool.signature) : p.name = q.name => p = q
    BY <1>1, ToolsAssumption
<1>3. \E p \in ToSet(tool.signature) : p.name = name
    BY DEF AllParameters
<1>4. /\ Parameter(tool, name) \in ToSet(tool.signature)
      /\ Parameter(tool, name).name = name
    BY <1>3 DEF Parameter
<1> HIDE DEF Parameter
<1>5. name \in Exposed(tool) <=>
        \E q \in ToSet(tool.signature) : q.note # "context" /\ q.name = name
    BY DEF Exposed
<1> QED
    BY <1>2, <1>4, <1>5

LEMMA BindingDeclares ==
  ASSUME NEW tool \in Callables, NEW args, Valid(tool, args)
  PROVE  Declares(tool, args, Binding(tool, args))
<1> DEFINE values == Binding(tool, args)
<1>1. /\ DOMAIN values = AllParameters(tool)
      /\ \A name \in AllParameters(tool) :
            values[name] = IF name \notin Exposed(tool) THEN "context"
                           ELSE IF name \in DOMAIN args THEN args[name] ELSE "default"
    BY DEF Binding
<1>2. Exposed(tool) \subseteq AllParameters(tool)
    BY DEF Exposed, AllParameters
<1>3. /\ DOMAIN args \subseteq Exposed(tool)
      /\ \A name \in Exposed(tool) : IF name \in DOMAIN args THEN args[name] = "good"
                                     ELSE Parameter(tool, name).default = "good"
    BY DEF Valid
<1> HIDE DEF values
<1>4. ASSUME NEW name \in AllParameters(tool)
      PROVE  LET p == Parameter(tool, name)
             IN \/ p.note = "context" /\ values[name] = "context" /\ name \notin DOMAIN args
                \/ p.note # "context" /\ values[name] = "good" /\ name \in DOMAIN args
                \/ p.note # "context" /\ values[name] = "default" /\ p.default = "good"
  <2>1. CASE name \notin Exposed(tool)
      BY <1>1, <1>3, <2>1, ExposedParameter
  <2>2. CASE name \in Exposed(tool) /\ name \in DOMAIN args
      BY <1>1, <1>3, <2>2, ExposedParameter
  <2>3. CASE name \in Exposed(tool) /\ name \notin DOMAIN args
      BY <1>1, <1>3, <2>3, ExposedParameter
  <2> QED
      BY <2>1, <2>2, <2>3
<1>5. Declares(tool, args, values)
    BY <1>1, <1>2, <1>3, <1>4 DEF Declares
<1> QED
    BY <1>5 DEF values

-----------------------------------------------------------------------------
(* The inductive invariant. *)

LEMMA InitInv == Init => IInv
  BY DEF Init, IInv, StageInv, RegistryInv, CallInv, PendingInv, Progressing, Running,
         Ordinary, ErrorResultsAreExpected

(* Steps that leave the call, its callable and the tools alone. *)
LEMMA CallKept ==
  ASSUME UNCHANGED <<registry, call, bound, ended>>, CallInv
  PROVE  CallInv'
    BY DEF CallInv, Known, Tool

LEMMA KnownKept ==
  ASSUME UNCHANGED <<registry, call>>
  PROVE  (Known' <=> Known) /\ Tool' = Tool /\ (call.args)' = call.args
    BY DEF Known, Tool

LEMMA ErrorsKept ==
  ASSUME UNCHANGED <<registry, call, ended, outcome, progress>>, ErrorResultsAreExpected
  PROVE  ErrorResultsAreExpected'
    BY DEF ErrorResultsAreExpected, Known, Tool

LEMMA Defining ==
  ASSUME IInv, DefineTool
  PROVE  IInv'
<1> USE DEF IInv
<1>1. /\ stage = "defining" /\ stage' \in {"defining", "rejected"}
      /\ ended' = "not_started" /\ outcome' = "none"
      /\ UNCHANGED <<catalog, call, bound, progress>>
    BY DEF DefineTool, StageInv
<1>2. registry' \in Seq(Callables)
  <2>1. Len(registry) \in Nat /\ Len(registry) < Len(catalog) /\ catalog \in Catalogs
        /\ Len(catalog) \in Nat /\ DOMAIN catalog = 1 .. Len(catalog)
      BY ToolsAssumption DEF DefineTool, RegistryInv
  <2>2. Len(registry) + 1 \in DOMAIN catalog
      BY <2>1
  <2>3. catalog[Len(registry) + 1] \in ToSet(catalog) /\ ToSet(catalog) \subseteq Callables
      BY <2>1, <2>2 DEF Callables, ToSet
  <2>4. registry' = registry \/ registry' = Append(registry, catalog[Len(registry) + 1])
      BY DEF DefineTool
  <2> QED
      BY <2>3, <2>4 DEF RegistryInv
<1> QED
    BY <1>1, <1>2 DEF StageInv, RegistryInv, CallInv, PendingInv, Progressing, Running,
                      Ordinary, ErrorResultsAreExpected

LEMMA Requesting ==
  ASSUME IInv, Request
  PROVE  IInv'
<1> USE DEF IInv
<1>1. /\ stage = "idle" /\ stage' = "requested" /\ ended' = "not_started"
      /\ progress' = "open" /\ outcome' = "none"
      /\ UNCHANGED <<catalog, registry>>
    BY DEF Request
<1>2. call'.tool = 0 \/ call'.tool \in DOMAIN registry
  <2>1. PICK name \in ToolNames, args \in ArgumentSets :
           \E tool \in {Lookup(name)} \cup DOMAIN registry :
              call' = [number |-> call.number + 1, name |-> name, tool |-> tool, args |-> args]
      BY DEF Request
  <2>2. PICK tool \in {Lookup(name)} \cup DOMAIN registry :
           call' = [number |-> call.number + 1, name |-> name, tool |-> tool, args |-> args]
      BY <2>1
  <2>3. call'.tool = tool
      BY <2>2
  <2> QED
      BY <2>3, LookupFinds
<1> QED
    BY <1>1, <1>2 DEF StageInv, RegistryInv, CallInv, PendingInv, Progressing, Running,
                      Ordinary, ErrorResultsAreExpected

(* An effect that ends without its callable started. *)
LEMMA Answering ==
  ASSUME IInv, stage = "requested", NEW answer, Answers(answer),
         answer = "error_result" => ~ Known \/ ~ Valid(Tool, call.args)
  PROVE  IInv'
<1> USE DEF IInv
<1>1. /\ stage' = "idle" /\ outcome' = answer /\ ended' = "not_started"
      /\ progress' = "open" /\ ended = "not_started"
      /\ UNCHANGED <<catalog, registry, call, bound>>
    BY DEF Answers, EffectEnds, Verdict, StageInv
<1> QED
    BY <1>1, KnownKept DEF StageInv, RegistryInv, CallInv, PendingInv, Progressing, Running,
                           Ordinary, ErrorResultsAreExpected

LEMMA Starting ==
  ASSUME IInv, StartCallable
  PROVE  IInv'
<1> USE DEF IInv
<1>1. /\ stage = "requested" /\ stage' \in Running /\ ended' = "running"
      /\ bound' = Binding(Tool, call.args) /\ Known /\ Valid(Tool, call.args)
      /\ UNCHANGED <<catalog, registry, call, outcome, progress>>
    BY DEF StartCallable, Executes, Running
<1>2. call.tool \in DOMAIN registry
    BY <1>1 DEF PendingInv, Known
<1>3. CallInv'
    BY <1>1, <1>2, KnownKept DEF CallInv
<1> QED
    BY <1>1, <1>3 DEF StageInv, RegistryInv, PendingInv, Progressing, Running, Ordinary,
                      ErrorResultsAreExpected

(* The callable ends: how, and the verdict on the effect. *)
LEMMA Ending ==
  ASSUME IInv, stage \in Progressing, NEW how, NEW answer, ended' = how, EffectEnds(answer),
         how \in {"returned", "abandoned", "cancelled", "base"} \cup Ordinary,
         answer = "error_result" =>
            how = "nested" \/ (how \in {"exc", "ede"} /\ Tool.policy = "return_to_model"),
         UNCHANGED <<catalog, executor, registry, call, bound, progress>>
  PROVE  IInv'
<1> USE DEF IInv
<1>1. /\ stage' = "idle" /\ ended' # "not_started" /\ ended' # "running"
      /\ ended = "running"
      /\ outcome' = "error_result" => answer = "error_result" /\ progress' = "open"
    BY DEF EffectEnds, Verdict, StageInv, Ordinary
<1>2. CallInv'
    BY <1>1, KnownKept DEF CallInv
<1>3. ErrorResultsAreExpected'
    BY <1>1, KnownKept DEF ErrorResultsAreExpected, Ordinary
<1> QED
    BY <1>1, <1>2, <1>3 DEF StageInv, RegistryInv, PendingInv, Progressing, Running

(* Steps while the callable runs, or after its effect was given up. *)
LEMMA Going ==
  ASSUME IInv, LoseProgress \/ AwaitResult \/ CancelWait \/ WorkerEnds \/ SetBuilt
  PROVE  IInv'
<1> USE DEF IInv
<1>1. CASE LoseProgress
    BY <1>1, CallKept DEF LoseProgress, StageInv, RegistryInv, PendingInv, Progressing, Running,
                          Ordinary, ErrorResultsAreExpected
<1>2. CASE AwaitResult \/ CancelWait
  <2>1. /\ stage \in Progressing /\ stage' \in Progressing
        /\ UNCHANGED <<catalog, registry, call, bound, ended, progress, outcome>>
      BY <1>2 DEF AwaitResult, CancelWait, Progressing, Running
  <2> QED
      BY <2>1, CallKept, ErrorsKept DEF StageInv, RegistryInv, PendingInv, Progressing, Running
<1>3. CASE WorkerEnds
    BY <1>3, CallKept, ErrorsKept DEF WorkerEnds, StageInv, RegistryInv, PendingInv
<1>4. CASE SetBuilt
    BY <1>4, CallKept, ErrorsKept DEF SetBuilt, StageInv, RegistryInv, PendingInv, Progressing,
                                      Running
<1> QED
    BY <1>1, <1>2, <1>3, <1>4

LEMMA StepInv == IInv /\ [Next]_vars => IInv'
<1> SUFFICES ASSUME IInv, [Next]_vars
             PROVE  IInv'
    OBVIOUS
<1>1. CASE NotExecuted
    BY <1>1, Answering DEF NotExecuted
<1>2. CASE UnknownTool
    BY <1>2, Answering DEF UnknownTool, Executes
<1>3. CASE InvalidArguments
    BY <1>3, Answering DEF InvalidArguments, Executes
<1>4. CASE Return
  <2> DEFINE answer == IF Encodes(Tool.value) THEN "value" ELSE "encoding_error"
  <2>1. EffectEnds(answer) /\ answer # "error_result"
      BY <1>4 DEF Return
  <2> HIDE DEF answer
  <2> QED
      BY <1>4, <2>1, Ending DEF Return, Progressing
<1>5. CASE Raise
  <2>1. PICK how \in Ordinary \cup {"cancelled", "base"} : ended' = how /\ EffectEnds(Policy(how))
      BY <1>5 DEF Raise
  <2>2. Policy(how) = "error_result" =>
           how = "nested" \/ (how \in {"exc", "ede"} /\ Tool.policy = "return_to_model")
      BY DEF Policy, Ordinary
  <2> QED
      BY <1>5, <2>1, <2>2, Ending DEF Raise, Progressing
<1>6. CASE CancelLands
    BY <1>6, Ending DEF CancelLands, Progressing
<1>7. CASE UNCHANGED vars
    BY <1>7, CallKept, ErrorsKept DEF vars, IInv, StageInv, RegistryInv, PendingInv
<1> QED
    BY <1>1, <1>2, <1>3, <1>4, <1>5, <1>6, <1>7, Defining, Requesting, Starting, Going DEF Next

-----------------------------------------------------------------------------
(* The conversion of results.  The model's definitions, which a reader must  *)
(* trust, are the conversion itself and what of a heap is Reached; here they *)
(* are shown to agree on every finite heap.                                  *)

LEMMA InductionUpTo ==
  ASSUME NEW n \in Nat, NEW S, 0 \in S, \A i \in 1 .. n : i - 1 \in S => i \in S
  PROVE  \A i \in 0 .. n : i \in S
<1> DEFINE Rest == {i \in Nat : i <= n /\ i \notin S}
<1> SUFFICES ASSUME Rest # {} PROVE FALSE
    OBVIOUS
<1>1. PICK i \in Rest : \A k \in Rest : ~ (<<k, i>> \in OpToRel(<, Nat))
  <2>1. Rest \subseteq Nat
      OBVIOUS
  <2> HIDE DEF Rest
  <2> QED
      BY <2>1, NatLessThanWellFounded, WFMin, Zenon
<1>2. \A k \in Rest : ~ (k < i)
    BY <1>1 DEF OpToRel
<1>3. i \in 1 .. n /\ i - 1 \in Nat /\ i - 1 <= n /\ i - 1 < i
    OBVIOUS
<1>4. i - 1 \in S
    BY <1>2, <1>3
<1> QED
    BY <1>3, <1>4

(* A node reaches itself and what its items reach. *)
LEMMA ReachedItself ==
  ASSUME NEW heap, NEW n \in DOMAIN heap
  PROVE  n \in Reached(heap, n)
    BY DEF Reached

LEMMA ReachedClosed ==
  ASSUME NEW heap, IsHeap(heap), NEW n \in DOMAIN heap
  PROVE  Closed(heap, Reached(heap, n)) /\ Reached(heap, n) \subseteq DOMAIN heap
<1>1. Reached(heap, n) \subseteq DOMAIN heap
    BY DEF Reached
<1>2. ASSUME NEW m \in Reached(heap, n), NEW item \in ItemsOf(heap, m)
      PROVE  item \in Reached(heap, n)
  <2>1. item \in DOMAIN heap
      BY <1>1 DEF ItemsOf, IsHeap, ToSet
  <2>2. ASSUME NEW nodes \in SUBSET DOMAIN heap, n \in nodes, Closed(heap, nodes)
        PROVE  item \in nodes
      BY <2>2 DEF Reached, Closed
  <2> QED
      BY <2>1, <2>2 DEF Reached
<1> QED
    BY <1>1, <1>2 DEF Closed

LEMMA ReachedLeast ==
  ASSUME NEW heap, NEW n, NEW nodes \in SUBSET DOMAIN heap, n \in nodes, Closed(heap, nodes)
  PROVE  Reached(heap, n) \subseteq nodes
    BY DEF Reached

LEMMA ReachedItems ==
  ASSUME NEW heap, IsHeap(heap), NEW n \in DOMAIN heap
  PROVE  Reached(heap, n) = {n} \cup UNION {Reached(heap, item) : item \in ItemsOf(heap, n)}
<1> DEFINE nodes == {n} \cup UNION {Reached(heap, item) : item \in ItemsOf(heap, n)}
<1>1. ItemsOf(heap, n) \subseteq DOMAIN heap
    BY DEF ItemsOf, IsHeap, ToSet
<1>2. nodes \in SUBSET DOMAIN heap
    BY <1>1, ReachedClosed
<1>3. Closed(heap, nodes)
  <2> SUFFICES ASSUME NEW m \in nodes, NEW item \in ItemsOf(heap, m) PROVE item \in nodes
      BY DEF Closed
  <2>1. CASE m = n
      BY <1>1, <2>1, ReachedItself
  <2>2. ASSUME NEW i \in ItemsOf(heap, n), m \in Reached(heap, i)
        PROVE  item \in nodes
      BY <1>1, <2>2, ReachedClosed DEF Closed
  <2> QED
      BY <2>1, <2>2
<1>4. Reached(heap, n) \subseteq nodes
    BY <1>2, <1>3, ReachedLeast
<1>5. ASSUME NEW i \in ItemsOf(heap, n) PROVE Reached(heap, i) \subseteq Reached(heap, n)
  <2>1. i \in Reached(heap, n)
      BY <1>5, ReachedItself, ReachedClosed DEF Closed
  <2> QED
      BY <2>1, ReachedClosed, ReachedLeast
<1>6. nodes \subseteq Reached(heap, n)
    BY <1>5, ReachedItself
<1> QED
    BY <1>4, <1>6

(* Node n converts while the containers of `active` are being converted.       *)
Good(heap, n, active) ==
    \A m \in Reached(heap, n) :
       /\ heap[m].kind # "bad" /\ ~ OnCycle(heap, m)
       /\ heap[m].kind = "container" => m \notin active

LEMMA GoodContainer ==
  ASSUME NEW heap, IsHeap(heap), NEW n \in DOMAIN heap, NEW active,
         heap[n].kind = "container", n \notin active
  PROVE  Good(heap, n, active) <=>
             \A item \in ItemsOf(heap, n) : Good(heap, item, active \cup {n})
<1>1. \A m : m \in Reached(heap, n) <=>
                m = n \/ \E item \in ItemsOf(heap, n) : m \in Reached(heap, item)
    BY ReachedItems
<1>2. ASSUME Good(heap, n, active), NEW item \in ItemsOf(heap, n)
      PROVE  Good(heap, item, active \cup {n})
  <2>1. \A m \in Reached(heap, item) : m # n
      BY <1>1, <1>2 DEF Good, OnCycle
  <2> QED
      BY <1>1, <1>2, <2>1 DEF Good
<1>3. ASSUME \A item \in ItemsOf(heap, n) : Good(heap, item, active \cup {n})
      PROVE  Good(heap, n, active)
  <2>1. ~ OnCycle(heap, n)
      BY <1>3 DEF Good, OnCycle
  <2> QED
      BY <1>1, <1>3, <2>1 DEF Good
<1> QED
    BY <1>2, <1>3

LEMMA GoodOther ==
  ASSUME NEW heap, IsHeap(heap), NEW n \in DOMAIN heap, NEW active
  PROVE  /\ heap[n].kind # "container" => (Good(heap, n, active) <=> heap[n].kind = "leaf")
         /\ heap[n].kind = "container" /\ n \in active => ~ Good(heap, n, active)
<1>1. CASE heap[n].kind # "container"
  <2>1. ItemsOf(heap, n) = {}
      BY <1>1 DEF ItemsOf
  <2>2. Reached(heap, n) = {n} /\ ~ OnCycle(heap, n)
      BY <2>1, ReachedItems DEF OnCycle
  <2> QED
      BY <1>1, <2>2 DEF Good, IsHeap
<1>2. CASE heap[n].kind = "container"
    BY <1>2, ReachedItself DEF Good
<1> QED
    BY <1>1, <1>2

-----------------------------------------------------------------------------
(* What _to_json_value answers for n, and leaves as active containers.         *)
Answer(heap, n, active) == [ok |-> Good(heap, n, active), active |-> active]

(* The items of container n converted by f, one after the other. *)
Upto(f, items, start) ==
    CHOOSE upto : upto = [i \in 0 .. Len(items) |->
        IF i = 0 THEN [ok |-> TRUE, active |-> start]
        ELSE IF upto[i - 1].ok THEN f[items[i]][upto[i - 1].active]
        ELSE upto[i - 1]]

AllAnswered(heap, f, items, start) ==
    \A i \in 1 .. Len(items) : f[items[i]][start] = Answer(heap, items[i], start)

AllGood(heap, items, start) == \A i \in 1 .. Len(items) : Good(heap, items[i], start)

LEMMA ItemsConverted ==
  ASSUME NEW heap, NEW items, Len(items) \in Nat, NEW start, NEW f,
         AllAnswered(heap, f, items, start)
  PROVE  Upto(f, items, start)[Len(items)] =
            [ok |-> AllGood(heap, items, start), active |-> start]
<1> DEFINE Step(upto, i) == IF i = 0 THEN [ok |-> TRUE, active |-> start]
                            ELSE IF upto[i - 1].ok THEN f[items[i]][upto[i - 1].active]
                            ELSE upto[i - 1]
           Eq(upto) == upto = [i \in 0 .. Len(items) |-> Step(upto, i)]
           Expected(i) == [ok |-> \A k \in 1 .. i : Good(heap, items[k], start),
                           active |-> start]
           upto == CHOOSE u : Eq(u)
<1>1. Upto(f, items, start) = upto
    BY DEF Upto
<1>2. ASSUME NEW i \in 1 .. Len(items), NEW u, u[i - 1] = Expected(i - 1)
      PROVE  Step(u, i) = Expected(i)
  <2>1. \A k \in 1 .. i : k \in 1 .. (i - 1) \/ k = i
      OBVIOUS
  <2>2. \A k \in 1 .. (i - 1) : k \in 1 .. i
      OBVIOUS
  <2>3. i \in 1 .. i /\ i # 0
      OBVIOUS
  <2>4. /\ u[i - 1].active = start
        /\ u[i - 1].ok <=> \A k \in 1 .. (i - 1) : Good(heap, items[k], start)
      BY <1>2
  <2>5. CASE \A k \in 1 .. (i - 1) : Good(heap, items[k], start)
    <3>1. Step(u, i) = Answer(heap, items[i], start)
        BY <2>3, <2>4, <2>5 DEF AllAnswered
    <3>2. (\A k \in 1 .. i : Good(heap, items[k], start)) <=> Good(heap, items[i], start)
        BY <2>1, <2>2, <2>3, <2>5
    <3>3. Good(heap, items[i], start) \in BOOLEAN
        BY DEF Good
    <3> QED
        BY <3>1, <3>2, <3>3 DEF Answer
  <2>6. CASE ~ \A k \in 1 .. (i - 1) : Good(heap, items[k], start)
    <3>1. Step(u, i) = Expected(i - 1)
        BY <1>2, <2>3, <2>4, <2>6
    <3>2. (\A k \in 1 .. i : Good(heap, items[k], start)) <=>
              (\A k \in 1 .. (i - 1) : Good(heap, items[k], start))
        BY <2>2, <2>6
    <3> QED
        BY <3>1, <3>2
  <2> QED
      BY <2>5, <2>6
<1>3. \A u : Step(u, 0) = Expected(0)
  <2>1. \A k \in 1 .. 0 : Good(heap, items[k], start)
      OBVIOUS
  <2> QED
      BY <2>1
<1> HIDE DEF Step
<1>4. \E u : Eq(u)
  <2> DEFINE u == [i \in 0 .. Len(items) |-> Expected(i)]
  <2>1. ASSUME NEW i \in 0 .. Len(items) PROVE Step(u, i) = Expected(i)
    <3>1. CASE i = 0
        BY <1>3, <3>1
    <3>2. CASE i # 0
      <4>1. i \in 1 .. Len(items) /\ u[i - 1] = Expected(i - 1)
          BY <3>2
      <4> HIDE DEF u, Expected
      <4> QED
          BY <1>2, <4>1
    <3> QED
        BY <3>1, <3>2
  <2> HIDE DEF Expected
  <2>2. Eq(u)
      BY <2>1
  <2> QED
      BY <2>2
<1>5. Eq(upto)
    BY <1>4
<1> HIDE DEF upto, Expected
<1>6. \A i \in 0 .. Len(items) : upto[i] = Expected(i)
  <2> DEFINE S == {i \in 0 .. Len(items) : upto[i] = Expected(i)}
  <2>1. 0 \in S
      BY <1>3, <1>5
  <2>2. ASSUME NEW i \in 1 .. Len(items), i - 1 \in S PROVE i \in S
    <3>1. i \in 0 .. Len(items)
        OBVIOUS
    <3>2. upto[i] = Step(upto, i)
        BY <1>5, <3>1, Zenon
    <3> QED
        BY <1>2, <2>2, <3>1, <3>2
  <2> HIDE DEF S
  <2>3. \A i \in 0 .. Len(items) : i \in S
      BY <2>1, <2>2, InductionUpTo
  <2> QED
      BY <2>3 DEF S
<1>7. Upto(f, items, start)[Len(items)] = Expected(Len(items))
    BY <1>1, <1>6
<1> QED
    BY <1>7 DEF Expected, AllGood
-----------------------------------------------------------------------------
(* The body of _to_json_value, with f for the calls it makes of itself.        *)
Body(heap, f, n, active) ==
    IF heap[n].kind # "container" THEN [ok |-> heap[n].kind = "leaf", active |-> active]
    ELSE IF n \in active THEN [ok |-> FALSE, active |-> active]
    ELSE LET inside == Upto(f, heap[n].items, active \cup {n})[Len(heap[n].items)]
         IN [ok |-> inside.ok, active |-> Leave(inside.active, n)]

LEMMA BodyAnswers ==
  ASSUME NEW heap, IsHeap(heap), NEW n \in DOMAIN heap, NEW active \in SUBSET DOMAIN heap,
         NEW f,
         heap[n].kind = "container" /\ n \notin active =>
            \A item \in ItemsOf(heap, n) :
               f[item][active \cup {n}] = Answer(heap, item, active \cup {n})
  PROVE  Body(heap, f, n, active) = Answer(heap, n, active)
<1>1. CASE heap[n].kind # "container"
  <2>1. (heap[n].kind = "leaf") = Good(heap, n, active)
    <3>1. Good(heap, n, active) \in BOOLEAN
        BY DEF Good
    <3> QED
        BY <1>1, <3>1, GoodOther
  <2> QED
      BY <1>1, <2>1 DEF Body, Answer
<1>2. CASE heap[n].kind = "container" /\ n \in active
  <2>1. Good(heap, n, active) = FALSE
    <3>1. Good(heap, n, active) \in BOOLEAN
        BY DEF Good
    <3> QED
        BY <1>2, <3>1, GoodOther
  <2> QED
      BY <1>2, <2>1 DEF Body, Answer
<1>3. CASE heap[n].kind = "container" /\ n \notin active
  <2>0. PICK items, start : items = heap[n].items /\ start = active \cup {n}
      OBVIOUS
  <2>1. items \in Seq(DOMAIN heap)
      BY <1>3, <2>0 DEF IsHeap
  <2>2. Len(items) \in Nat /\ DOMAIN items = 1 .. Len(items)
      BY <2>1
  <2>3. ItemsOf(heap, n) = {items[i] : i \in 1 .. Len(items)}
      BY <1>3, <2>0, <2>2 DEF ItemsOf, ToSet
  <2>4. \A i \in 1 .. Len(items) : f[items[i]][start] = Answer(heap, items[i], start)
      BY <1>3, <2>0, <2>3
  <2>5. Upto(f, items, start)[Len(items)] =
           [ok |-> AllGood(heap, items, start), active |-> start]
    <3>1. AllAnswered(heap, f, items, start)
        BY <2>4 DEF AllAnswered
    <3> QED
        BY <2>2, <3>1, ItemsConverted
  <2>6. Good(heap, n, active) = AllGood(heap, items, start)
    <3>1. Good(heap, n, active) \in BOOLEAN
        BY DEF Good
    <3>2. Good(heap, n, active) <=> \A item \in ItemsOf(heap, n) : Good(heap, item, start)
        BY <1>3, <2>0, GoodContainer
    <3> QED
        BY <2>3, <3>1, <3>2 DEF AllGood
  <2>7. Upto(f, items, start)[Len(items)] = [ok |-> Good(heap, n, active), active |-> start]
      BY <2>5, <2>6
  <2>8. Leave(start, n) = active
      BY <1>3, <2>0 DEF Leave
  <2>9. Body(heap, f, n, active) =
           LET inside == Upto(f, items, start)[Len(items)]
           IN [ok |-> inside.ok, active |-> Leave(inside.active, n)]
      BY <1>3, <2>0 DEF Body
  <2> QED
      BY <2>7, <2>8, <2>9 DEF Answer
<1> QED
    BY <1>1, <1>2, <1>3

(* _to_json_value is defined on every finite heap, and what it answers.        *)
LEMMA Conversion ==
  ASSUME NEW heap, IsHeap(heap)
  PROVE  Convertible(heap) = Good(heap, 1, {})
<1> DEFINE D == DOMAIN heap
           Eq(f) == f = [n \in D |-> [active \in SUBSET D |-> Body(heap, f, n, active)]]
           convert == CHOOSE f : Eq(f)
<1>1. Convertible(heap) = convert[1][{}].ok
    BY DEF Convertible, Body, Upto
<1>2. \A n \in D : ItemsOf(heap, n) \subseteq D
    BY DEF ItemsOf, IsHeap, ToSet
<1>3. \E f : Eq(f)
  <2> DEFINE f == [n \in D |-> [active \in SUBSET D |-> Answer(heap, n, active)]]
  <2>1. ASSUME NEW n \in D, NEW active \in SUBSET D
        PROVE  Body(heap, f, n, active) = Answer(heap, n, active)
    <3>1. \A item \in ItemsOf(heap, n) :
             f[item][active \cup {n}] = Answer(heap, item, active \cup {n})
        BY <1>2
    <3> HIDE DEF f
    <3> QED
        BY <3>1, BodyAnswers
  <2>2. f = [n \in D |-> [active \in SUBSET D |-> Body(heap, f, n, active)]]
    <3> HIDE DEF D
    <3> QED
        BY <2>1, Zenon
  <2> QED
      BY <2>2
<1>4. Eq(convert)
    BY <1>3
<1> HIDE DEF convert
<1>5. ASSUME NEW n \in D, NEW active \in SUBSET D
      PROVE  convert[n][active] = Body(heap, convert, n, active)
  <2> HIDE DEF D
  <2>1. convert[n] = [a \in SUBSET D |-> Body(heap, convert, n, a)]
      BY <1>4, <1>5, Zenon
  <2> QED
      BY <1>5, <2>1, Zenon
<1> HIDE DEF Eq
(* With k nodes not active, for every k.                                       *)
<1>6. \A active \in SUBSET D, n \in D : convert[n][active] = Answer(heap, n, active)
  <2> DEFINE size == Cardinality(D)
             Left(active) == Cardinality(D \ active)
             S == {k \in 0 .. size : \A active \in SUBSET D, n \in D :
                      Left(active) <= k => convert[n][active] = Answer(heap, n, active)}
  <2>1. size \in Nat /\ IsFiniteSet(D)
      BY FS_CardinalityType DEF IsHeap
  <2>2. \A active \in SUBSET D : IsFiniteSet(D \ active) /\ Left(active) \in 0 .. size
    <3> TAKE active \in SUBSET D
    <3>1. D \ active \in SUBSET D
        OBVIOUS
    <3>2. IsFiniteSet(D \ active) /\ Cardinality(D \ active) <= Cardinality(D)
        BY <2>1, <3>1, FS_Subset
    <3>3. Cardinality(D \ active) \in Nat
        BY <3>2, FS_CardinalityType
    <3> QED
        BY <2>1, <3>2, <3>3
  <2>3. ASSUME NEW active \in SUBSET D, NEW n \in D, n \notin active
        PROVE  Left(active) > 0 /\ Left(active \cup {n}) = Left(active) - 1
    <3>1. n \in D \ active /\ D \ (active \cup {n}) = (D \ active) \ {n}
        BY <2>3
    <3>2. Cardinality((D \ active) \ {n}) = Cardinality(D \ active) - 1
        BY <2>2, <3>1, FS_RemoveElement
    <3>3. Cardinality(D \ active) # 0
        BY <2>2, <3>1, FS_EmptySet
    <3> HIDE DEF D
    <3> QED
        BY <2>2, <3>1, <3>2, <3>3
  <2> HIDE DEF Left, size
  <2>4. ASSUME NEW k \in 0 .. size, k = 0 \/ k - 1 \in S
        PROVE  k \in S
    <3> SUFFICES ASSUME NEW active \in SUBSET D, NEW n \in D, Left(active) <= k
                 PROVE  convert[n][active] = Answer(heap, n, active)
        OBVIOUS
    <3>1. ASSUME n \notin active, NEW item \in ItemsOf(heap, n)
          PROVE  convert[item][active \cup {n}] = Answer(heap, item, active \cup {n})
      <4>1. k # 0 /\ Left(active \cup {n}) <= k - 1
        <5>1. Left(active) > 0 /\ Left(active \cup {n}) = Left(active) - 1
            BY <2>3, <3>1
        <5>2. Left(active) \in 0 .. size
            BY <2>2, Zenon
        <5>3. k \in Nat /\ Left(active) <= k
            BY <2>1
        <5> QED
            BY ONLY <2>1, <5>1, <5>2, <5>3
      <4>2. active \cup {n} \in SUBSET D /\ item \in D
          BY <1>2
      <4>3. k - 1 \in S
          BY <2>4, <4>1
      <4> HIDE DEF D
      <4> QED
          BY <4>1, <4>2, <4>3
    <3>2. Body(heap, convert, n, active) = Answer(heap, n, active)
        BY <3>1, BodyAnswers
    <3> QED
        BY <1>5, <3>2
  <2> HIDE DEF S
  <2>5. size \in S
    <3>1. \A k \in 0 .. size : k \in S
        BY <2>1, <2>4, InductionUpTo
    <3> QED
        BY <2>1, <3>1
  <2> QED
    <3> SUFFICES ASSUME NEW active \in SUBSET D, NEW n \in D
                 PROVE  convert[n][active] = Answer(heap, n, active)
        OBVIOUS
    <3>1. Left(active) <= size
      <4>1. Left(active) \in 0 .. size
          BY <2>2, Zenon
      <4> QED
          BY <2>1, <4>1
    <3> HIDE DEF D
    <3> QED
        BY <2>5, <3>1 DEF S
<1>7. 1 \in D /\ {} \in SUBSET D
    BY DEF IsHeap
<1>8. convert[1][{}] = Answer(heap, 1, {})
    BY <1>6, <1>7
<1> QED
    BY <1>1, <1>8 DEF Answer

(* The reference: what is reached has no bad part and no cycle.                *)
LEMMA ConvertsJson ==
  ASSUME NEW heap, IsHeap(heap)
  PROVE  Convertible(heap) <=> Json(heap)
    BY Conversion DEF Good, Json

-----------------------------------------------------------------------------
(* The outcome of a callable that returned, until the next call. *)

ResultInv ==
    ended = "returned" /\ progress = "open" =>
        outcome = IF Encodes(Tool.value) THEN "value" ELSE "encoding_error"

LEMMA InitResult == Init => ResultInv
  BY DEF Init, ResultInv

LEMMA StepResult == IInv /\ ResultInv /\ [Next]_vars => ResultInv'
<1> SUFFICES ASSUME IInv, ResultInv, [Next]_vars
             PROVE  ResultInv'
    OBVIOUS
<1>1. CASE stage = "defining" /\ (DefineTool \/ SetBuilt)
    BY <1>1 DEF IInv, StageInv, ResultInv, DefineTool, SetBuilt
<1>2. CASE Request
    BY <1>2 DEF Request, ResultInv
<1>3. CASE NotExecuted \/ UnknownTool \/ InvalidArguments
  <2>1. stage = "requested" /\ ended' = ended
      BY <1>3 DEF NotExecuted, UnknownTool, InvalidArguments, Executes, Answers
  <2> QED
      BY <2>1 DEF IInv, StageInv, ResultInv
<1>4. CASE StartCallable
    BY <1>4 DEF StartCallable, ResultInv
<1>5. CASE LoseProgress
    BY <1>5 DEF LoseProgress, ResultInv
<1>6. CASE AwaitResult \/ CancelWait \/ WorkerEnds \/ UNCHANGED vars
  <2>1. UNCHANGED <<registry, call, ended, progress, outcome>>
      BY <1>6 DEF AwaitResult, CancelWait, WorkerEnds, vars
  <2> QED
      BY <2>1, KnownKept DEF ResultInv
<1>7. CASE Return
  <2>1. /\ EffectEnds(IF Encodes(Tool.value) THEN "value" ELSE "encoding_error")
        /\ UNCHANGED <<registry, call, progress>>
      BY <1>7 DEF Return
  <2> QED
      BY <2>1, KnownKept DEF EffectEnds, Verdict, ResultInv
<1>8. CASE Raise \/ CancelLands
  <2>1. ended' # "returned"
      BY <1>8 DEF Raise, CancelLands, Ordinary
  <2> QED
      BY <2>1 DEF ResultInv
<1>9. DefineTool \/ SetBuilt => stage = "defining"
    BY DEF DefineTool, SetBuilt
<1> QED
    BY <1>1, <1>2, <1>3, <1>4, <1>5, <1>6, <1>7, <1>8, <1>9 DEF Next

-----------------------------------------------------------------------------
(* The model is told of a tool error only when it was wrong, or the callable   *)
(* raised what its author chose to return, or called another tool wrongly      *)
(* (FunctionTool.invoke, InvokeTool.execute): no cancellation, no exit and no  *)
(* lost progress event becomes a message, whatever the order of the callable,  *)
(* its worker, the observers and the cancellation.                             *)
THEOREM ErrorsAreExpected == Spec => []ErrorResultsAreExpected
<1>1. IInv => ErrorResultsAreExpected
    BY DEF IInv
<1> QED
    BY InitInv, StepInv, <1>1, PTL DEF Spec

(* A callable is started with exactly its parameters: values or defaults that  *)
(* validated, and the runtime's context under the one name the model can       *)
(* neither see nor set (ArgumentAdapter.validate), for every signature.        *)
THEOREM StartedAsDeclared == Spec => []StartsAsDeclared
<1>1. ASSUME IInv, ended # "not_started"
      PROVE  Declares(Tool, call.args, bound)
  <2>1. /\ registry \in Seq(Callables) /\ call.tool \in DOMAIN registry
        /\ Valid(Tool, call.args) /\ bound = Binding(Tool, call.args)
      BY <1>1 DEF IInv, RegistryInv, CallInv
  <2>2. Tool \in Callables
      BY <2>1 DEF Tool
  <2> QED
      BY <2>1, <2>2, BindingDeclares
<1>2. IInv => StartsAsDeclared
    BY <1>1 DEF StartsAsDeclared, Declares
<1> QED
    BY InitInv, StepInv, <1>2, PTL DEF Spec

(* A returned value becomes a result exactly when it is native or a finite     *)
(* tree of JSON values, its shared parts allowed, and an encoding error        *)
(* otherwise (encode_tool_result, _to_json_value): for every finite heap, with *)
(* its sharing and its cycles, and whatever the tool's error policy.           *)
THEOREM EncodedExactly == Spec => []EncodesExactlyJson
<1>1. ASSUME IInv, ended = "returned"
      PROVE  Encodes(Tool.value) <=> Tool.value.kind = "native" \/ Json(Tool.value.heap)
  <2>1. /\ registry \in Seq(Callables) /\ call.tool \in DOMAIN registry
      BY <1>1 DEF IInv, RegistryInv, CallInv
  <2>2. Tool \in Callables
      BY <2>1 DEF Tool
  <2>3. /\ Tool.value.kind \in {"native", "heap"}
        /\ Tool.value.kind = "heap" => IsHeap(Tool.value.heap)
      BY <2>2, ToolsAssumption DEF Callables, ToSet
  <2> HIDE DEF Tool
  <2> QED
      BY <2>3, ConvertsJson DEF Encodes
<1>2. IInv /\ ResultInv => EncodesExactlyJson
    BY <1>1 DEF ResultInv, EncodesExactlyJson
<1> QED
    BY InitInv, StepInv, InitResult, StepResult, <1>2, PTL DEF Spec
=============================================================================
