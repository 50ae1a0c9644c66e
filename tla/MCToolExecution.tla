--------------------------- MODULE MCToolExecution ---------------------------
(* ToolExecution on a small instance. *)
EXTENDS ToolExecution

Param(name, kind, note, default) ==
    [name |-> name, kind |-> kind, note |-> note, default |-> default]

(* Every way a first parameter can be declared, alone and before a second one. *)
Firsts == {Param("a", "keyword", "plain", d) : d \in {"none", "good", "bad"}}
          \cup {Param("a", "keyword", "context", "none"), Param("a", "positional", "plain", "none")}
          \cup {Param("a", "keyword", n, "none") :
                n \in {"missing", "annotated_context"}}
Seconds == {Param("b", "keyword", "plain", "good"), Param("b", "keyword", "context", "none")}
Signatures == {<<>>} \cup {<<p>> : p \in Firsts} \cup {<<p, q>> : p \in Firsts, q \in Seconds}

Native == [kind |-> "native"]
ToolOf(name, signature, policy, sync, body, value) ==
    [name |-> name, signature |-> signature, policy |-> policy, sync |-> sync,
     body |-> body, value |-> value]

Simple(name) == ToolOf(name, <<>>, "propagate", "inline", "plain", Native)

(* Every heap of three nodes with at most two items each. *)
Items == {<<>>} \cup {<<i>> : i \in 1 .. 3} \cup {<<i, j>> : i, j \in 1 .. 3}
NodeKinds == {[kind |-> "leaf"], [kind |-> "bad"]}
                \cup {[kind |-> "container", items |-> i] : i \in Items}
Heaps == [1 .. 3 -> NodeKinds]

DeclaredAlone ==
    {<<ToolOf("t", signature, policy, sync, body, Native)>> :
        signature \in Signatures, policy \in {"propagate", "return_to_model"},
        sync \in {"inline", "thread"}, body \in {"plain", "coroutine", "awaitable"}}

Returning == {<<ToolOf("t", <<>>, "return_to_model", "inline", "plain",
                       [kind |-> "heap", heap |-> heap])>> : heap \in Heaps}

SmallCatalogs == DeclaredAlone \cup Returning
                   \cup {<<Simple("t"), Simple("u")>>, <<Simple("t"), Simple("t")>>}

(* One tool without parameters that propagates what it raises. *)
OneTool == {<<Simple("t")>>}

SmallArguments == UNION {[names -> {"good", "bad"}] : names \in SUBSET {"a", "b"}}

(* The inline executor; one that answers every effect; a handler for InvokeTool *)
(* that executes it, before one for all effects; two misses; nothing.           *)
SmallExecutors ==
    {[dispatch |-> <<>>, last |-> "inline"],
     [dispatch |-> << [Effect |-> "execute", InvokeTool |-> "answer"] >>, last |-> "inline"],
     [dispatch |-> << [Other |-> "answer"] >>, last |-> "none"]}
=============================================================================
