----------------------------- MODULE MCPrompts -----------------------------
(* Prompts on a small instance. *)
EXTENDS Prompts

Policy(kind, limit) == [kind |-> kind, limit |-> limit]

(* Two rounds need three messages of the turn in progress: a limit of 2 rejects *)
(* the second round, one of 5 keeps at most one short turn.                      *)
EachPolicy == {Policy("append", 0), Policy("window", 0), Policy("window", 1),
               Policy("budget", 2), Policy("budget", 5)}

Keyed(scope)   == [key |-> "a", scope |-> scope]
Unkeyed(scope) == [key |-> NoKey, scope |-> scope]

EachScope == {Keyed("conversation"), Keyed("next_request"), Unkeyed("next_request"),
              Unkeyed("turn")}

OneKey == {"a", NoKey}

Literal(text) == [kind |-> "literal", text |-> text, format |-> "none"]
Escaped(text) == [kind |-> "escaped", text |-> text, format |-> "none"]
Field(name)   == [kind |-> "field", text |-> name, format |-> "none"]

(* "w {f} {{ {g} {f}", "{{f}}" around a field, and four texts that do not parse. *)
SmallSources ==
    {<<Literal("w"), Field("f"), Escaped("{"), Field("g"), Field("f")>>,
     <<Escaped("{"), Field("g"), Escaped("}")>>,
     <<Field("f"), [kind |-> "brace", text |-> "{", format |-> "none"]>>,
     << [kind |-> "field", text |-> "f", format |-> "spec"] >>}

Text(tokens) == [kind |-> "text", text |-> tokens]
Object == [kind |-> "object"]

Op(name) == [op |-> name]
SmallPolicies ==
    {<<>>,
     [g |-> <<Op("header"), Op("wrap")>>],
     [g |-> <<Op("join"), Op("header"), [op |-> "min_len", length |-> 2], Op("trim")>>],
     [g |-> <<Op("wrap"), Op("raises"), Op("trim")>>]}

(* Values: words, blanks, a text that looks like a field, a list, the object. *)
SmallMappings ==
    {<<>>,
     [f |-> Text(<<"{g}">>), g |-> Object],
     [g |-> [kind |-> "list", items |-> << <<"sp">>, <<"b", "sp">>, <<"c">> >>]],
     [f |-> None, g |-> Text(<<"sp">>)],
     [x |-> Text(<<"a">>)]}

SmallOverrides == {<<>>, [g |-> Text(<<"a", "sp">>)]}
SmallTexts == {<<>>, <<"{f}", "o">>}

(* What is not used starts in one way only. *)
Unused == IF used = "session"
          THEN /\ source = <<Escaped("{"), Field("g"), Escaped("}")>>
               /\ policies = <<>> /\ mapping = <<>> /\ object = <<>>
          ELSE policy = Policy("append", 0) /\ committed = 0

InitUsed == PromptInit /\ Unused

StartedSpec == InitUsed /\ [][UseSession \/ UseTemplates]_promptVars /\ WF_vars(CompileStep)
=============================================================================
