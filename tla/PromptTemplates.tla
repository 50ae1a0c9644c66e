--------------------------- MODULE PromptTemplates ---------------------------
(***************************************************************************)
(* Authoring of prompts: PromptTemplate (definition, derivation of bound   *)
(* templates, the three ways to render), RenderPolicy chains and           *)
(* PromptLibrary.  The caller keeps the mapping and the objects it binds,  *)
(* and may change them between any two calls.                              *)
(*                                                                         *)
(* Text is a sequence of tokens: words, "sp" for whitespace, "{" and "}",  *)
(* and a field in braces as one token, Braced(f).                          *)
(***************************************************************************)
EXTENDS Naturals, Sequences, FiniteSets

Seqs == INSTANCE SequencesExt

CONSTANTS
    Sources,       \* template strings: tokens [kind, text, format]
    PolicyMaps,    \* policies of a template: field -> chain of transforms
    Mappings,      \* contents of the caller's mapping: field -> value
    Overrides,     \* keyword arguments of a call: field -> value
    ObjectTexts,   \* what str() of the caller's mutable object may give
    TemplateNames, \* names of templates
    MaxTemplates   \* bound: templates the caller makes

(* The titles and wrappers of policies, and the failure of one. *)
Decoration == {"TITLE", "PREFIX", "SUFFIX"}

(* A text the caller wrote: told apart from what the policies add to it. *)
UserText(text) == text \in Seq(STRING) /\ Seqs!ToSet(text) \cap (Decoration \cup {"error"}) = {}

IsValue(value) ==
    /\ value.kind \in {"none", "text", "list", "object"}
    /\ value.kind = "text" => UserText(value.text)
    /\ value.kind = "list" =>
          /\ value.items \in Seq(Seq(STRING))
          /\ \A n \in DOMAIN value.items : UserText(value.items[n])

IsPolicy(chain) ==
    /\ Len(chain) \in Nat \ {0} /\ DOMAIN chain = 1 .. Len(chain)
    /\ \A n \in DOMAIN chain :
          /\ chain[n].op \in {"optional", "trim", "header", "wrap", "join", "min_len", "raises"}
          /\ chain[n].op = "optional" => UserText(chain[n].empty)

ASSUME TemplatesAssumption ==
    /\ \A text \in Sources : Len(text) \in Nat /\ DOMAIN text = 1 .. Len(text)
    /\ \A chains \in PolicyMaps : \A f \in DOMAIN chains : IsPolicy(chains[f])
    /\ \A given \in Mappings \cup Overrides :
          /\ given = [f \in DOMAIN given |-> given[f]]
          /\ \A f \in DOMAIN given : IsValue(given[f])
    /\ \A text \in ObjectTexts : UserText(text)
    /\ MaxTemplates \in Nat

VARIABLES
    source,     \* the template string
    policies,   \* its policies
    mapping,    \* the caller's mapping, now
    object,     \* the text of the caller's object, now
    templates,  \* the templates made: [name, values, ops]
    library,    \* name -> template, of the PromptLibrary built last
    result      \* of the call made last

templateVars == <<source, policies, mapping, object, templates, library, result>>

-----------------------------------------------------------------------------
(* Parsing.                                                                 *)

(* Formatter.parse raises on a lone brace; _parse_template on a field with a  *)
(* blank in its name, a conversion or a format specification.                 *)
Parses(text) == \A n \in DOMAIN text :
                   /\ text[n].kind \in {"literal", "escaped", "field"}  \* not "brace"
                   /\ text[n].kind = "field" => text[n].format = "none" \* not "spec", "blank"

Fields(text) == {text[n].text : n \in {m \in DOMAIN text : text[m].kind = "field"}}

-----------------------------------------------------------------------------
(* Policies.  A value is a text, a list of texts, None or the caller's      *)
(* object; a transform maps it to a text or to "error".                     *)

Blank(text) == \A n \in DOMAIN text : text[n] = "sp"

Strip(text) ==
    LET words == {n \in DOMAIN text : text[n] # "sp"}
    IN IF words = {} THEN <<>>
       ELSE SubSeq(text, CHOOSE n \in words : \A m \in words : n <= m,
                         CHOOSE n \in words : \A m \in words : m <= n)

IsEffectivelyEmpty(value) ==
    \/ value.kind = "none"
    \/ value.kind = "text" /\ Blank(value.text)
    \/ value.kind = "list" /\ value.items = <<>>

Str(value, objectText) ==
    CASE value.kind = "none"   -> <<"None">>
      [] value.kind = "text"   -> value.text
      [] value.kind = "list"   -> <<"[...]">>
      [] value.kind = "object" -> objectText

(* join_blocks over a list: blank items are left out, the others stripped. *)
JoinBlocks(items) ==
    LET joined[n \in 0 .. Len(items)] ==
          IF n = 0 THEN <<>>
          ELSE IF Blank(items[n]) THEN joined[n - 1]
          ELSE IF joined[n - 1] = <<>> THEN Strip(items[n])
          ELSE joined[n - 1] \o <<"sp">> \o Strip(items[n])
    IN joined[Len(items)]

(* Mutant: header and wrap look at the value only, not at its text. *)
DecorateAnyText(value, text, decorated) ==
    IF IsEffectivelyEmpty(value) THEN <<>> ELSE decorated

(* header and wrap: nothing around empty values and blank texts. *)
Decorate(value, text, decorated) ==
    IF IsEffectivelyEmpty(value) \/ Blank(text) THEN <<>> ELSE decorated

Transform(op, value, objectText) ==
    LET text == Str(value, objectText)
    IN CASE op.op = "optional" -> IF IsEffectivelyEmpty(value) THEN op.empty ELSE text
         [] op.op = "trim"     -> IF value.kind = "none" THEN <<>> ELSE Strip(text)
         [] op.op = "header"   -> Decorate(value, text, <<"TITLE", "sp">> \o text)
         [] op.op = "wrap"     -> Decorate(value, text, <<"PREFIX">> \o text \o <<"SUFFIX">>)
         [] op.op = "join"     -> IF IsEffectivelyEmpty(value) THEN <<>>
                                  ELSE IF value.kind = "list" THEN JoinBlocks(value.items)
                                  ELSE text
         [] op.op = "min_len"  -> IF value.kind = "none" \/ Len(Strip(text)) < op.length
                                  THEN <<>> ELSE text
         [] op.op = "raises"   -> <<"error">>    \* or returns no string

(* policy.then(other)...: the text of one transform is the next one's value. *)
Apply(chain, value, objectText) ==
    LET after[n \in 0 .. Len(chain)] ==
          IF n = 0 THEN value
          ELSE IF after[n - 1].kind = "text" /\ after[n - 1].text = <<"error">> THEN after[n - 1]
          ELSE [kind |-> "text", text |-> Transform(chain[n], after[n - 1], objectText)]
    IN after[Len(chain)].text

DefaultPolicy == << [op |-> "optional", empty |-> <<>>] >>

PolicyOf(f) == IF f \in DOMAIN policies THEN policies[f] ELSE DefaultPolicy

-----------------------------------------------------------------------------
(* Binding and rendering.                                                   *)

(* dict.update *)
Update(values, given) ==
    [f \in DOMAIN values \cup DOMAIN given |-> IF f \in DOMAIN given THEN given[f] ELSE values[f]]

(* _merge_values: later sources win. *)
Merge(values, given, overrides) == Update(Update(values, given), overrides)

Known(values) == DOMAIN values \subseteq Fields(source)

None == [kind |-> "none"]

ValueOf(values, f) == IF f \in DOMAIN values THEN values[f] ELSE None

Braced(f) == "{" \o f \o "}"

(* Mutant: the fields are replaced one after the other in the text so far. *)
RenderRescanning(values, partial) ==
    LET Substitute(text, f) ==
            Seqs!FlattenSeq([n \in DOMAIN text |->
                IF text[n] # Braced(f) \/ (partial /\ f \notin DOMAIN values) THEN <<text[n]>>
                ELSE Apply(PolicyOf(f), ValueOf(values, f), object)])
        literals == [n \in DOMAIN source |-> IF source[n].kind = "field"
                                             THEN Braced(source[n].text) ELSE source[n].text]
    IN Seqs!FoldLeft(Substitute, literals, Seqs!SetToSeq(Fields(source)))

PartOf(part, values, partial) ==
    IF part.kind # "field" THEN <<part.text>>
    ELSE IF partial /\ part.text \notin DOMAIN values THEN <<Braced(part.text)>>
    ELSE Apply(PolicyOf(part.text), ValueOf(values, part.text), object)

Parts(values, partial) == [n \in DOMAIN source |-> PartOf(source[n], values, partial)]

(* _render_parts; a failing policy ends it, which the "error" token stands for. *)
RenderParts(values, partial) == Seqs!FlattenSeq(Parts(values, partial))

Idle == [call |-> "none"]

TemplateInit == /\ source \in Sources
                /\ policies \in PolicyMaps
                /\ mapping \in Mappings
                /\ object \in ObjectTexts
                /\ templates = <<>>
                /\ library = <<>>
                /\ result = Idle

(* A template made by binding operations `ops`; or PromptDefinitionError. *)
Make(name, values, ops) ==
    /\ Len(templates) < MaxTemplates
    /\ IF Parses(source) /\ DOMAIN policies \subseteq Fields(source) /\ Known(values)
       THEN /\ templates' = Append(templates, [name |-> name, values |-> values, ops |-> ops])
            /\ result' = Idle
       ELSE /\ result' = [call |-> "rejected"]
            /\ UNCHANGED templates
    /\ UNCHANGED <<source, policies, mapping, object, library>>

(* PromptTemplate(name, template, policies=policies, values=mapping) *)
Define == \E name \in TemplateNames :
             Make(name, mapping, << [sets |-> mapping, removes |-> {}] >>)

WithValues == \E t \in DOMAIN templates, overrides \in Overrides :
    Make(templates[t].name, Merge(templates[t].values, mapping, overrides),
         templates[t].ops \o << [sets |-> mapping, removes |-> {}],
                                [sets |-> overrides, removes |-> {}] >>)

Unbind(values, keys) == [f \in DOMAIN values \ keys |-> values[f]]

WithoutValues == \E t \in DOMAIN templates : \E keys \in SUBSET Fields(source) :
    Make(templates[t].name, Unbind(templates[t].values, keys),
         Append(templates[t].ops, [sets |-> <<>>, removes |-> keys]))

(* A template without values is its own clear_values(). *)
ClearValues == \E t \in DOMAIN templates :
    /\ DOMAIN templates[t].values # {}
    /\ Make(templates[t].name, <<>>,
            Append(templates[t].ops, [sets |-> <<>>, removes |-> Fields(source)]))

(* PromptLibrary([...]): two templates of one name are rejected. *)
BuildLibrary ==
    \E chosen \in SUBSET DOMAIN templates :
       /\ IF \A t, u \in chosen : templates[t].name = templates[u].name => t = u
          THEN /\ library' = [name \in {templates[t].name : t \in chosen} |->
                                 CHOOSE t \in chosen : templates[t].name = name]
               /\ result' = Idle
          ELSE UNCHANGED library /\ result' = [call |-> "rejected"]
       /\ UNCHANGED <<source, policies, mapping, object, templates>>

(* Mutant: a template keeps the mapping it was defined from, not a copy of it. *)
MutateMappingShared ==
    /\ mapping' \in Mappings \ {mapping}
    /\ templates' = [t \in DOMAIN templates |->
                        IF Len(templates[t].ops) > 1 THEN templates[t]
                        ELSE [templates[t] EXCEPT !.values = mapping']]
    /\ result' = Idle
    /\ UNCHANGED <<source, policies, object, library>>

(* The caller changes what it handed over: the mapping, or the object in it. *)
MutateMapping == /\ mapping' \in Mappings \ {mapping}
                 /\ result' = Idle
                 /\ UNCHANGED <<source, policies, object, templates, library>>

MutateObject == /\ object' \in ObjectTexts \ {object}
                /\ result' = Idle
                /\ UNCHANGED <<source, policies, mapping, templates, library>>

(* render(strict=...), render_partial(); instruction(), reminder() and message() *)
(* wrap the text of render() without looking at it.                              *)
Outcome(values, mode) ==
    LET missing == Fields(source) \ DOMAIN values
        text == RenderParts(values, mode = "partial")
    IN CASE ~Known(values) -> [error |-> "unknown"]
         [] Known(values) /\ mode = "strict" /\ missing # {} ->
                [error |-> "missing", fields |-> missing]
         [] OTHER -> IF "error" \in Seqs!ToSet(text) THEN [error |-> "policy"]
                     ELSE [error |-> "none", text |-> text]

(* The template is at hand, or resolved in the library by its name. *)
Render ==
    /\ result = Idle
    /\ \E t \in DOMAIN templates \cup {library[name] : name \in DOMAIN library},
          overrides \in Overrides, mode \in {"strict", "lenient", "partial"} :
          LET values == Merge(templates[t].values, mapping, overrides)
          IN result' = [call |-> mode, values |-> values, outcome |-> Outcome(values, mode),
                        ops |-> templates[t].ops \o << [sets |-> mapping, removes |-> {}],
                                                       [sets |-> overrides, removes |-> {}] >>]
    /\ UNCHANGED <<source, policies, mapping, object, templates, library>>

TemplateNext ==
    \/ Define \/ WithValues \/ WithoutValues \/ ClearValues \/ BuildLibrary
    \/ MutateMapping \/ MutateObject \/ Render

TemplateSpec == TemplateInit /\ [][TemplateNext]_templateVars

-----------------------------------------------------------------------------
(* The bindings after a sequence of operations: for each field, what the last  *)
(* operation that touched it did.                                              *)
LastTouch(ops, f) ==
    LET touching == {n \in DOMAIN ops : f \in DOMAIN ops[n].sets \cup ops[n].removes}
    IN IF touching = {} THEN [sets |-> <<>>, removes |-> {f}]
       ELSE ops[CHOOSE n \in touching : \A m \in touching : m <= n]

BindingsOf(ops) ==
    LET names == UNION {DOMAIN ops[n].sets : n \in DOMAIN ops}
    IN [f \in {g \in names : g \in DOMAIN LastTouch(ops, g).sets} |->
            LastTouch(ops, f).sets[f]]

(* However its values were bound (in the constructor, in any series of         *)
(* with_values, without_values and clear_values, or in the render call), and   *)
(* whatever the caller did to its mapping meanwhile, a template holds and a    *)
(* render uses for every field what the last operation on that field said.     *)
LastBindingWins ==
    /\ \A t \in DOMAIN templates : templates[t].values = BindingsOf(templates[t].ops)
    /\ result.call \in {"strict", "lenient", "partial"} => result.values = BindingsOf(result.ops)

Occurrences(text, token) == {k \in DOMAIN text : text[k] = token}

(* How often a token comes out of the parts of the template, each by itself. *)
Supplied(token, values, mode) ==
    LET parts == Parts(values, mode = "partial")
    IN Cardinality(UNION {{n} \X Occurrences(parts[n], token) : n \in DOMAIN parts})

(* A rendered text holds what the literals and the values' policies give and   *)
(* nothing else: a brace or a {field} inside a value or an escaped literal is  *)
(* never taken for a placeholder, and only partial rendering leaves one.       *)
ValuesAreNeverTemplates ==
    result.call \in {"strict", "lenient", "partial"} /\ result.outcome.error = "none" =>
        \A token \in Seqs!ToSet(result.outcome.text) \cup {Braced(f) : f \in Fields(source)} :
            Cardinality(Occurrences(result.outcome.text, token)) =
                Supplied(token, result.values, result.call)

(* Under any chain of the built-in policies a title or wrapper appears only    *)
(* around words of the value: no section header over an empty section.         *)
NoOrphanDecoration ==
    result.call \in {"strict", "lenient", "partial"} /\ result.outcome.error = "none" =>
        \A f \in Fields(source) :
            LET text == Seqs!ToSet(Apply(PolicyOf(f), ValueOf(result.values, f), object))
            IN text \cap Decoration # {} => text \ (Decoration \cup {"sp"}) # {}
=============================================================================
