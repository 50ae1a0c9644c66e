--------------------------- MODULE MCModelEffects ---------------------------
(* ModelEffects on small instances. *)
EXTENDS ModelEffects

Option(tag, text) == [tag |-> tag, text |-> text, index |-> 0]
LevelOf(text, i) == [tag |-> "level", text |-> text, index |-> i]
Yes == Option("bool", "true")
YesText == Option("str", "true")
NoText == Option("str", "false")
None == Option("none", "")

Number(n) == [finite |-> TRUE, n |-> n]
NaN == [finite |-> FALSE, n |-> 0]

Question(name, kind, options) == [name |-> name, kind |-> kind, options |-> options]

Given(name, kind, choice, number, options, p) ==
    [name |-> name, kind |-> kind, choice |-> choice, number |-> Number(number),
     weights |-> [i \in DOMAIN options |-> [option |-> options[i], p |-> p]],
     confidence |-> Number(1)]

(* Questions of each kind, two of them under one name, and one that cannot be built. *)
SmallQuestions ==
    {Question("p", "predicate", <<>>), Question("q", "predicate", <<>>),
     Question("q", "choice", <<Yes, YesText>>), Question("p", "choice", <<YesText, NoText>>),
     Question("q", "choice", <<Yes, Yes>>),
     Question("q", "score", <<Option("level", "low"), Option("level", "low")>>)}

SmallAnswers ==
    {Given(name, "refusal", None, 0, <<>>, NaN) : name \in {"p", "q"}}
    \cup {Given(name, "predicate", None, n, <<>>, NaN) : name \in {"p", "q"}, n \in {-1, 1}}
    \cup {Given(name, "choice", choice, 0, options, Number(0)) :
             name \in {"p", "q"}, choice \in {Yes, YesText},
             options \in {<<YesText, Yes>>, <<YesText, NoText>>, <<Yes>>, <<Yes, Yes>>}}
    \cup {Given("q", "choice", Yes, 0, <<Yes, YesText>>, p) : p \in {NaN, Number(2)}}
    \cup {Given("q", "score", None, n, levels, Number(1)) :
             n \in 0 .. 2,
             levels \in {<<LevelOf("low", 1), LevelOf("low", 0)>>, <<LevelOf("low", 0)>>,
                         <<LevelOf("low", 0), LevelOf("high", 1)>>,
                         <<LevelOf("low", 0), LevelOf("high", 0)>>}}

AllAdapters == {"fresh", "merging", "appending"}

(* What is not performed starts in one way only. *)
Unused == capability # "suite" => adapter = "fresh" /\ selected = Standard

InitUsed == EffectInit /\ Unused

StartedSpec == InitUsed /\ [][PerformGenerate \/ PerformDecide \/ PerformSuite]_backendVars
=============================================================================
