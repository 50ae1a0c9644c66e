---------------------------- MODULE ModelEffects ----------------------------
(***************************************************************************)
(* What a model backend is used for: the two effects that end in a call of *)
(* it, as the driver executes them, a Generate (GenerateStream) or a       *)
(* Decide (DecisionExchange), and the suite that tests one from outside    *)
(* (Conformance).  They share no state; the application performs one or    *)
(* the other.                                                              *)
(***************************************************************************)
EXTENDS GenerateStream, DecisionExchange, Conformance

VARIABLE capability   \* what is performed

backendVars == <<vars, decisionVars, suiteVars, capability>>

EffectInit ==
    /\ Init /\ DecisionInit /\ SuiteInit
    /\ capability \in {"generate", "decide", "suite"}

PerformGenerate == /\ capability = "generate" /\ Next
                   /\ UNCHANGED <<decisionVars, suiteVars, capability>>

PerformDecide == /\ capability = "decide" /\ DecisionNext
                 /\ UNCHANGED <<vars, suiteVars, capability>>

PerformSuite == /\ capability = "suite" /\ SuiteNext
                /\ UNCHANGED <<vars, decisionVars, capability>>

EffectSpec ==
    EffectInit /\ [][PerformGenerate \/ PerformDecide \/ PerformSuite]_backendVars
=============================================================================
