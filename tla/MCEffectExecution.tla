-------------------------- MODULE MCEffectExecution --------------------------
(* EffectExecution on small instances. *)
EXTENDS EffectExecution

(* Every order of a total deadline, a deadline per attempt and one or two      *)
(* retry layers.                                                               *)
Configurations == {<<"timeout", "retry", "timeout">>, <<"retry", "timeout">>,
                   <<"timeout", "retry">>, <<"retry", "timeout", "retry">>,
                   <<"timeout", "timeout">>}

(* The least chain that executes an effect again. *)
OneRetry == {<<"retry">>}
=============================================================================
