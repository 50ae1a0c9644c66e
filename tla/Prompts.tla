------------------------------ MODULE Prompts ------------------------------
(***************************************************************************)
(* Where the texts of a prompt come from: the session of a conversation    *)
(* compiles its requests (PromptSession) from texts the application wrote  *)
(* with its templates (PromptTemplates).  A template knows nothing of the  *)
(* session and a session takes the text as it is: they share no state, and *)
(* one of them is used at a time.                                          *)
(***************************************************************************)
EXTENDS PromptSession, PromptTemplates

VARIABLE used   \* what is used

promptVars == <<vars, templateVars, used>>

PromptInit == Init /\ TemplateInit /\ used \in {"session", "templates"}

UseSession == used = "session" /\ Next /\ UNCHANGED <<templateVars, used>>

UseTemplates == used = "templates" /\ TemplateNext /\ UNCHANGED <<vars, used>>

(* compile() runs to its end, as in a session alone. *)
PromptSpec == PromptInit /\ [][UseSession \/ UseTemplates]_promptVars /\ WF_vars(CompileStep)
=============================================================================
