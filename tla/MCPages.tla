------------------------------ MODULE MCPages ------------------------------
(* The settings, the models tab, the debug tab, the file panel, the planner *)
(* chat, the output panel, the agent tab and the layout of a plan share no  *)
(* state: each behaviour of the instance uses one of them.                  *)
EXTENDS SettingsDialog, ModelsForm, DebugLog, FilePanel, ChatPage, OutputPanel, LLMOutput, DagLayout

CONSTANT Pages
VARIABLE page

pvars == <<svars, mvars, dvars, fvars, vars, ovars, pieces, lvars, page>>
PagesInit ==
    /\ SInit /\ MInit /\ DInit /\ FInit /\ Init /\ PInit /\ OInit /\ LInit /\ page \in Pages
    /\ page # "settings" => server.model = NoModel
    /\ page # "chat" => Selected = CHOOSE c \in Convs : TRUE
    /\ page # "output" => run = "idle"
    /\ page # "layout" => edges = {}
PagesNext ==
    \/ page = "settings" /\ SNext /\ UNCHANGED <<mvars, dvars, fvars, vars, ovars, pieces, lvars, page>>
    \/ page = "models" /\ MNext /\ UNCHANGED <<svars, dvars, fvars, vars, ovars, pieces, lvars, page>>
    \/ page = "debug" /\ DNext /\ UNCHANGED <<svars, mvars, fvars, vars, ovars, pieces, lvars, page>>
    \/ page = "files" /\ FNext /\ UNCHANGED <<svars, mvars, dvars, vars, ovars, pieces, lvars, page>>
    \/ page = "chat" /\ Next /\ UNCHANGED <<svars, mvars, dvars, fvars, ovars, pieces, lvars, page>>
    \/ page = "output" /\ PNext /\ UNCHANGED <<svars, mvars, dvars, fvars, vars, pieces, lvars, page>>
    \/ page = "agents" /\ ONext /\ UNCHANGED <<svars, mvars, dvars, fvars, vars, ovars, lvars, page>>
    \/ page = "layout" /\ LNext /\ UNCHANGED <<svars, mvars, dvars, fvars, vars, ovars, pieces, page>>
PagesSpec ==
    /\ PagesInit /\ [][PagesNext]_pvars
    /\ DFairness /\ FFairness /\ (page = "chat" => Fairness)

\* The chat comes to rest with the selected conversation, where it is used.
ChatSettles == page = "chat" => Settles

\* What the models tab, the filter of the agent tab and the plans range over.
Url == [f \in {"openai", "anthropic"} |-> IF f = "openai" THEN "o" ELSE "a"]
Plans == SUBSET (Cards \X Cards)

PagesTypeOK ==
    /\ STypeOK /\ MTypeOK /\ DTypeOK /\ FTypeOK /\ TypeOK /\ PTypeOK /\ OTypeOK /\ LTypeOK
=============================================================================
