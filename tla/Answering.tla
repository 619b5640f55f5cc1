------------------------------- MODULE Answering ------------------------------
(***************************************************************************)
(* What happens between a question and its answer: the history is loaded,  *)
(* the graph of the agent runs, and each of its requests to the model is   *)
(* fitted into the context window.  No part takes a decision from the      *)
(* state of another one, so one of them moves: focus says which.           *)
(***************************************************************************)
EXTENDS AgentLoop, PromptFit, HistoryCache

VARIABLE focus   \* the part that moves

AnyRequest == CHOOSE r \in Requests : TRUE

answeringVars == <<focus, agVars, fitVars, histVars>>

AnsweringInit == /\ focus \in {"history", "agent", "prompt"}
                 /\ HistInit /\ AgInit /\ FitInit
                 /\ focus # "prompt" => request = AnyRequest
                 /\ focus # "agent" => quota = CHOOSE q \in Quotas : TRUE

Graph == focus = "agent" /\ AgNext /\ UNCHANGED <<focus, fitVars, histVars>>
Fitting == focus = "prompt" /\ FitNext /\ UNCHANGED <<focus, agVars, histVars>>
History == focus = "history" /\ HistNext /\ UNCHANGED <<focus, agVars, fitVars>>

AnsweringNext == History \/ Graph \/ Fitting

AnsweringSpec == /\ AnsweringInit /\ [][AnsweringNext]_answeringVars
                 /\ WF_agVars(focus = "agent" /\ Node)

-----------------------------------------------------------------------------
(* AgentEnds of the agent that runs: from a question, or a continue, the   *)
(* graph comes to an answer, an error, or the round limit; the guards      *)
(* against repeated calls and endless repairs leave it no way to turn      *)
(* round for ever (agent_nodes.py, router and tool_executor_node).         *)
RunsEnd == focus = "agent" => AgentEnds
=============================================================================
