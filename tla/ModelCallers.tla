----------------------------- MODULE ModelCallers -----------------------------
(***************************************************************************)
(* Agent runs (AgentRun) and calls of Predict (PredictLoop) in one         *)
(* pipeline run: they share the budget of model calls.                     *)
(***************************************************************************)
EXTENDS AgentRun, PredictLoop

callersVars == <<agentVars, predictVars, admitted>>

CallersInit == AgentInit /\ PredictInit

CallersNext ==
  \/ AgentNext /\ UNCHANGED predictVars
  \/ PredictNext /\ UNCHANGED agentVars

CallersSpec == CallersInit /\ [][CallersNext]_callersVars

-----------------------------------------------------------------------------
(* Properties. *)

\* Whoever calls a model, each tool call in what it sends has been answered, in order and before
\* the next reply: a provider refuses a transcript in which a call has no answer.
CallsAnswered == AgentCallsAnswered /\ PredictCallsAnswered
=============================================================================
