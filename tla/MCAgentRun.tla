------------------------------ MODULE MCAgentRun ------------------------------
(* A run of an agent, a Predict with tools and one without share a budget of model calls. *)
EXTENDS ModelCallers

CONSTANTS agent, chat, prompt

MCBatches == {<<>>, <<1>>, <<2, 1>>}

MCToolUsages == {[budgeted |-> 1, unbudgeted |-> 0], [budgeted |-> 0, unbudgeted |-> 2]}

\* Texts, whole and truncated, calls of offered tools and of one that is not, a truncated
\* call and a withheld text.
MCAnswers ==
  {[calls |-> <<>>, finish |-> finish, form |-> form] :
     finish \in {"stop", "length"}, form \in {"valid", "loose", "invalid", "unparsable"}}
  \union {[calls |-> <<1, 2>>, finish |-> "stop", form |-> "unparsable"],
          [calls |-> <<3>>, finish |-> "stop", form |-> "unparsable"],
          [calls |-> <<1>>, finish |-> "length", form |-> "unparsable"],
          [calls |-> <<>>, finish |-> "filter", form |-> "valid"]}
===============================================================================
