------------------------------ MODULE ModelCalls ------------------------------
(***************************************************************************)
(* What those who call models share: a budget of model calls (RunBudget is *)
(* its model) and the messages of a chat.  A tool call is a number.        *)
(***************************************************************************)
EXTENDS Integers, Sequences, FiniteSets, SequencesExt

CONSTANT CallLimit   \* the model calls the budget admits

ASSUME LimitAssumption == CallLimit \in Nat

VARIABLE admitted    \* the model calls admitted so far

\* AdmitModelCall counts the call, or refuses it.
Admitted ==
  /\ admitted < CallLimit
  /\ admitted' = admitted + 1

Refused ==
  /\ admitted = CallLimit
  /\ UNCHANGED admitted

-----------------------------------------------------------------------------
(* Messages *)

NoMessage == [role |-> "none", calls |-> <<>>, answers |-> 0, repairs |-> 0]

User == [NoMessage EXCEPT !.role = "user"]

\* A user's message that asks to repair the n-th reply.
Repair(n) == [User EXCEPT !.repairs = n]

Assistant(calls) == [NoMessage EXCEPT !.role = "assistant", !.calls = calls]

Tool(call) == [NoMessage EXCEPT !.role = "tool", !.answers = call]

\* The messages right after one that calls tools answer its calls, one each and in order, and a
\* message answers nothing else.
EachAnswered(messages) ==
  /\ \A i \in DOMAIN messages : \A j \in DOMAIN messages[i].calls :
       i + j \in DOMAIN messages /\ messages[i + j] = Tool(messages[i].calls[j])
  /\ \A i \in DOMAIN messages :
       messages[i].role = "tool" => \E k \in 1..(i - 1) : i - k \in DOMAIN messages[k].calls
=============================================================================
