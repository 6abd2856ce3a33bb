----------------------------- MODULE PredictLoop -----------------------------
(***************************************************************************)
(* Calls of Predict (program.go, predict_tools.go): a call asks the model, *)
(* checks its reply and has it repaired, MaxParseRetries times at most.  A *)
(* Predict with tools chats: it runs the calls a reply makes and asks      *)
(* again, and a repair continues the chat.  One without tools sends one    *)
(* prompt a call, and a repair prompt of its own.                          *)
(*                                                                         *)
(* What a model answers is one of Answers.  Its form says which checks it  *)
(* passes: "unparsable" none, "invalid" JSON parsing, "loose" also the     *)
(* outputs' checks, "valid" also the schema of the whole reply.            *)
(***************************************************************************)
EXTENDS ModelCalls

CONSTANTS
  Predicts,        \* the calls of Predict
  Chats,           \* those of a Predict with tools
  OfferedCalls,    \* the tool calls whose tool the Predict offers
  MaxParseRetries, \* repairs of a call
  MaxToolTurns,    \* replies of a chat that may call tools
  Answers          \* what a model may answer

ASSUME PredictAssumption ==
  /\ Chats \subseteq Predicts
  /\ MaxParseRetries \in Nat /\ MaxToolTurns \in Nat \ {0}
  /\ \A a \in Answers :
       /\ a.finish \in {"stop", "length", "filter"}
       /\ a.form \in {"valid", "loose", "invalid", "unparsable"}
       /\ a.calls \in Seq(Nat)

VARIABLES
  accepts,  \* the calls whose OutputPolicy accepts valid truncated output
  place,    \* call -> where it is
  sends,    \* call -> the messages its next model call sends
  answered, \* call -> the replies without tool calls so far
  repairs,  \* call -> the replies it asked to repair
  turns,    \* call -> toolTurns
  calls,    \* call -> the tool calls of the latest reply that have not run
  out,      \* call -> the reply TypedPredict decoded last, 0 for none
  outcome   \* call -> the reply returned as prediction, 0 for nil, and whether with an error

predictVars == <<accepts, place, sends, answered, repairs, turns, calls, out, outcome>>

PredictInit ==
  /\ accepts \in SUBSET Predicts
  /\ place = [p \in Predicts |-> "begin"]
  /\ sends = [p \in Predicts |-> <<User>>]
  /\ answered = [p \in Predicts |-> <<>>]
  /\ repairs = [p \in Predicts |-> <<>>]
  /\ turns = [p \in Predicts |-> 0]
  /\ calls = [p \in Predicts |-> <<>>]
  /\ out = [p \in Predicts |-> 0]
  /\ outcome = [p \in Predicts |-> [prediction |-> 0, failed |-> FALSE]]

Enter(p, where) == place' = [place EXCEPT ![p] = where]

Return(p, prediction, failed) ==
  /\ outcome' = [outcome EXCEPT ![p] = [prediction |-> prediction, failed |-> failed]]
  /\ Enter(p, "returned")

Fails(p) == Return(p, 0, TRUE)

-----------------------------------------------------------------------------

\* Validate, the prompt, the response format and, for a chat, its registry and session.
BeginPredict(p) ==
  /\ place[p] = "begin"
  /\ \/ Enter(p, "ask") /\ UNCHANGED outcome
     \/ Fails(p)
  /\ UNCHANGED <<accepts, sends, answered, repairs, turns, calls, out, admitted>>

\* A model call is admitted against the budget before it is sent; a chat whose context has ended
\* asks for none.
Ask(p) ==
  /\ place[p] = "ask"
  /\ \/ p \in Chats /\ Fails(p) /\ UNCHANGED admitted
     \/ Refused /\ Fails(p)
     \/ Admitted /\ Enter(p, "asking") /\ UNCHANGED outcome
  /\ UNCHANGED <<accepts, sends, answered, repairs, turns, calls, out>>

\* FinishReasonError: a withheld reply is never used, a truncated one only when the policy accepts
\* it and it calls no tools.
Usable(p, answer) ==
  \/ answer.finish = "stop"
  \/ answer.finish = "length" /\ p \in accepts /\ answer.calls = <<>>

\* The model call fails, or its reply must not be used.
AskFails(p) ==
  /\ place[p] = "asking"
  /\ Fails(p)
  /\ UNCHANGED <<accepts, sends, answered, repairs, turns, calls, out, admitted>>

\* A reply without tool calls is next checked.
Replies(p) ==
  /\ place[p] = "asking"
  /\ \E answer \in Answers :
       /\ answer.calls = <<>> /\ Usable(p, answer)
       /\ answered' = [answered EXCEPT ![p] = Append(@, answer)]
  /\ sends' = [sends EXCEPT ![p] = IF p \in Chats THEN Append(@, Assistant(<<>>)) ELSE @]
  /\ Enter(p, "check")
  /\ UNCHANGED <<accepts, repairs, turns, calls, out, outcome, admitted>>

MayCallTools(p) == turns[p] < MaxToolTurns

\* A reply that calls tools, in a chat: one past MaxToolTurns is an error.
CallsTools(p) ==
  /\ place[p] = "asking" /\ p \in Chats
  /\ \E answer \in Answers :
       /\ answer.calls # <<>> /\ Usable(p, answer)
       /\ \/ /\ ~MayCallTools(p)
             /\ Fails(p)
             /\ UNCHANGED <<sends, turns, calls>>
          \/ /\ MayCallTools(p)
             /\ turns' = [turns EXCEPT ![p] = @ + 1]
             /\ sends' = [sends EXCEPT ![p] = Append(@, Assistant(answer.calls))]
             /\ calls' = [calls EXCEPT ![p] = answer.calls]
             /\ Enter(p, "tool")
             /\ UNCHANGED outcome
  /\ UNCHANGED <<accepts, answered, repairs, out, admitted>>

\* A tool is not offered, or the session's call fails.
ToolCallFails(p) ==
  /\ place[p] = "tool"
  /\ Fails(p)
  /\ UNCHANGED <<accepts, sends, answered, repairs, turns, calls, out, admitted>>

ToolCallAnswers(p) ==
  /\ place[p] = "tool" /\ Head(calls[p]) \in OfferedCalls
  /\ sends' = [sends EXCEPT ![p] = Append(@, Tool(Head(calls[p])))]
  /\ calls' = [calls EXCEPT ![p] = Tail(@)]
  /\ Enter(p, IF Tail(calls[p]) = <<>> THEN "ask" ELSE "tool")
  /\ UNCHANGED <<accepts, answered, repairs, turns, out, outcome, admitted>>

\* parseGeneration: a truncated reply must match the schema of the whole reply too.
Accepted(answer) ==
  answer.form = "valid" \/ (answer.form = "loose" /\ answer.finish # "length")

\* Mutation: every repair request is about the first reply.
ToRepairFirst(p) == 1

\* The repair request is about the latest reply.
ToRepair(p) == Len(answered[p])

\* The check of the latest reply.  One that passes the outputs' checks is decoded; one that is not
\* accepted is sent for repair while repairs are left, unless it was truncated, and is otherwise
\* returned with the error if it parsed.
Check(p) ==
  LET n == Len(answered[p])
      reply == answered[p][n]
      repairable == reply.finish # "length" /\ Len(repairs[p]) < MaxParseRetries
      request == Repair(ToRepair(p))
  IN /\ place[p] = "check"
     /\ out' = [out EXCEPT ![p] = IF reply.form \in {"valid", "loose"} THEN n ELSE @]
     /\ \/ /\ Accepted(reply)
           /\ Return(p, n, FALSE)
           /\ UNCHANGED <<sends, repairs>>
        \/ /\ ~Accepted(reply) /\ ~repairable
           /\ Return(p, IF reply.form = "unparsable" THEN 0 ELSE n, TRUE)
           /\ UNCHANGED <<sends, repairs>>
        \/ /\ ~Accepted(reply) /\ repairable
           /\ repairs' = [repairs EXCEPT ![p] = Append(@, ToRepair(p))]
           /\ sends' = [sends EXCEPT ![p] = IF p \in Chats THEN Append(@, request) ELSE <<request>>]
           /\ Enter(p, "ask")
           /\ UNCHANGED outcome
     /\ UNCHANGED <<accepts, answered, turns, calls, admitted>>

PredictStep(p) ==
  \/ BeginPredict(p) \/ Ask(p) \/ AskFails(p) \/ Replies(p) \/ CallsTools(p)
  \/ ToolCallFails(p) \/ ToolCallAnswers(p) \/ Check(p)

PredictNext == \E p \in Predicts : PredictStep(p)

-----------------------------------------------------------------------------
(* Properties. *)

\* The types of the variables.
PredictTypeOK ==
  /\ accepts \subseteq Predicts
  /\ place \in [Predicts -> {"begin", "ask", "asking", "check", "tool", "returned"}]
  /\ \A p \in Predicts :
       /\ Range(answered[p]) \subseteq Answers
       /\ repairs[p] \in Seq(Nat) /\ turns[p] \in 0..MaxToolTurns
       /\ outcome[p] \in [prediction : 0..Len(answered[p]), failed : BOOLEAN]
       /\ out[p] \in 0..Len(answered[p])

\* Whenever a chat asks the model, each tool call in its transcript has been answered, in order and
\* before the next reply, repair requests included.
PredictCallsAnswered ==
  \A p \in Predicts : place[p] = "asking" => EachAnswered(sends[p])

\* A call that returns without error returns the model's last reply, and TypedPredict has decoded
\* that reply and no other; a reply cut short was only used where the policy accepts it and it
\* passes every check, one withheld never.  With an error it returns the last reply or none.
ReturnsLastReply(p) ==
  LET n == Len(answered[p])
      result == outcome[p]
  IN place[p] = "returned" =>
       /\ result.prediction \in {0, n}
       /\ ~result.failed =>
            /\ result.prediction = n /\ out[p] = n
            /\ answered[p][n].form \in {"valid", "loose"}
            /\ answered[p][n].finish # "filter"
            /\ answered[p][n].finish = "length" => p \in accepts /\ answered[p][n].form = "valid"

\* The k-th repair request is about the k-th reply, one that failed its checks and was not cut
\* short; in a chat the transcript shows that reply right before the request.
RepairsLatest(p) ==
  \A k \in DOMAIN repairs[p] :
    /\ repairs[p][k] = k
    /\ answered[p][k].form \in {"invalid", "unparsable"} /\ answered[p][k].finish # "length"
    /\ p \in Chats =>
         \E i \in 2..Len(sends[p]) :
           sends[p][i] = Repair(k) /\ sends[p][i - 1] = Assistant(<<>>)

\* The replies that call tools count for the whole chat, repairs included: at most MaxToolTurns of
\* them have their tools run.
ToolTurnsBounded(p) ==
  Cardinality({i \in DOMAIN sends[p] : sends[p][i].calls # <<>>}) <= MaxToolTurns

\* What decides a call of Predict is the model's last reply, and every repair is of the reply before
\* it (the comments of Predict and RunCandidate in program.go).
LastReplyDecides ==
  \A p \in Predicts : ReturnsLastReply(p) /\ RepairsLatest(p) /\ ToolTurnsBounded(p)
=============================================================================
