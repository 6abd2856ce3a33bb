------------------------------- MODULE AgentRun -------------------------------
(***************************************************************************)
(* Concurrent runs of agents (agents/agent.go): each run chats, executes   *)
(* the tool calls of the reply in order and chats again, up to MaxTurns    *)
(* turns.  The runs share a budget of model calls and one TraceRecorder,   *)
(* whose traces SummarizeTrace condenses for reflection.                   *)
(*                                                                         *)
(* What the model and the tools answer is left open: a chat may fail, a    *)
(* reply may call tools even when none were offered, and a tool session's  *)
(* call (ToolSession) may fail.  Usage is a number of tokens.              *)
(***************************************************************************)
EXTENDS ModelCalls

CONSTANTS
  Runs,         \* the runs
  MaxTurns,     \* turns a run may take
  Batches,      \* the sequences of tool calls a reply may hold, the empty one among them
  FinishReasons,\* why the model may say a reply without tool calls ended
  ChatUsages,   \* the usage a chat may report
  ToolUsages    \* the usage a tool call may report: what counts against budgets and what does not

ASSUME RunAssumption ==
  /\ MaxTurns \in Nat \ {0}
  /\ Batches \subseteq Seq(Nat) /\ <<>> \in Batches
  /\ FinishReasons \subseteq {"stop", "length", "filter", "none"}
  /\ ChatUsages \subseteq Nat
  /\ ToolUsages \subseteq [budgeted : Nat, unbudgeted : Nat]

VARIABLES
  pc,         \* run -> where it is
  turn,       \* run -> its turn
  transcript, \* run -> the messages so far
  todo,       \* run -> the tool calls of the latest reply that have not run
  result,     \* run -> its RunResult and the error it returns with it
  traces      \* run -> the events recorded for it

agentVars == <<pc, turn, transcript, todo, result, traces>>

-----------------------------------------------------------------------------
(* Spans and events. *)

Span(kind, budgeted, unbudgeted) == [kind |-> kind, budgeted |-> budgeted, unbudgeted |-> unbudgeted]

StopReasons == [stop |-> "complete", length |-> "length", filter |-> "content_filter", none |-> "complete"]

\* mapFinishReason
MapFinishReason(reason) == StopReasons[reason]

Usage(res) == res.budgeted + res.unbudgeted

\* An event of run r at its turn n; every event carries the usage of the run so far.
Event(kind, n, res) ==
  [kind |-> kind, turn |-> n, usage |-> Usage(res), calls |-> <<>>, tool |-> 0, stop |-> "", err |-> FALSE]

NewResult ==
  [turns |-> 0, budgeted |-> 0, unbudgeted |-> 0, ledger |-> [models |-> 0, tools |-> 0, turns |-> 0, usage |-> 0],
   spans |-> <<>>, tools |-> <<>>, stop |-> "", final |-> NoMessage, failed |-> FALSE]

AddUsage(res, budgeted, unbudgeted) ==
  [res EXCEPT !.budgeted = @ + budgeted, !.unbudgeted = @ + unbudgeted]

-----------------------------------------------------------------------------

AgentInit ==
  /\ pc = [r \in Runs |-> "start"]
  /\ turn = [r \in Runs |-> 0]
  /\ transcript = [r \in Runs |-> <<User>>]
  /\ todo = [r \in Runs |-> <<>>]
  /\ result = [r \in Runs |-> NewResult]
  /\ traces = [r \in Runs |-> <<>>]
  /\ admitted = 0

Goto(r, where) == pc' = [pc EXCEPT ![r] = where]

\* The run's results become res and the recorder appends events to its trace.
Fire(r, res, events) ==
  /\ result' = [result EXCEPT ![r] = res]
  /\ traces' = [traces EXCEPT ![r] = @ \o events]

\* finishRun: the ledger and the run span are completed.
FinishRun(res, failed) ==
  [res EXCEPT !.ledger.turns = res.turns,
              !.spans = Append(@, Span("run", res.budgeted, res.unbudgeted)),
              !.failed = failed]

RunEnd(n, res) == [Event("run_end", n, res) EXCEPT !.stop = res.stop, !.err = res.failed]

BeginRun(r) ==
  /\ pc[r] = "start"
  /\ Fire(r, result[r], <<Event("run_start", 0, result[r])>>)
  /\ Goto(r, "turn")
  /\ UNCHANGED <<turn, transcript, todo, admitted>>

BeginTurn(r) ==
  /\ pc[r] = "turn" /\ turn[r] < MaxTurns
  /\ turn' = [turn EXCEPT ![r] = @ + 1]
  /\ Fire(r, result[r], <<Event("turn_start", turn[r] + 1, result[r])>>)
  /\ Goto(r, "chat")
  /\ UNCHANGED <<transcript, todo, admitted>>

\* finishMaxTurns: the last message is the final one only when the assistant wrote it.
FinishMaxTurns(r) ==
  LET last == Last(transcript[r])
      res == FinishRun([result[r] EXCEPT !.stop = "max_turns",
                                         !.final = IF last.role = "assistant" THEN last ELSE @], FALSE)
  IN /\ pc[r] = "turn" /\ turn[r] = MaxTurns
     /\ Fire(r, res, <<RunEnd(res.turns, res)>>)
     /\ Goto(r, "done")
     /\ UNCHANGED <<turn, transcript, todo, admitted>>

\* AdmitModelCall: the budget refuses the call, or counts it and the request is sent.
Chat(r) ==
  /\ pc[r] = "chat"
  /\ \/ LET res == FinishRun(result[r], TRUE)
        IN /\ Refused
           /\ Fire(r, res, <<RunEnd(turn[r], res)>>)
           /\ Goto(r, "done")
     \/ /\ Admitted
        /\ Fire(r, result[r], <<Event("llm_request", turn[r], result[r])>>)
        /\ Goto(r, "calling")
  /\ UNCHANGED <<turn, transcript, todo>>

\* Mutation: the usage of a failed chat is not counted.
ChatSpentOnReply(res, usage, failed) ==
  IF failed THEN [res EXCEPT !.ledger.models = @ + 1, !.spans = Append(@, Span("llm", usage, 0))]
  ELSE [res EXCEPT !.ledger.models = @ + 1, !.ledger.usage = @ + usage, !.spans = Append(@, Span("llm", usage, 0))]

\* The usage of a chat, a failed one's too, is recorded and added to the ledger.
ChatSpent(res, usage, failed) ==
  [res EXCEPT !.ledger.models = @ + 1, !.ledger.usage = @ + usage, !.spans = Append(@, Span("llm", usage, 0))]

ChatFails(r) ==
  /\ pc[r] = "calling"
  /\ \E usage \in ChatUsages :
       LET res == FinishRun(ChatSpent(result[r], usage, TRUE), TRUE)
       IN /\ Fire(r, res, <<RunEnd(turn[r], res)>>)
          /\ Goto(r, "done")
  /\ UNCHANGED <<turn, transcript, todo, admitted>>

\* recordChatResponse, then finishComplete when the reply calls no tools.
ChatReplies(r) ==
  /\ pc[r] = "calling"
  /\ \E usage \in ChatUsages, calls \in Batches, reason \in FinishReasons :
       LET message == Assistant(calls)
           res == AddUsage([ChatSpent(result[r], usage, FALSE) EXCEPT !.turns = turn[r]], usage, 0)
           response == [Event("llm_response", turn[r], res) EXCEPT !.calls = calls]
           done == FinishRun([res EXCEPT !.final = message, !.stop = MapFinishReason(reason)], FALSE)
       IN /\ transcript' = [transcript EXCEPT ![r] = Append(@, message)]
          /\ todo' = [todo EXCEPT ![r] = calls]
          /\ \/ /\ calls = <<>>
                /\ Fire(r, done, <<response, Event("turn_end", turn[r], done), RunEnd(turn[r], done)>>)
                /\ Goto(r, "done")
             \/ /\ calls # <<>>
                /\ reason = CHOOSE any \in FinishReasons : TRUE
                /\ Fire(r, res, <<response>>)
                /\ Goto(r, "tools")
  /\ UNCHANGED <<turn, admitted>>

BeginToolCall(r) ==
  /\ pc[r] = "tools"
  /\ Fire(r, result[r], <<[Event("tool_call_start", turn[r], result[r]) EXCEPT !.tool = Head(todo[r])]>>)
  /\ Goto(r, "tool")
  /\ UNCHANGED <<turn, transcript, todo, admitted>>

\* The usage of a tool call, a failed one's too, and its record.
ToolSpent(r, used) ==
  [AddUsage(result[r], used.budgeted, used.unbudgeted) EXCEPT
     !.ledger.usage = @ + used.budgeted + used.unbudgeted,
     !.ledger.tools = @ + 1,
     !.tools = Append(@, Head(todo[r])),
     !.spans = Append(@, Span("tool", used.budgeted, used.unbudgeted))]

ToolCallEnd(r, res, failed) ==
  [Event("tool_call_end", turn[r], res) EXCEPT !.tool = Head(todo[r]), !.err = failed]

\* Mutation: the loop over the tool calls stops after the first.
RestOfCallsNone(calls) == <<>>

RestOfCalls(calls) == Tail(calls)

\* The tool answers; after the last call of the reply the turn ends.
ToolAnswers(r) ==
  /\ pc[r] = "tool"
  /\ \E used \in ToolUsages :
       LET res == ToolSpent(r, used)
           rest == RestOfCalls(todo[r])
           end == <<ToolCallEnd(r, res, FALSE)>>
       IN /\ transcript' = [transcript EXCEPT ![r] = Append(@, Tool(Head(todo[r])))]
          /\ todo' = [todo EXCEPT ![r] = rest]
          /\ IF rest # <<>>
             THEN Fire(r, res, end) /\ Goto(r, "tools")
             ELSE Fire(r, res, Append(end, Event("turn_end", turn[r], res))) /\ Goto(r, "turn")
  /\ UNCHANGED <<turn, admitted>>

\* Mutation: the call that failed gets no event of its own.
FailedCallEventsNone(r, res) == <<RunEnd(turn[r], res)>>

\* The run ends before the event of the call that failed.
FailedCallEvents(r, res) == <<RunEnd(turn[r], res), ToolCallEnd(r, res, TRUE)>>

\* finishToolError
ToolFails(r) ==
  /\ pc[r] = "tool"
  /\ \E used \in ToolUsages :
       LET reply == transcript[r][Max({i \in DOMAIN transcript[r] : transcript[r][i].role = "assistant"})]
           res == FinishRun([ToolSpent(r, used) EXCEPT !.stop = "tool_error", !.final = reply], TRUE)
       IN /\ Fire(r, res, FailedCallEvents(r, res))
          /\ Goto(r, "done")
  /\ UNCHANGED <<turn, transcript, todo, admitted>>

RunStep(r) ==
  \/ BeginRun(r) \/ BeginTurn(r) \/ FinishMaxTurns(r)
  \/ Chat(r) \/ ChatFails(r) \/ ChatReplies(r)
  \/ BeginToolCall(r) \/ ToolAnswers(r) \/ ToolFails(r)

AgentNext == \E r \in Runs : RunStep(r)

-----------------------------------------------------------------------------
(* SummarizeTrace over a trace. *)

\* The events of a kind, in order.
Events(trace, kind) ==
  FlattenSeq([i \in DOMAIN trace |-> IF trace[i].kind = kind THEN <<trace[i]>> ELSE <<>>])

\* The events that carry an error, by their kinds: Errors holds the errors themselves.
Errors(trace) ==
  FlattenSeq([i \in DOMAIN trace |-> IF trace[i].err THEN <<trace[i].kind>> ELSE <<>>])

Summary(trace) ==
  LET ends == Events(trace, "tool_call_end")
      last == Events(trace, "run_end")
      seen == {trace[i].turn : i \in DOMAIN trace}
  IN [turns  |-> CHOOSE n \in seen : \A m \in seen : m <= n,
      tokens |-> Last(trace).usage,
      tools  |-> [i \in DOMAIN ends |-> ends[i].tool],
      errors |-> Errors(trace),
      stop   |-> IF last = <<>> THEN "" ELSE Last(last).stop]

-----------------------------------------------------------------------------
(* Properties. *)

\* The types of the variables.
AgentTypeOK ==
  /\ pc \in [Runs -> {"start", "turn", "chat", "calling", "tools", "tool", "done"}]
  /\ turn \in [Runs -> 0..MaxTurns]
  /\ \A r \in Runs : transcript[r] # <<>> /\ result[r].stop \in Range(StopReasons) \union {"", "max_turns", "tool_error"}
  /\ admitted \in 0..CallLimit

\* Whenever a run calls the model, and whenever it ends without an error, each tool call of its
\* transcript has been answered, in order and before the next reply (executeToolCalls).
AgentCallsAnswered ==
  \A r \in Runs :
    pc[r] = "calling" \/ (pc[r] = "done" /\ ~result[r].failed) => EachAnswered(transcript[r])

\* At any moment what a run reports adds up: the ledger counts every chat and every tool call,
\* failed ones too, as the spans do, and the usage of the run is that of the ledger but for a
\* failed chat's (the comment of RunResult).  The run's own span, of all of its usage, is added
\* once, when the run is done.
AddsUp(res, place) ==
  LET spans(kind) == {i \in DOMAIN res.spans : res.spans[i].kind = kind}
      spent(kind) == MapThenSumSet(LAMBDA i : Usage(res.spans[i]), spans(kind))
      failedChat == IF res.failed /\ res.ledger.models > res.turns THEN Usage(res.spans[Max(spans("llm"))]) ELSE 0
  IN /\ res.ledger.models = Cardinality(spans("llm")) /\ res.ledger.tools = Cardinality(spans("tool"))
     /\ Cardinality(spans("run")) = IF place = "done" THEN 1 ELSE 0
     /\ res.ledger.usage = spent("llm") + spent("tool")
     /\ Usage(res) = res.ledger.usage - failedChat
     /\ spent("run") = IF place = "done" THEN Usage(res) ELSE 0

LedgerAddsUp == \A r \in Runs : AddsUp(result[r], pc[r])

\* The errors told of a run: its own, and after it that of the call that failed it.
ErrorsTold(res) ==
  CASE ~res.failed -> <<>>
    [] res.failed /\ res.stop = "tool_error" -> <<"run_end", "tool_call_end">>
    [] OTHER -> <<"run_end">>

\* The summary of a run's trace tells what the run returned: its tool calls, its errors, its usage,
\* its stop reason and its turns, one more when its last chat never answered.
SummaryTells(trace, res) ==
  LET unanswered == res.failed /\ res.stop # "tool_error"
  IN Summary(trace) = [turns |-> IF unanswered THEN res.turns + 1 ELSE res.turns,
                       tokens |-> Usage(res), tools |-> res.tools, errors |-> ErrorsTold(res), stop |-> res.stop]

SummaryTellsRun == \A r \in Runs : pc[r] = "done" => SummaryTells(traces[r], result[r])
=============================================================================
