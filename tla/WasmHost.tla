------------------------------- MODULE WasmHost -------------------------------
(***************************************************************************)
(* The WebAssembly module and its JavaScript host (cmd/wasm/gepago): jobs  *)
(* the host starts and cancels, whose goroutines call functions of the     *)
(* host and wait for the promises these return, beside the predict jobs.   *)
(*                                                                         *)
(* There is one thread.  A call of the host into Go runs goroutines until  *)
(* none can go on and only then returns; a goroutine's call of a host      *)
(* function runs host code, which may call into Go again.  "stack" holds   *)
(* these calls.  Timers fire when it is empty, promises settle whenever    *)
(* host code runs: what has a "then" may be an object of the host's own.   *)
(*                                                                         *)
(* What a job computes between its calls is left open: compile and         *)
(* optimize (the optimizer's model is Optimizer), pipeline.run (FlowRun),  *)
(* agent.run (AgentRun).  A job makes one call of the host at a time.      *)
(***************************************************************************)
EXTENDS PredictJobs, Sequences, SequencesExt

CONSTANTS
  Jobs,        \* the jobs the host may start
  Operation,   \* job -> "compile", "pipeline.run", "optimize" or "agent.run"
  MaxCalls,    \* bound: job -> the calls of the host it makes
  MaxDepth     \* bound: calls on the stack

ASSUME WasmAssumption ==
  /\ Operation \in [Jobs -> {"compile", "pipeline.run", "optimize", "agent.run"}]
  /\ MaxCalls \in [Jobs -> Nat] /\ MaxDepth \in Nat /\ MaxDepth >= 2

VARIABLES
  stack,      \* calls between host and Go that have not returned, the innermost last
  pc,         \* job -> where its goroutine is
  current,    \* wasmAsyncState.jobs
  cancelled,  \* the jobs whose context has ended, because the host cancelled them
  known,      \* the jobs whose id the host was given
  calls,      \* job -> how many calls of the host it made
  last,       \* job -> the kind of its last call, "" before the first
  after,      \* job -> how many of them it made after it was cancelled
  promise,    \* job -> the promise it attached to last: "none", "pending", "settled"
  callbacks,  \* job -> the Go callbacks attached to that promise: "none", "held", "released"
  completion, \* job -> the buffered channel of that wait: "", "value" or "error"
  failed,     \* job -> its operation returns an error
  failure,    \* job -> callbackFailure: an observer's or a dataset builder's error was kept
  outcome,    \* job -> the result it ended with
  delivered   \* job -> how often onComplete was called for it

jobVars == <<pc, current, cancelled, known, calls, last, after, promise, callbacks,
             completion, failed, failure, outcome, delivered>>

vars == <<predictVars, stack, jobVars>>

-----------------------------------------------------------------------------

Frame(kind, j) == [kind |-> kind, job |-> j]

Go == Frame("go", "")

\* The innermost call; the host's event loop when there is none.
Top == IF stack = <<>> THEN Frame("loop", "") ELSE Last(stack)

HostRuns == Top.kind \in {"loop", "call", "complete"}

GoRuns == Top.kind \in {"start", "go"}

Enter(frame) == stack' = Append(stack, frame)

\* Whether the goroutine of job j can go on.
Runnable(j) ==
  \/ pc[j] = "ready"
  \/ pc[j] = "waiting" /\ (completion[j] # "" \/ j \in cancelled)

Init ==
  /\ PredictInit
  /\ stack = <<>>
  /\ pc = [j \in Jobs |-> "none"]
  /\ current = {} /\ cancelled = {} /\ known = {}
  /\ calls = [j \in Jobs |-> 0]
  /\ last = [j \in Jobs |-> ""]
  /\ after = [j \in Jobs |-> 0]
  /\ promise = [j \in Jobs |-> "none"]
  /\ callbacks = [j \in Jobs |-> "none"]
  /\ completion = [j \in Jobs |-> ""]
  /\ failed = [j \in Jobs |-> FALSE]
  /\ failure = [j \in Jobs |-> FALSE]
  /\ outcome = [j \in Jobs |-> ""]
  /\ delivered = [j \in Jobs |-> 0]

-----------------------------------------------------------------------------
(* The host's calls into Go. *)

\* start, startAgent and startCapabilities
StartJob(j) ==
  /\ HostRuns /\ Len(stack) < MaxDepth
  /\ pc[j] = "none"
  /\ pc' = [pc EXCEPT ![j] = "ready"]
  /\ current' = current \union {j}
  /\ Enter(Frame("start", j))
  /\ UNCHANGED <<predictVars, cancelled, known, calls, last, after, promise, callbacks,
                 completion, failed, failure, outcome, delivered>>

\* cancel returns true: the job was still there.  A second cancel of it changes nothing.
Cancel(j) ==
  /\ HostRuns /\ Len(stack) < MaxDepth
  /\ j \in known /\ j \in current /\ j \notin cancelled
  /\ cancelled' = cancelled \union {j}
  /\ Enter(Go)
  /\ UNCHANGED <<predictVars, pc, current, known, calls, last, after, promise, callbacks,
                 completion, failed, failure, outcome, delivered>>

\* invoke with a predict operation
Invoke ==
  /\ HostRuns /\ Len(stack) < MaxDepth
  /\ PredictStep
  /\ Enter(Go)
  /\ UNCHANGED jobVars

\* A call into Go returns once no goroutine can go on; start's gives the host the job's id.
GoReturns ==
  /\ GoRuns
  /\ \A j \in Jobs : ~Runnable(j)
  /\ known' = IF Top.kind = "start" THEN known \union {Top.job} ELSE known
  /\ stack' = Front(stack)
  /\ UNCHANGED <<predictVars, pc, current, cancelled, calls, last, after, promise, callbacks,
                 completion, failed, failure, outcome, delivered>>

-----------------------------------------------------------------------------
(* The goroutine of a job. *)

\* A failed call of kind fails the operation, but that of an observer or of a dataset builder is
\* kept until the operation ends.
Fail(j, kind) ==
  IF kind \in {"observer", "dataset"}
  THEN failure' = [failure EXCEPT ![j] = TRUE] /\ UNCHANGED failed
  ELSE failed' = [failed EXCEPT ![j] = TRUE] /\ UNCHANGED failure

\* The last call of job j gave a value.  ToolSession.Call fails one that comes after the context
\* ended.
Answered(j) ==
  IF last[j] = "tool" /\ j \in cancelled THEN Fail(j, "tool")
  ELSE UNCHANGED <<failed, failure>>

\* The calls job j may make next: an agent chats first, and again after the tools of a reply.  A
\* metric, an evaluator, a proposer and the persistence of a state are "json".
Kinds(j) ==
  CASE Operation[j] = "optimize" -> {"json", "observer", "dataset"}
    [] Operation[j] = "compile" -> {"model", "json", "observer"}
    [] Operation[j] = "pipeline.run" -> {"model"}
    [] Operation[j] = "agent.run" -> IF calls[j] = 0 THEN {"chat"} ELSE {"tool"} \union
                                       (IF last[j] = "tool" THEN {"chat"} ELSE {})

\* Mutation: calls are made without a look at the context.
MayCallAlways(j, kind) == ~failed[j]

\* Every call but an agent's chat is preceded by a check of the context: generate,
\* invokeWASMJSONCallback, and ToolSession.Call for an agent's tools.
MayCall(j, kind) == ~failed[j] /\ (j \in cancelled => kind = "chat")

CallHost(j) ==
  /\ GoRuns /\ pc[j] = "ready" /\ Len(stack) < MaxDepth
  /\ calls[j] < MaxCalls[j]
  /\ \E kind \in Kinds(j) :
       /\ MayCall(j, kind)
       /\ last' = [last EXCEPT ![j] = kind]
  /\ calls' = [calls EXCEPT ![j] = @ + 1]
  /\ after' = [after EXCEPT ![j] = IF j \in cancelled THEN @ + 1 ELSE @]
  /\ pc' = [pc EXCEPT ![j] = "calling"]
  /\ Enter(Frame("call", j))
  /\ nextRequestID' = IF Operation[j] = "pipeline.run" THEN nextRequestID + 1 ELSE nextRequestID
  /\ UNCHANGED <<predictJobs, predictTold, requests, answers, current, cancelled, known, promise,
                 callbacks, completion, failed, failure, outcome, delivered>>

\* The host function returns a value, throws (or returns what cannot be decoded), or returns a
\* promise: its "then" is called with Go's callbacks, which is host code again.
HostReturns ==
  /\ Top.kind = "call" /\ pc[Top.job] = "calling"
  /\ LET j == Top.job
     IN \/ /\ pc' = [pc EXCEPT ![j] = "ready"]
           /\ Answered(j) \/ Fail(j, last[j])
           /\ stack' = Front(stack)
           /\ UNCHANGED <<promise, callbacks, completion>>
        \/ /\ pc' = [pc EXCEPT ![j] = "attaching"]
           /\ promise' = [promise EXCEPT ![j] = "pending"]
           /\ callbacks' = [callbacks EXCEPT ![j] = "held"]
           /\ completion' = [completion EXCEPT ![j] = ""]
           /\ UNCHANGED <<stack, failed, failure>>
  /\ UNCHANGED <<predictVars, current, cancelled, known, calls, last, after, outcome, delivered>>

\* attachWASMThenCatch returns, and the job waits; or the host's "then" or "catch" throws, and the
\* callbacks are released: a promise that settles later finds none.
Attached ==
  /\ Top.kind = "call" /\ pc[Top.job] = "attaching"
  /\ LET j == Top.job
     IN \/ /\ pc' = [pc EXCEPT ![j] = "waiting"]
           /\ UNCHANGED <<promise, callbacks, completion, failed, failure>>
        \/ /\ pc' = [pc EXCEPT ![j] = "ready"]
           /\ Fail(j, last[j])
           /\ promise' = [promise EXCEPT ![j] = "none"]
           /\ callbacks' = [callbacks EXCEPT ![j] = "released"]
           /\ completion' = [completion EXCEPT ![j] = ""]
  /\ stack' = Front(stack)
  /\ UNCHANGED <<predictVars, current, cancelled, known, calls, last, after, outcome, delivered>>

\* The promise settles: the callback fills the channel and releases both callbacks, whether the
\* job waits already, still or no more.
Settle(j) ==
  /\ HostRuns /\ Len(stack) < MaxDepth
  /\ promise[j] = "pending"
  /\ promise' = [promise EXCEPT ![j] = "settled"]
  /\ callbacks' = [callbacks EXCEPT ![j] = "released"]
  /\ \E answer \in {"value", "error"} : completion' = [completion EXCEPT ![j] = answer]
  /\ Enter(Go)
  /\ UNCHANGED <<predictVars, pc, current, cancelled, known, calls, last, after, failed, failure,
                 outcome, delivered>>

\* awaitWASMModel and awaitAgentHostValue: the channel is taken.
Received(j) ==
  /\ completion[j] # ""
  /\ completion' = [completion EXCEPT ![j] = ""]
  /\ IF completion[j] = "error" THEN Fail(j, last[j]) ELSE Answered(j)
  /\ UNCHANGED callbacks

\* Mutation: the wait for a promise does not end with the context.
StopsWaitingNever(j) == FALSE /\ UNCHANGED <<callbacks, completion, failed, failure>>

\* The context ends first: the callbacks stay, as the promise may still settle.
StopsWaiting(j) ==
  /\ j \in cancelled
  /\ Fail(j, last[j])
  /\ UNCHANGED <<callbacks, completion>>

\* With both, select takes either.
Wake(j) ==
  /\ GoRuns /\ pc[j] = "waiting"
  /\ Received(j) \/ StopsWaiting(j)
  /\ pc' = [pc EXCEPT ![j] = "ready"]
  /\ UNCHANGED <<predictVars, stack, current, cancelled, known, calls, last, after, promise,
                 outcome, delivered>>

\* The operation returns, with an error of its own or not; runWASMJob leaves its result to a timer.
EndJob(j) ==
  /\ GoRuns /\ pc[j] = "ready"
  /\ pc' = [pc EXCEPT ![j] = "ended"]
  /\ current' = current \ {j}
  /\ \E as \in {"ok", "error"} :
       /\ failed[j] \/ failure[j] => as = "error"
       /\ outcome' = [outcome EXCEPT ![j] = IF j \in cancelled THEN "cancelled" ELSE as]
  /\ UNCHANGED <<predictVars, stack, cancelled, known, calls, last, after, promise, callbacks,
                 completion, failed, failure, delivered>>

\* The timer fires: onComplete runs, host code that may call into Go.
Deliver(j) ==
  /\ stack = <<>> /\ pc[j] = "ended"
  /\ pc' = [pc EXCEPT ![j] = "delivered"]
  /\ delivered' = [delivered EXCEPT ![j] = @ + 1]
  /\ stack' = <<Go, Frame("complete", j)>>
  /\ UNCHANGED <<predictVars, current, cancelled, known, calls, last, after, promise, callbacks,
                 completion, failed, failure, outcome>>

OnCompleteReturns ==
  /\ Top.kind = "complete"
  /\ stack' = Front(stack)
  /\ UNCHANGED <<predictVars, jobVars>>

-----------------------------------------------------------------------------

JobStep(j) == CallHost(j) \/ Wake(j) \/ EndJob(j)

Next ==
  \/ \E j \in Jobs : StartJob(j) \/ Cancel(j) \/ JobStep(j) \/ Settle(j) \/ Deliver(j)
  \/ Invoke \/ GoReturns \/ HostReturns \/ Attached \/ OnCompleteReturns

Spec == Init /\ [][Next]_vars

\* Go and timers go on, and host functions return; no promise need ever settle.
FairSpec ==
  /\ Spec
  /\ \A j \in Jobs : WF_vars(JobStep(j)) /\ WF_vars(Deliver(j))
  /\ WF_vars(GoReturns) /\ WF_vars(HostReturns \/ Attached \/ OnCompleteReturns)

-----------------------------------------------------------------------------
(* Properties *)

\* The types of the variables.
TypeOK ==
  /\ PredictTypeOK
  /\ \A i \in DOMAIN stack :
       stack[i] \in [kind : {"go"}, job : {""}]
                   \union [kind : {"start", "call", "complete"}, job : Jobs]
  /\ Len(stack) <= MaxDepth
  /\ pc \in [Jobs -> {"none", "ready", "calling", "attaching", "waiting", "ended", "delivered"}]
  /\ current \subseteq known \union {j \in Jobs : pc[j] # "none"} /\ cancelled \subseteq known
  /\ last \in [Jobs -> {"", "chat", "tool", "json", "observer", "dataset", "model"}]
  /\ calls \in [Jobs -> Nat] /\ after \in [Jobs -> Nat] /\ delivered \in [Jobs -> Nat]
  /\ promise \in [Jobs -> {"none", "pending", "settled"}]
  /\ callbacks \in [Jobs -> {"none", "held", "released"}]
  /\ completion \in [Jobs -> {"", "value", "error"}]
  /\ failed \in [Jobs -> BOOLEAN] /\ failure \in [Jobs -> BOOLEAN]
  /\ outcome \in [Jobs -> {"", "ok", "error", "cancelled"}]

\* onComplete is called at most once for a job, only when the host knows the job's id, and tells
\* a success only when no call of the host failed, one whose error was kept neither.
Completed(j) ==
  /\ delivered[j] <= 1
  /\ delivered[j] = 1 => j \in known
  /\ outcome[j] = "ok" => ~failed[j] /\ ~failure[j]

\* A cancel that returned true is honoured however it meets the job: the job completes as
\* cancelled and no other does, it never calls the host again, an agent that chats after its tools
\* neither, and a promise keeps its callbacks until it settles, waited for or not.
CancelHonoured ==
  \A j \in Jobs :
    /\ Completed(j)
    /\ outcome[j] # "" => (outcome[j] = "cancelled" <=> j \in cancelled)
    /\ after[j] = 0
    /\ (promise[j] = "pending") = (callbacks[j] = "held")

\* A cancelled job completes, also when the promise it waits for never settles.
CancelledJobsComplete == \A j \in Jobs : j \in cancelled ~> delivered[j] = 1
=============================================================================
