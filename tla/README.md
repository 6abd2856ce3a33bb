# TLA+ models of gepago

gepago is a Go library for building pipelines of model calls and optimising their prompts with
GEPA. These modules model the parts of it whose correctness depends on order: a flow engine that
can go back and take things back, steps that retry, time out and run side by side, what observers
are told of them, budgets and tool limits shared by concurrent calls, agents, an optimisation that
is saved and resumed, an artifact that processes share, and jobs in a JavaScript host. TLC checks
the models on small instances; TLAPS proves most of their safety properties for all of them. All paths are
relative to the root of the repository.

    tlc -workers 2 -config MCFlowRun.cfg MCFlowRun      # a run
    tlapm RunBudgetProofs.tla                           # a proof

## The system

| Part | State it keeps | Operations | What is hard |
| --- | --- | --- | --- |
| **Flow engine**: `pipeline.go`, `pipeline_transition_run.go`, `pipeline_exec.go`, `pipeline_cache.go` | the state's values and which are Defaults, visits per step, snapshots, one running rewind with its staged tool writes and cache journal, the step cache | one loop: visit a step, merge its writes, decide a transition, commit; on failure, restore or try the OnError rules | a rewind resets state, and may later be kept, rejected by Accept, or restored after an error; hooks may panic at every point |
| **Build analysis**: `pipeline_build.go`, `pipeline_transition.go`, `pipeline_transition_flow.go` | facts about the transitions: what is skipped, which ranges rewind, who writes what | accept or reject a pipeline | a static promise (every read is there, no write is lost) about all runs of the loop above |
| **Run budget and usage**: `pipeline_budget.go`, `usage.go`, `retry_lm.go` | per run and per step name: tokens, pending tokens, first error; per run: calls; per frame: returned calls | AdmitModelCall, retryCall (report, wait, next), finish, RecordUsage, deadline | shared by concurrent calls, each in several steps that release the mutex; retries nested in retries; three kinds of limit in a chain of runs |
| **Step execution, wrappers and composites**: `pipeline_exec.go`, `pipeline_policy.go`, `pipeline_flow.go`, `pipeline_map.go`, `pipeline_loop.go` | per execution: a stage of tool writes and cached tool results, a held report; contexts and their causes; slots; results per child | runNode, commit or drop; retry with a timeout, fail fast, element slots, iterate | timeouts, failures and cancellation meet in any order, and each decides what commits |
| **Observation, traces, redaction**: `pipeline_observe.go`, `pipeline_trace.go`, `pipeline_redact.go`, `pipeline_evaluation.go` | the lanes of a run, what is pending for a resolution, remembered texts, the recorded spans, an evaluation's capture | tell observers of a start, an end, a decision; resolve; scrub | runs nested in concurrent steps, held reports, observers and Redactors of different runs |
| **Tool sessions**: `tool_session.go` | per session: counts, total, cached results, records | Call: check, look up, reserve, invoke, store, record | a call counts in every enclosing session, under one mutex each; cached results live in stages that may be dropped |
| **Predict**: `program.go`, `predict_tools.go`, `output_policy.go`, `typed_predict.go` | per call: a transcript, the tool turns, the latest reply, the repairs left | ask, run the calls of a reply, check, repair, return | a repair in the middle of a chat, replies cut short or withheld, a reply decoded before it is accepted |
| **Agent loop**: `agents/` | a transcript, its pending calls, the run's result with ledger and spans, a trace | chat, tool call, end of a turn, end of a run | an error between any two of them must leave all of these in agreement |
| **Optimizer**: `optimizer.go`, `optimizer_state.go`, `persistence.go`, `selection.go` | candidates with their scores, best, frontier, metric calls, proposals; a state file and an event log | one loop of iterations; save; resume | the process may stop anywhere; candidates are scored on different examples |
| **Pareto frontier**: `optimizer_support.go` | none | computeFrontier | deletes from the map it ranges over, in random order |
| **Programme registry**: `program_registry.go`, `program_template.go`, `artifact*.go` | factories by name, a mutex per path; an artifact and a lock file on disk | register, load, train and save, load or train | two processes, a mutex inside each and a lock file between them, crashes and locks left behind |
| **WebAssembly host protocol**: `cmd/wasm/gepago/` | jobs, their contexts and callbacks; predict jobs with a pending request | start, cancel, wait for a promise, complete; answer a request | one thread on which host and Go call into one another, promises that never settle, answers that come twice |
| Typed state; prompts, schemas and signatures; tool registry; providers; examples and test helpers | mostly none across calls | format, parse, convert, forward | not order |

How they interact: `Pipeline.execute` runs the flow engine's loop; a step's execution opens a usage
frame (budget) and a stage (tool sessions, tool memory) and carries both in its context, so that
a model call made deep inside a step finds its frame, and a tool call its session and stage. A
budget error cancels the contexts of the frames under it, which the flow engine sees as the end of
a step. Each execution and decision is told to the observers of its run and of the runs around it.
An agent and a Predict call their models through the budget and their tools through a session. The optimizer runs
pipelines as evaluators and shares none of this state with them; the registry trains with it and
keeps what it found.

Each part's correctness is stated by the properties below, and `PROJECT.json` lists, under
`hazards`, the lines where each could go wrong and the properties that would show it.

## Modules

| Module | Models | Extends |
| --- | --- | --- |
| `RunBudget` | budgets, admission, retries and recording of concurrent model calls | |
| `BudgetLedger` | what one run's budget promises: the abstract specification of `RunBudget` | |
| `PipelineBuild` | what `Build` accepts, as the predicate `Accepted` on a pipeline | |
| `FlowRun` | one run of an accepted pipeline | `PipelineBuild` |
| `StepTree` | one execution of a step made of wrappers and composites | |
| `Observation` | what the observers of a run are told, and what Redactors keep from them | |
| `ToolSession` | tool calls through nested sessions, and the stages of step executions | |
| `ModelCalls` | what agents and Predicts share: the budget's model calls and the messages of a chat | |
| `AgentRun` | concurrent runs of an agent, their results and traces | `ModelCalls` |
| `PredictLoop` | calls of Predict and TypedPredict: tool turns, checks, repairs | `ModelCalls` |
| `ModelCallers` | the two side by side | `AgentRun`, `PredictLoop` |
| `Pareto` | the Pareto frontier, as a definition and its operators | |
| `FrontierLoop` | the loop of `frontierWeights` that computes it | `Pareto` |
| `Optimizer` | `Optimizer.Run`, its saves and resumes, with an instance of `FrontierLoop` wherever it computes the frontier | `Pareto` |
| `ProgramRegistry` | loading and training one artifact in several processes | |
| `PredictJobs` | the predict jobs of a WebAssembly host | |
| `WasmHost` | the asynchronous jobs and the calls between host and Go | `PredictJobs` |
| `RunBudgetProofs`, `FlowRunProofs`, `StepTreeProofs`, `ObservationProofs`, `CallersProofs` (agents, Predicts and the tool sessions they call), `TrainingProofs` (the optimizer, the frontier's loop and the registry, which trains with it), `WasmHostProofs` (with those of the predict jobs) | the proofs | the modules each is about |
| `ProofLemmas` | what they share: sums over finite sets, least counterexamples, flattened sequences | |
| `MC*` | instances for TLC | |

`FlowRun` takes the execution of a step to be one action that commits everything or nothing, and
`StepTree` opens that action up: `CommittedIsWhatStands` is the promise the first relies on.
`AgentRun` and `PredictLoop` take a tool call to be one action, which `ToolSession` opens up, and
the admission of a model call to be one, which `RunBudget` opens up.

An operator whose comment begins with "Mutation" or "A mutant" is not part of the model. It is one
definition of the module changed the way a bug in the code would change it; put in that
definition's place, it makes TLC find the property that `PROJECT.json` pairs it with violated,
which shows that the property depends on the code's getting it right.

### RunBudget

One step is what happens under the run's mutex, or between two calls. A caller is a goroutine
that makes model calls: `Admit` is AdmitModelCall, `Top` to `Retry` are the loop of `retryCall`
with the waits between its attempts, `Finish` is the end of the retry admission and `Record` is
RecordUsage. The gap between finishing and recording, where a second call with the same number of
tokens can settle the first one's pending tokens, is a step of its own. `call` holds one record
per level of nested retrying models. A frame is a running execution or a run; `Chain` gives the
frames around each, innermost first, so the model covers nested runs of any depth. `late` and
`cancelled` are apart because the budget's clock, the context's deadline and the recorded error
come at different times. Usage is a total, which providers may leave zero, and a sum of parts.
`burned` and `attempts` are history variables: what models really used and were asked.

### PipelineBuild and FlowRun

A pipeline is a record of steps by number, the keys they read and write, and the transitions.
`Accepted` translates the checks of Build that concern order; `FlowRun` runs the loop and assumes
nothing of a pipeline but that Build accepted it. A value is the set of visits whose writes it
combines, so a merge is a union and a write that was lost is missing from a set. `pc` follows the
code: `BeginVisit` (the top of `visit`), `StepFails` or `StepReturns` (the execution, the merge
and `decide`), `Succeeded` (`succeeded` and `follow`), `Failed`, `AskRestore`, `TryRule` and
`NoRule` (`failed`). When, Accept, Amend, RestoreOnError and merges may answer anything or panic,
and `EndContext` may end the run's context between any two steps. `kept` is history: the visits
that stand, what was there when the running rewind was taken, and `failedBack`, whether a hook that
panicked took a visit back.

### StepTree

The step is a tree of nodes, each with the kind of step it is. `Begin` and `Return` are the two
ends of `runNode`, which every kind goes through; between them a policy makes its attempts
(`TimeoutFires`, `AttemptEnds`, `NextAttempt`, and `WaitEndsEarly` for an ended `sleepContext`), a
cached step looks itself up, a Parallel cancels the others after the first failure, a Map takes a
slot for each element, and a Loop iterates. `inner` holds why the context a node gives its children
ended: the cause matters, since a budget's or a timeout's takes the place of the error it led to.
`log` keeps the executions with their reports, and the one hold, in which a wrapper's success waits
(`finishHold`); `staged` and `memory` follow what tools wrote outwards. `fate` is history: what
leaves did and what a failure, or an attempt that came too late, dropped. What a cache serves counts
again only when it was dropped: work that stands is nobody's new work, so a later failure of the step
that was served it does not take it away from the step that did it.

### Observation

A span is its path, so that what runs around it is a prefix. Every run has two lanes, its own and
the one an evaluation adds: `RootLanes` and `NestedLanes` are what `startRun` and `observeRun` make of
them. A lane that no run around opened is `NoLane`; one with a Redactor and no observer is `Live` and
silent, which is how such a Redactor reaches the errors of the runs around. Each `Tell...` operator
delivers over both lanes, in the code's order, as one step, because the code holds the trace's mutex
meanwhile; `...On` is what it does on one. Actions are the
points of the flow that tell something: a start, an end, a child's, an attempt's, a cache hit, a
dropped result, a merge that failed, and `Tells`, one transition event after the other. `obs.log`
is the history of what was delivered, to whom, with which keys, and what its error may repeat;
what a `RecordingObserver` has at the end is a fold over it. `Offer` is an evaluation's capture.
`RedactedStaysOut` asks of the runs around a span that nothing they hide is shown or said of it, and of
the runs inside that nothing they hide *and handled* comes out in an error: the text of an error may
repeat what failed executions read, wrote or tried to write, and only what a Redactor has seen can be
taken out of it.

### ToolSession

A call is a goroutine in `ToolSession.Call`. `reserve` takes its mutexes one at a time (`Lock`),
in the order sessions were created; everything else takes one and is one step. `Env` gives the
sessions around a call as `toolEnv` does. A step execution has a stage: what a session of a
pipeline run caches goes there first, and `CommitStep` moves it to the session or to the stage
around it. A call that was answered is named by the call that invoked the tool, so an answer from
work that was dropped can be told apart.

### AgentRun

One action per step of `run` that can fail or let another run in: the start, a turn's beginning,
the admission of a chat, its failure or reply, each tool call's beginning, answer or failure. Each
appends to the trace the events the code records there, in its order, and the result carries the
usage, the ledger and the spans the code adds to. Runs share the budget's model calls. `Summary`
is `SummarizeTrace`; of an error it keeps the kind of event that told it.

### PredictLoop

One action per step of `Predict.run`: the checks before any call (`BeginPredict`), the admission of
a model call (`Ask`), its failure or a reply that must not be used (`AskFails`), a reply with tool
calls (`CallsTools`, then `ToolCallAnswers` or `ToolCallFails`) or without (`Replies`), and the check of
it (`Check`), which returns, fails or asks for a repair. A Predict with tools appends to one
transcript (`runChat`); one without sends a prompt a call (`parseOrRepair`). A reply is its tool
calls, its finish reason and how many of the checks it passes; `out` is the variable that
TypedPredict's check assigns. `ModelCallers` lets agents and Predicts take turns on one budget.

### Optimizer, Pareto and FrontierLoop

`Optimizer` has one action per step of an iteration that may end the run, with the disk apart
from memory: `WriteTmp` and `Rename` are the two halves of `writeJSON`, and `Stop` is a crash, an
error or an ended context at any moment, in the middle of an evaluation or of a write too.
`FrontierLoop` is the loop of `frontierWeights`, which visits the map's keys in any order; the
optimizer enters it (`VisitWinner`, `FrontierFound`) after the seed and after every acceptance and
merge.

### ProgramRegistry

A caller is a goroutine that calls one of the four operations; `call` is what it has read and
built so far. `CreateLockFile` and `GiveUpLockFile` are `FileTrainLock.Lock`, `LockMutex` is the
mutex of `LoadOrTrain`, `Read` and `Attach` are `loadCompiled`, and `Build`, `Train` and `Save`
are `TrainAndSave`. `Crash` ends all calls of a process, and frees its mutexes but not its lock
file, which is then `Stale`, as is one that could not be closed or removed. An artifact records
what it was trained for, and by which call, as history.

### PredictJobs and WasmHost

`PredictJobs` has a request's number for each job that waits, and the host may answer any request
it ever got, for any job. In `WasmHost`, `stack` holds the calls between host and Go that have not
returned: the host runs in its event loop, in a function a job called or in `onComplete`, and from
each of these it may start or cancel jobs and call Go again. Goroutines run when Go is at the top;
the timers that deliver results fire when the stack is empty. What a host function returns is a value,
an error or a thenable: `HostReturns` then calls its `then` and `catch`, host code too, and `Attached`
is their return, or their throwing, which releases the callbacks. A thenable may settle whenever host
code runs (`Settle`), inside its own `then` as well. The error of an observer or of a dataset builder is
kept until the operation ends, that of any other call fails it (`Fail`); a tool that answers after the
cancel fails as well (`Answered`, which is `ToolSession.Call`).

What a job computes between its calls is left open; which calls it may make is `Kinds`. A job makes one
call of the host at a time: examples are evaluated and tools run in turn, and the pipelines a job runs
have no parallel steps.

## Runs

| Run | Instance | Properties |
| --- | --- | --- |
| `run_budget` | three callers, fair: two in the frame of one step, one in a nested run whose context may also end for another reason; one retries inside a retry, the others retry once; limits of 1 token for the run and 2 for the step, of 3 calls and 1 call, a deadline for the nested run | `QuietLedgerExact`, `OverspendStops`, `SpentNeverFalls`, `RunIsLedger`, `CallsEnd` |
| `run_budget_mixed_usage` | one caller without limits whose attempts report usage in two ways | `QuietLedgerExact`, violated |
| `flow_run` | four pipelines: a reviewed draft with Accept, RestoreOnError and Amend; a Fallback inside a rewind's range; a skip into a range; two ranges with a Branch; and every pipeline of three steps, two transitions and one key that Build accepts | `StateIsStandingVisits`, `DroppedWorkIsGone`, `BuildKept`, `RejectionRestores`, `RunEnds` |
| `flow_run_accept_fails` | a rewind with an Accept, of a step that skips another writer of its key on success and reaches it on failure | `NeverUnmerged`, violated |
| `step_tree` | ten trees: nine of two composites or wrappers, one inside the other or side by side, and a Loop over a WithPolicy over a WithCache | `CommittedIsWhatStands`, `EachReportedOnce`, `FailureIsReal`, `NothingStartsAfterEnd`, `StepTreeEnds` |
| `observation` | three pipelines (a Parallel with a nested pipeline; a wrapped step that a rewind revisits; a step in two wrappers), each with five sets of observers and Redactors | `EventsInOrder`, `AudienceTold`, `TracesAgree`, `RedactedStaysOut`, `ReflectionHides` |
| `observation_held` | the same | `AttemptsResolve`, violated |
| `tool_session` | four calls through three sessions, one created after the one it encloses; limits of 2, 1 and 1; a Parallel step, its children and a step of a nested run | `LimitsExact`, `RecordsComplete`, `HitsStand`, `CallsEnd` |
| `agent_run` | an agent's run of two turns, a Predict that chats with one tool turn and one that sends prompts, two repairs each, either output policy for each, four model calls for all | `CallsAnswered`, `LedgerAddsUp`, `SummaryTellsRun`, `LastReplyDecides` |
| `optimizer` | two validation examples, two scores, minibatches of one, eleven metric calls, merges, one stop and resume | `WasteBounded`, `StopsRecoverable`, `BestAndFrontierCurrent`, `LoopFindsFrontier`, `SavedWorkKept`, `RunReturns` |
| `program_registry` | two processes, three calls of the four operations, three shapes of which one has no fingerprint, a factory that fails for a missing file | `LoadsFit`, `ArtifactStands`, `EndedCallsReturn` |
| `wasm_host` | an agent's job of three calls and an optimisation of two, calls nested four deep, a predict job with one repair | `CancelHonoured`, `AnswersCounted`, `CancelledJobsComplete` |

Deadlock checking is off where a system may really stop: a run that has returned, calls that have
all been made, a job whose promise never settles. That nothing stops *early* is what the liveness
properties say. `Observation` keeps it on: a run goes on until it has ended. Each module also states
its types as `TypeOK`; those of the modules with proofs are proved.

### Why the bounds are enough

* **Budget.** Each caller makes one call (`CallBound`), but a call has up to four attempts, and
  two callers of one frame are what it takes to settle each other's tokens. Tokens are 0 or 1 an
  attempt, the run's limit lets one attempt through and the step's two, and every limit is below what the callers can spend, so each of them refuses in some
  behaviour. A nested run gives the chain run - step - run that limits are looked up along. What
  more callers would add is covered by the proofs.
* **Flow.** MaxVisits is 2 or 3, the first values at which a rewind can repeat and be refused. The
  four pipelines together take every disjunct of the loop. The small pipelines trade length for
  breadth: every combination of two transitions rather than four chosen pipelines. One key is
  enough for them, since Build looks at one key at a time.
* **Step trees.** Two levels of composites are enough for a cause to pass through one that could
  mistake it, and for a hold inside a retry. The third level of the tenth tree lets an attempt serve
  what an iteration before it cached, and be dropped. The proofs cover every other tree. Bounds of 2 let a policy retry, a Loop iterate and a
  Map have an element wait for a slot; a cached step under a policy gets three attempts, so that
  one that hit the cache can be retried. The step's own context may end at any moment.
* **Observation.** A nested run and a run that redacts what the other shows need two runs; the
  lanes split by who observes which of the two, and the five worlds take every case of that split:
  both observed, either, an evaluation with and without observers, a Redactor alone. Two attempts
  and two visits are the first that can be told in the wrong order.
* **Tool sessions.** Two calls for the last place of one limit, two sessions that enclose one
  another against the order they were created in, and a cached result that is dropped: four calls
  have room for all of them at once.
* **Agents.** Two turns have a first and a last, which offers no tools. Two calls in one reply let
  the first succeed and the second fail. Two repairs are the first that can be about the wrong reply,
  and one tool turn can be used before a repair and wanted again after it. Four model calls
  run out in the last step of any caller.
* **Optimizer.** Partial validation needs a budget that ends inside a validation, the frontier
  needs two examples, and `WasteBounded` needs a budget above the six calls one stop may waste.
  `MaxStarts` is 2: a third start adds nothing a second does not, since only the file carries over.
  The loop over the winners runs on whatever candidates came about; its proof covers any others.
* **Registry.** Two calls of one process and one of another meet at the mutex and at the lock file.
  Each caller calls once (`MaxCalls`), which leaves room for one to save, another to load and a third to
  train; two shapes can be told apart and one cannot. The proofs cover more of each.
* **WebAssembly.** A job of three calls can be cancelled before, in and after a call that waits, and an
  agent chats, calls a tool and would chat again. Four calls on the stack (`MaxDepth`, at least 2 for a
  call to return to another) let the host cancel a job from a function another job called while the
  first one runs. The run has no job that compiles or runs a pipeline, which make no kind of call that
  the two do not meet in their own (one that fails the operation, one whose error is kept), and one
  predict job, so that an answer is late or repeated but not for another job; the theorems hold for any jobs
  of every operation and any predict jobs.

### Fairness

In `RunBudget` each call in progress keeps running, since models answer, timers fire and a free
mutex is granted; nothing makes a caller start a call. In `FlowRun` the run is one goroutine and
its steps return; hooks return or panic. In `StepTree` some goroutine goes on whenever one can, and
leaves return; no timeout need fire and no context end. In `ToolSession` every call is a goroutine
and tools return, while no step need ever end. In `Optimizer` evaluators and proposers answer; the
process need never be started. In `WasmHost` goroutines go on, due timers fire and functions of the
host return, a `then` among them, but no promise need ever settle. All of it is weak fairness, which is what a goroutine
that can always go on gets from the Go scheduler. In `ProgramRegistry` taking the mutex is
strongly fair, as Go's mutex hands itself to a goroutine that has waited for long; nothing makes
a context end, or anyone remove a stale lock file. A tool or a model that never returns is
excluded, as the library's own documentation says that it waits.

### What the runs show

All properties of the passing runs hold. The three violated ones are disagreements between the
documentation and the code.

* `run_budget_mixed_usage`: `RunBudget`'s documentation says that limits count every token, by the
  total or, when a provider leaves that zero, by the parts (`src/pipeline_budget.go:18-20`). The
  code applies that rule to the *sum* of a retried call's attempts. When one attempt reports a
  total and another leaves it zero, the sum has a total, and the second attempt's tokens count
  against no limit. This is also why the proofs below assume usage reported in one way.
* `observation_held`: StepResolvedObserver's documentation says that retry attempts resolve before
  the next attempt starts (`src/pipeline_observe.go:112-114`), and a top-level step finishes before
  the next one starts (line 35). In two wrappers, an outer timeout may end while the inner wrapper
  returns a success it holds; the retry then starts before the held execution is finished and
  resolved. `EventsInOrder` and `TracesAgree` are therefore stated of steps in one wrapper.

* `flow_run_accept_fails`: two steps may write one key without a MergeRule if no run commits both,
  as when the earlier step's transitions on success skip the later one (`src/pipeline.go:302-304`); a
  merge that fails then "guards a broken invariant rather than a user error"
  (`src/pipeline.go:906-907`). When Accept panics at the end of a rewind, `flowRun.failed` restores the
  snapshot, which holds what the step wrote on its earlier visit, and then follows the step's
  transitions on failure (`src/pipeline_transition_run.go:306`), which Build did not look at because a
  step that fails writes nothing. One of them may lead to the second writer, whose merge fails. The
  proof of `BuildIsRight` found this: the invariant that the visits standing before a step lead to it
  breaks in exactly this step. `BuildKept` and the invariant say so: a visit's writes merge
  unless `failedBack`.

Two more observations are recorded under `hazards` without a property, because no documentation
says which behaviour is meant. A held execution whose success was real stores its result in the step
cache even when the wrapper around it fails for a reason of its own
(`src/pipeline_exec.go:406`). And `LoadOrTrain` takes every `os.ErrNotExist` for a missing artifact,
also one that a factory returned (`src/program_registry.go:260`), so it may train again and replace
an artifact that is there; `ArtifactStands` says what holds of every other call.

## Proofs

Every theorem holds for all values of its module's constants that satisfy the named ASSUMEs below.

| Module | Theorem | States |
| --- | --- | --- |
| `RunBudgetProofs` | `TypeCorrect`, `FailureCancelsAlways` | the types; an account with a budget error has cancelled a frame that spends from it, and in a run with one every caller's context has ended |
| | `OverspendStopsAlways` | `OverspendStops`: an overspend is noticed, and ends the contexts |
| | `ReturnedCoveredAlways`, `SpentNeverFallsAlways` | with uniform usage, pending tokens of a returned call are part of what will be recorded, and what is counted stays counted |
| | `LedgerIsExact` | with uniform usage, `QuietLedgerExact`: every token is recorded once |
| | `RunImplementsLedger` | with uniform usage, `RunBudget` implements `BudgetLedger` for the watched run |
| `FlowRunProofs` | `FlowInvariant`, `StateTellsVisits` | the inductive invariant; `StateIsStandingVisits` |
| | `BuildIsRight` | `BuildKept`: reads are there, and writes merge, in every pipeline `Accepted` |
| | `RewindsComeBack`, `DroppedStaysGone` | `RejectionRestores`, `DroppedWorkIsGone` |
| `StepTreeProofs` | `StepTreeInvariant`, `TypeCorrect` | the inductive invariant, the types |
| | `CommitsWhatStands`, `ReportsOnce`, `FailsForReal`, `NothingStartsLate` | the run's four safety properties, for every tree |
| `ObservationProofs` | `ObservationAlways`, `ObservationTyped` | the inductive invariant, the types |
| | `AudienceAlwaysTold` | `AudienceTold`: everyone concerned is told of each start and end, once, and nobody else |
| | `RedactedAlwaysOut`, `ReflectionAlwaysHides` | `RedactedStaysOut`, `ReflectionHides` |
| | `EventsAlwaysInOrder` | `EventsInOrder`: each observer is told in order |
| `TrainingProofs` | `LoopFindsFrontierAlways`, `RunsFindFrontier` | the loop over the map ends with the frontier, on any records and in every run |
| | `OptimizerInvariant`, `TypeCorrect` | the inductive invariant, the types |
| | `WasteIsBounded`, `StopsAreRecoverable`, `BestAndFrontierAlways`, `SavedWorkAlwaysKept` | the run's other safety properties |
| | `RegistryTypeCorrect`, `ArtifactStandsAlways`, `LoadsFitAlways` | the types and the run's two safety properties |
| `CallersProofs` | `CallersInvariant`, `CallersTypes` | the inductive invariant of agents and Predicts, the types |
| | `CallsAreAnswered`, `LedgersAddUp`, `SummariesTell`, `TheLastReplyDecides` | the run's four safety properties: the ledger adds up at any moment, and a summary tells turns, tool calls, errors, stop reason and usage |
| | `SessionTypes`, `LimitsHold`, `RecordsAreComplete`, `CachesServeWhatStands` | of tool sessions, the types and the run's three safety properties |
| | `ReserveNeverDeadlocks` | calls never wait for each other's mutexes in a circle |
| `WasmHostProofs` | `HostInvariant`, `TypeCorrect`, `CancelsAreHonoured`, `AnswersAreCounted` | the inductive invariants, the types and the run's two safety properties; a cancelled job never calls the host again |

**Assumptions.** `RunBudget`: frames form chains, limits and attempts are naturals. `FlowRun`:
`PipelinesAssumption`, that Build accepted the pipeline. `StepTree`: `TreesAssumption`, that a tree's
parents come before their children, leaves have no steps inside, and wrappers and loops one.
`Observation`: `StructureAssumption`, that pipelines have steps, wrappers stand around top-level steps
that are not composites and a nested pipeline runs no other one, which is as deep as the model
nests runs; `ReadsAssumption`, that a step reads inputs, what steps before it wrote, and what
its children read, as Build checks; `WorldsAssumption`, that an evaluation's recorder is no observer of
the pipelines, since the evaluation makes it.
`ToolSession`: sessions are finitely many and numbered as they were created, steps do not nest in a
circle, and the calls of a session that a pipeline run opened are made inside the step that run is in
(`NestingAssumption`). `Optimizer`: `ConfigAssumption`, what `withDefaults` and `Run`
check of the sizes. `ProgramRegistry`: well-formed operations. `ModelCallers`: `RunAssumption` and
`PredictAssumption`, that tool calls come in sequences, finish reasons are the four that the code maps, and
bounds are naturals. `WasmHost` and `PredictJobs`:
`WasmAssumption` and `PredictAssumption`, the kinds of job and naturals as bounds. "Uniform usage" is the
hypothesis `UniformUsage`: that a provider always reports a total or never does. Without it
`ReturnedCovered` and `QuietLedgerExact` are false, as the mixed run shows.

**Budget.** `RecordUsage` subtracts the pending tokens of the first returned call with the same
number of tokens, perhaps another's, and a limit must not gain room by it. That needs
`ReturnedCovered`, which is not inductive: when a call returns, what it reported must already be
known to be part of its usage. The inductive invariant `IInv` is `ReturnedCovered` and
`CallsCovered`, which says for each call in progress that what each of its levels has reported is
covered by the usage summed so far, with the unfinished inner level's on top; it is split by where the
caller is. From it, spending never falls (`SpentStep`), and with `NotRefused`, which turns an
admission into the ledger's guard, each step of `RunBudget` is a step of the ledger or a stutter.
`LedgerInv` is the bookkeeping under `LedgerIsExact`: what was burned at an account is what was
recorded and what its callers owe (`BurnedInv`), what is pending there is what they reported and
what was returned (`PendingInv`), as many calls of each size are returned in a frame as its callers
have yet to record (`EntriesInv`), and a run's admissions cover its attempts (`TicketsInv`). A sum over
callers is the size of a set of dots, so that what one caller's step adds, the sum follows
(`SumFollowsUp`).

**Flow.** `FlowInv` says that the state fits the visits that stand: each key holds the values of those
that wrote it (`Fits`); that the running rewind's snapshot is the state it was taken in, and the visits
since then are those of its range (`RewindInv`, from which both hooks give that state back); that what
is held for a rewind's target is what the visits before it wrote (`BeforeInv`); and that the visits
standing before a step are a way to it (`StandingInv`, with the exception `failedBack`). That way
is what `Accepted` analyses: `Reached` is the path of visits, `CoveredTo` what the analysis of skips
promises of it, and `Arrived` joins them for a key that a step reads. `WorkInv` adds the tools' memory,
the staged writes and the step cache with its journal.

**Step trees.** `StepTreeInv` has five parts besides the types. `PlacesFit`: a step has begun only inside
steps that run, a policy waits after a failed attempt, elements of MapCollectUntil run in turn. `CutDown`:
once a context ended, so have those made from it. `LogHolds`: the executions that run are those of the
nodes that run, at most one is held, and the hold knows which. `WorkFits`: what is staged stands and is
staged nowhere else that could drop it (`StagedStands`, `Apart`), and what was done inside a step that
runs and stands is staged inside it or at a child that is over or runs (`Accounted`), so at the root
nothing is missing. `FailFits`: a bare cancellation comes from a context around the step, for the first
failure its children listed too. Each of the nineteen operations of `StepOf` has one of four shapes,
each with one lemma: a step returns (`ReturnKeeps`, from `Ready`), begins (`BeginKeeps`), goes on while
a child moves (`GoesKeeps`), or a context ends (`CutKeeps`).

**Observation.** `ObservationInv` is `StructureInv`, that spans, flows and the held report fit one another,
and `ToldInv`, that the log, the traces' memory and the capture account for all of it. An action may tell
several things over two lanes each, so its proof is made of three parts. `Speaks` says what one
delivery adds to the log: events of one kind about one span, for one set of observers; the two lanes of a
run make up its `Watchers` (`BothLanes`), who are the audience of what the run is told (`AudienceIs`).
`Accounts(N, O)` says of the states before and after an action that the spans `N` started in it and that
the ends of `O` became due, which for a hold is when it is released. `Reporting(o, N, O)` says that the
log has come to tell of exactly these; it is carried from one delivery of the action to the next
(`ReportBegin`, `ReportEnd`, `ReportQuiet`), and with `Accounts` and what the action offers to the capture
(`KeptStep`) it gives the invariant back (`ToldAfter`). Each action has one lemma for the first two parts
(`...Accounts`) and one for the whole (`...Keeps`).
What a Redactor hides stays out of an error because whatever may be repeated was shown to the
lanes of its run before (`MemoryInv`: what ended has been remembered; an end remembers what it
attempted to write before it scrubs its own error), and because a run inside shares the trace of the
run around whenever that one is told anything, so that the one memory serves both (`EndHidesAround`,
`EndHidesInside`). That a run inside has ended when a span around it does, with everything in it, is
`NoDeeperRuns` and the last part of `SpansFit`. `ReflectionHides` rests on `KeptInv`: while an evaluation
records, whatever an execution read is in the capture from its start, because the flow only comes to
a step after what the steps before it wrote was offered (`KeepsRun`), and what a failed one
wrote from its failure.
`EventsInOrder` is about what one observer saw of a run that is over, and none of it is inductive: it
follows from `OrderInv`, kept on top of `ObservationInv`, which says at each moment what the log may hold next.
`Ordered` is the order in the log, of all lanes together: a span's start comes before everything within it
(`BeginsFirst`) and its end after everything told to those it was told to (`EndsLast`), a top-level
execution starts once everybody was told the end of those before it (`StepsEnd`), and a decision is on the
latest execution, ended and not resolved (`DecisionsAfter`). `RunOrder` relates the log to where each
flow stands: in a visit, its execution is the latest that started and is not resolved. `HoldFits` is where
one wrapper matters: what is held is reported before the flow leaves the visit. A step of the system
makes the log grow by events of a set that says what they are about and whom they reach (`Grows`); what
such a set must be so that the order stays is `Follows` (`OrderedGrows`), and `ObservationInv` shows that each
step's set is so (the lemmas `...Order`). At the end of the run nothing is untold, so an observer in a span's audience saw it
start once and end once (`SeenOnce`), and the order in the log is the order it saw.

**Tool sessions.** The mutexes are taken in the order of the sessions' ids: what a call holds is below
what it has yet to take (`LocksClimb`), so the greatest session that is waited for in a circle would be
below itself. Counts are the sizes of sets of calls (`CountsExact`); a record is complete once
`noted` covers `Governing` (`NotingInRecord`); a cached result stands because a stage's does
(`StagedStands`, `CachedStands`), and what stands keeps standing.

**Agents and Predicts.** `CallersInv` has one part per caller. A transcript and the calls its caller
has yet to run are related by `Owed`: the messages after a reply answer its calls one by one, the
last reply's as far as they exist, and what is left is what waits, so a transcript with nothing due has
answered everything, which is what `EachAnswered` says of it. Where calls may be due is `RunOwes` and
`PredictOwes`. For results, `Books` says that the ledger counts the spans of its kinds and sums their
usage, and `Balanced` adds that the result has paid for all of them as long as the run goes on; a
chat that fails breaks the second and not the first, and `Paid` says by how much, which is all that
`FinishRun` needs for `AddsUp`. For traces, `Tells` relates the events so far to the tool calls of the
result, `Reaches` and `RunGoesOn` its turns to the turn the run is in, and `Complete` is what an end of
the run makes of them, from which the summary is that of the result. `PredictKeeps` says at each place
of a Predict which reply it works on and how many repairs were about earlier ones; `ReturnsLastReply`
and `RepairsLatest` are inductive with it. The events that the model takes from flattened and filtered
sequences are handled one appended element at a time (`AppendToOne` and the lemmas on `FlattenSeq`
in `ProofLemmas`).

**Optimizer.** `OptimizerInv` follows one iteration: what each place finds in memory and in the file
(`PlacedInv`), that the state goes on from the file (`SavedInv`), that the log holds what either
remembers and is at most one iteration ahead (`LogInv`), how far the counted calls may be ahead of the
saved ones at each place (`AheadInv`), hence what a stop wastes (`WasteInv`), and that best and frontier
are those of the candidates (`BestInv`, `FrontInv`).

**Frontier.** The danger is a winner compared with the map after its dominator was deleted.
`LoopInv` rules it out: every winner deleted so far is dominated by one still in the map
(`DeletedAreCovered`), and no winner the loop has passed and kept is dominated by one still in the
map (`PassedAreUndominated`). When a winner is deleted, the one that dominates it stays, and by
transitivity takes over what the deleted one covered, so the invariant needs no induction over the
set. At the end every winner in the map has been passed. `DominatorWins` closes the last gap,
from "not dominated by a winner" to "not dominated by a candidate": whatever dominates a winner
is a winner.

**Registry.** `ArtifactStands` is about two moments, the read that found nothing and the save much
later. `ExclusionInv` joins them: who is past the mutex holds it (`HoldsMutex`), who is past the lock
file created the one that is there (`HoldsLockFile`), and while a call that found no artifact
trains, the artifact that may be there since is not by a call it excludes (`MissedStaysMissing`).
A crash keeps all three because it ends the calls with the mutexes and leaves the lock file to
nobody. `FitInv` says that an artifact's fingerprint is that of what it was trained for, of the one
on disk and of every copy a call has read, from which `LoadsFit` follows however factories change.

**WebAssembly.** `HostInv`: a job with a call on the stack is in that call, and in no other
(`CallsFit`); a job is known to the host, or being started by a call on the stack (`KnownInv`); how a job
that is over ended, and that a cancelled one made no call since (`JobsInv`). The last rests on the order
of steps, which is `RunsInv`: at most one job can go on at a time and none while host code runs, so a
cancel finds its job in a call or waiting. What it was waiting for then fails it, or was a
reply, whose tools are not called; only after a tool's answer would an agent chat again, and that
answer fails. `PredictInv`: a predict job's requests are its repairs and one, those answered are all but
the pending one, and its usage is the sum over the answers taken (`Counted`).

**Induction.** The library's induction theorems cannot be instantiated here, but an induction over
naturals can be had without them: the set of counterexamples, if not empty, has a least element
(`MinIn`), which is contradicted. So are the recursive functions of the models shown to be defined
(`AncestorsAre`, the folds of the community modules) and the sums that the proofs need to follow their
equations.

## Checked by TLC only

* `TracesAgree` of `Observation`: what a `RecordingObserver` holds is a fold over the log, so the
  statement is an induction over the fold's steps, and its agreement with the flow's decisions is about
  which execution was the last before each of them.
* All liveness (`CallsEnd` of `RunBudget` and of `ToolSession`, `RunEnds`, `StepTreeEnds`, `RunReturns`,
  `EndedCallsReturn`, `CancelledJobsComplete`): the prover has neither fairness nor ENABLED.

## Not modelled

* Of the flow engine's surroundings: names, labels and the shapes of Map and Loop that Build checks;
  in `StepTree`, errors of a commit inside a composite, what `checkBody` and `Validate` refuse, how
  element values are joined, and iteration numbers in traces.
* Of observation: observers that panic, details and metadata of events, tool calls and JSON in them,
  elements of a Map, the matching of hidden texts in error texts, rewinds of several steps, and
  transitions inside nested pipelines.
* Of agents: Memory and Store, which only tools touch, and the checks of an Agent before it runs. Of
  Predict: what Validate refuses, which is one failure, and how replies are parsed.
* Of the WebAssembly module: wire formats and their validation, and the operations without state.
* Of the registry: more than one programme name or path, manifests and the HTTP handler, which add no
  order, and temporary files that a crash leaves behind.
* Of budgets: unbudgeted usage and usage collectors, sums that no limit reads.
* Typed state, copying and freezing of values; prompt formatting, parsing, schemas; providers:
  functions of their input. `Optimizer` resumes with the same configuration, so the
  fingerprint matches.
* Crucible and the other example programs, and the test helpers, which use the library and are not
  part of it.

## Plan

1. `RunBudget` and its abstract ledger; `PipelineBuild` and `FlowRun`; `StepTree`; `ToolSession`;
   `Optimizer` and `FrontierLoop`; `ProgramRegistry`; `WasmHost` and `PredictJobs`. *Done*, with proofs of
   all their safety properties.
2. `AgentRun` and `PredictLoop`. *Done*, with proofs of all their safety properties.
3. `Observation`. *Done*, with proofs of four of its five properties. Next, as a theorem: `TracesAgree`.
4. Crucible's runner and the worker protocol of the WebAssembly module, should they become part of
   the library's interface.
