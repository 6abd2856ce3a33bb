---------------------------- MODULE Observation ----------------------------
(* What the observers of a pipeline run are told (src/pipeline_observe.go), *)
(* what a RecordingObserver makes of it (src/pipeline_trace.go), what the   *)
(* Redactors keep out of it (src/pipeline_redact.go) and what an evaluation *)
(* hands to reflection (src/pipeline_evaluation.go).                        *)
(*                                                                          *)
(* One run of a pipeline runs its steps in order. A step may be a Parallel, *)
(* whose children run side by side, a step that runs a nested pipeline, or  *)
(* a step in wrappers (WithPolicy, WithCache), whose executions a hold      *)
(* reports (finishHold in src/pipeline_exec.go). A span is the path of the  *)
(* executions and runs around it, so a prefix is what runs around.          *)
(*                                                                          *)
(* A value is known by the key it is stored under. The text of an error is  *)
(* the set of keys whose values it may repeat: all that the failed          *)
(* executions in it read, wrote or tried to write.                          *)
EXTENDS Naturals, Sequences, FiniteSets, FiniteSetsExt, SequencesExt

CONSTANTS
  Key,                 \* the state keys
  Step,                \* the steps of the pipelines
  NestedSteps,         \* the top-level steps of the nested pipeline, in order
  Children,            \* the steps of a Parallel; {} for any other step
  ProgramSteps,        \* the steps that run the nested pipeline
  Wrappers,            \* how many wrappers stand around a step
  RewindStep,          \* the step a rewind leads to and starts from
  Reads, Writes,       \* the keys a step reads and writes
  Inputs,              \* the inputs of each pipeline
  TransitionObserver,  \* observers that receive transitions
  ResolvedObserver,    \* observers that receive StepResolved
  Recorder,            \* RecordingObservers
  Evaluator,           \* the RecordingObserver of an evaluation
  Worlds,              \* the pipeline, who observes and redacts, whether an evaluation records
  MaxAttempts,         \* bound: attempts of a wrapped step in one visit
  MaxVisits            \* MaxVisits of the rewind

VARIABLES
  world,    \* one of Worlds, chosen when the run starts
  status,   \* how each run and execution that started stands
  flow,     \* where the flow of each run stands
  held,     \* the execution whose report a wrapper holds, or NoSpan
  obs,      \* what was delivered, what is pending, what text is remembered
  kept,     \* the keys whose values the evaluation's capture holds
  decided   \* the flow's decision after each visit, by its last execution

vars == <<world, status, flow, held, obs, kept, decided>>

(* What Build and the evaluation see to: pipelines have steps, wrappers     *)
(* stand around top-level steps that are not composites, a nested pipeline  *)
(* runs no other one, a step reads inputs and what steps before it wrote,   *)
(* and what its children read, and an evaluation's recorder is its own.     *)
ReadsEarlier(steps, inputs) ==
  \A i \in DOMAIN steps : Reads[steps[i]] \subseteq inputs \cup UNION {Writes[steps[j]] : j \in 1 .. i - 1}

ASSUME StructureAssumption ==
  /\ NestedSteps \in Seq(Step) \ {<<>>} /\ \A w \in Worlds : w.steps \in Seq(Step) \ {<<>>}
  /\ Children \in [Step -> SUBSET Step] /\ ProgramSteps \subseteq Step
  /\ Wrappers \in [Step -> Nat]
  /\ \A s \in Step : Wrappers[s] > 0 => Children[s] = {} /\ s \notin ProgramSteps
  /\ \E inner \in SUBSET Step :
       /\ Range(NestedSteps) \subseteq inner /\ inner \cap ProgramSteps = {}
       /\ \A s \in inner : Children[s] \subseteq inner /\ Wrappers[s] = 0
  /\ MaxAttempts \in Nat \ {0} /\ MaxVisits \in Nat \ {0}

ASSUME ReadsAssumption ==
  /\ Reads \in [Step -> SUBSET Key] /\ Writes \in [Step -> SUBSET Key]
  /\ Inputs \in [{"root", "nested"} -> SUBSET Key]
  /\ ReadsEarlier(NestedSteps, Inputs["nested"]) /\ \A w \in Worlds : ReadsEarlier(w.steps, Inputs["root"])
  /\ \A s \in Step : \A c \in Children[s] : Reads[c] \subseteq Reads[s]

ASSUME WorldsAssumption ==
  \A w \in Worlds :
    /\ w.recorded \in BOOLEAN
    /\ w.hides \in [{"root", "nested"} -> SUBSET Key]
    /\ Evaluator \notin w.observers["root"] \cup w.observers["nested"]

---------------------------------------------------------------------------
(* Spans. *)

NoSpan == <<>>
RootRun == <<>>
RunMark == <<"run", 0>>
IsRun(x) == x = RootRun \/ Last(x) = RunMark
NestedRun(e) == Append(e, RunMark)
StepOf(e) == Last(e)[1]
Parent(x) == Front(x)
Within(x, y) == IsPrefix(y, x)     \* x is y or something inside it

(* The run an execution belongs to: the innermost one around it. *)
RunOf(e) == SubSeq(e, 1, Max({0} \cup {i \in 1 .. Len(e) - 1 : e[i] = RunMark}))
TopLevel(e) == IsRun(Parent(e))
PipelineOf(r) == IF r = RootRun THEN "root" ELSE "nested"
StepsOf(r) == IF r = RootRun THEN world.steps ELSE NestedSteps
RunsAround(x) == {y \in {SubSeq(x, 1, i) : i \in 0 .. Len(x)} : IsRun(y)}

(* f with the value v at x. *)
With(f, x, v) == [y \in DOMAIN f \cup {x} |-> IF y = x THEN v ELSE f[y]]

Executions == {x \in DOMAIN status : ~ IsRun(x)}
Inside(x) == {y \in DOMAIN status : Within(y, x) /\ y # x}
(* nextAttempt: the executions of a step in one run are numbered from one. *)
NextExecution(r, parent, s) ==
  Append(parent, <<s, 1 + Cardinality({e \in Executions : RunOf(e) = r /\ StepOf(e) = s})>>)

(* What the error of x may repeat: what the failed executions in it handled. *)
ErrorText(x) ==
  UNION {Reads[StepOf(e)] \cup Writes[StepOf(e)] :
           e \in {y \in Executions : Within(y, x) /\ status[y] = "failed"}}

---------------------------------------------------------------------------
(* The observations of a run: its own lane, and the recording lane that an  *)
(* evaluation adds. A lane belongs to a trace, delivers to observers and    *)
(* redacts with its redactors.                                              *)

NoLane == [trace |-> <<>>, to |-> {}, hides |-> {}]
Live(lane) == lane.trace # <<>>
Joined(lane, observers, hides) ==
  [trace |-> lane.trace, to |-> lane.to \cup observers, hides |-> lane.hides \cup hides]
(* A mutant: a run with a Redactor alone is not observed, not even silently. *)
StartRunWhenObserved(parent, trace, observers, hides) ==
  IF Live(parent) THEN Joined(parent, observers, hides)
  ELSE IF observers = {} THEN NoLane ELSE [trace |-> trace, to |-> observers, hides |-> hides]

(* startRun: a run joins its parent's lane; without one it opens a trace,   *)
(* unless it has neither observers nor a Redactor.                          *)
StartRun(parent, trace, observers, hides) ==
  IF Live(parent) THEN Joined(parent, observers, hides)
  ELSE IF observers = {} /\ hides = {} THEN NoLane
  ELSE [trace |-> trace, to |-> observers, hides |-> hides]

(* observeRun: an evaluation's recorder observes a run with observers       *)
(* through their lane, and one without through a lane of its own.           *)
RootLanes ==
  LET own == world.observers["root"]
      hides == world.hides["root"]
      recorder == IF world.recorded THEN {Evaluator} ELSE {}
  IN IF own = {}
       THEN [own |-> StartRun(NoLane, <<"own", RootRun>>, {}, hides),
             recording |-> IF world.recorded
                             THEN StartRun(NoLane, <<"recording", RootRun>>, recorder, hides)
                             ELSE NoLane]
       ELSE [own |-> StartRun(NoLane, <<"own", RootRun>>, own \cup recorder, hides),
             recording |-> NoLane]
(* A mutant: a nested run with observers of its own leaves the recording. *)
NestedLanesUnrecorded(r) ==
  LET hides == world.hides["nested"]
      own == world.observers["nested"]
  IN [own |-> StartRun(RootLanes.own, <<"own", r>>, own, hides),
      recording |-> IF Live(RootLanes.recording) /\ own = {}
                      THEN StartRun(RootLanes.recording, <<>>, {}, hides)
                      ELSE NoLane]
NestedLanes(r) ==
  LET hides == world.hides["nested"]
  IN [own |-> StartRun(RootLanes.own, <<"own", r>>, world.observers["nested"], hides),
      recording |-> IF Live(RootLanes.recording)
                      THEN StartRun(RootLanes.recording, <<>>, {}, hides)
                      ELSE NoLane]
LanesOf(r) == IF r = RootRun THEN RootLanes ELSE NestedLanes(r)
Lane(r, name) == [run |-> r, name |-> name, lane |-> LanesOf(r)[name]]

---------------------------------------------------------------------------
(* Delivering events. obs is [log, pending, memory]: the events delivered,  *)
(* in order, each with its observers; the executions whose resolution waits *)
(* (stepResolution), by lane; and the text each trace remembers.            *)

NoDecision == [taken |-> "none", rejected |-> FALSE]
Deliver(o, kind, span, to, detail) ==
  [o EXCEPT !.log = Append(@, [kind |-> kind, span |-> span, to |-> to,
                               carries |-> detail.carries, says |-> detail.says,
                               decision |-> detail.decision])]
Quiet == [carries |-> {}, says |-> {}, decision |-> NoDecision]
Carrying(keys) == [Quiet EXCEPT !.carries = keys]

(* redactValues: the lane's redactors see the keys, and the trace remembers *)
(* those that they change.                                                  *)
Remember(o, l, keys) ==
  [o EXCEPT !.memory = @ \cup ({l.lane.trace} \X (keys \cap l.lane.hides))]
Shown(l, keys) == keys \ l.lane.hides
(* redactError: what the trace remembers is removed from an error. *)
Scrub(o, l, text) == {k \in text : <<l.lane.trace, k>> \notin o.memory}

PendingOf(o, l) == {p \in o.pending : p.run = l.run /\ p.lane = l.name}
Resolves(l) == l.lane.to \cap ResolvedObserver
DeliverResolved(o, l, e, decision) ==
  Deliver(o, "resolved", e, Resolves(l), [Quiet EXCEPT !.decision = decision])
(* resolvePending. *)
ResolvePending(o, l) ==
  IF PendingOf(o, l) = {} THEN o
  ELSE LET p == CHOOSE q \in PendingOf(o, l) : TRUE
       IN DeliverResolved([o EXCEPT !.pending = @ \ {p}], l, p.span, p.decision)

(* Each event goes to the run's own lane and then to its recording. *)
OnLane(Op(_, _), o, l) == IF Live(l.lane) THEN Op(o, l) ELSE o
OverLanes(Op(_, _), o, r) == OnLane(Op, OnLane(Op, o, Lane(r, "own")), Lane(r, "recording"))

RunStartedOn(o, l) ==
  LET keys == Inputs[PipelineOf(l.run)]
  IN Deliver(Remember(o, l, keys), "runStarted", l.run, l.lane.to, Carrying(Shown(l, keys)))
TellRunStarted(o, r) == OverLanes(LAMBDA p, l : RunStartedOn(p, l), o, r)

RunFinishedOn(o, l, text) ==
  Deliver(ResolvePending(o, l), "runFinished", l.run, l.lane.to, [Quiet EXCEPT !.says = Scrub(o, l, text)])
TellRunFinished(o, r, text) == OverLanes(LAMBDA p, l : RunFinishedOn(p, l, text), o, r)

Starts(o, l, e) ==
  LET keys == Reads[StepOf(e)]
  IN Deliver(Remember(o, l, keys), "started", e, l.lane.to, Carrying(Shown(l, keys)))
(* A mutant: a retry attempt does not resolve the attempt before it. *)
StartedUnresolvedOn(o, l, e) == Starts(o, l, e)
(* observeStep: a top-level execution resolves the one before it. *)
StartedOn(o, l, e) == Starts(IF TopLevel(e) THEN ResolvePending(o, l) ELSE o, l, e)
TellStarted(o, e) == OverLanes(LAMBDA p, l : StartedOn(p, l, e), o, RunOf(e))

(* stepObservation.finish: the attempted writes of a failed execution are   *)
(* redacted before its error; a nested execution is resolved at once and a  *)
(* top-level one when its transition is decided.                            *)
Finishes(o, l, e, succeeded, text) ==
  LET seen == Remember(o, l, Writes[StepOf(e)])
      keys == Reads[StepOf(e)] \cup (IF succeeded THEN Writes[StepOf(e)] ELSE {})
  IN Deliver(seen, "finished", e, l.lane.to,
             [Quiet EXCEPT !.carries = Shown(l, keys), !.says = Scrub(seen, l, text)])
FinishedOn(o, l, e, succeeded, text) ==
  LET told == Finishes(o, l, e, succeeded, text)
  IN IF Resolves(l) = {} THEN told
     ELSE IF ~ TopLevel(e) THEN DeliverResolved(told, l, e, NoDecision)
     ELSE [told EXCEPT !.pending = (@ \ PendingOf(told, l)) \cup
             {[run |-> l.run, lane |-> l.name, span |-> e, decision |-> NoDecision]}]
TellFinished(o, e, succeeded, text) ==
  OverLanes(LAMBDA p, l : FinishedOn(p, l, e, succeeded, text), o, RunOf(e))

(* rewindRejected and transitionTaken note the decision in what is pending. *)
Noted(d, kind, taken) ==
  IF kind = "rejected" THEN [d EXCEPT !.rejected = TRUE] ELSE [d EXCEPT !.taken = taken]
DecidedOn(o, l, kind, taken) ==
  LET noted == {[q EXCEPT !.decision = Noted(@, kind, taken)] : q \in PendingOf(o, l)}
  IN Deliver([o EXCEPT !.pending = (@ \ PendingOf(o, l)) \cup noted],
             kind, l.run, l.lane.to \cap TransitionObserver,
             [Quiet EXCEPT !.decision = Noted(NoDecision, kind, taken)])
TellDecision(o, r, kind, taken) == OverLanes(LAMBDA p, l : DecidedOn(p, l, kind, taken), o, r)
(* resolveStep. *)
TellResolved(o, r) == OverLanes(LAMBDA p, l : ResolvePending(p, l), o, r)

---------------------------------------------------------------------------
(* The evaluation's capture keeps values while it has a Redactor. It knows  *)
(* the Redactors of the pipelines the programme's structure shows.          *)
KnownHides == UNION {world.hides[p] : p \in {"root", "nested"}}
(* A mutant: the Redactors of nested pipelines do not count.                *)
OfferForRoot(k, keys) == IF world.recorded /\ world.hides["root"] # {} THEN k \cup keys ELSE k
Offer(k, keys) == IF world.recorded /\ KnownHides # {} THEN k \cup keys ELSE k

---------------------------------------------------------------------------
(* The flow of a run. A visit of a step ends with a decision: whether it    *)
(* rejected the running rewind, the transition it took and where the flow   *)
(* goes. The nested pipeline has no transitions.                            *)

NewFlow == [at |-> 1, phase |-> "visit", todo |-> <<>>, decision |-> NoDecision, to |-> "next",
            last |-> NoSpan, tries |-> 0, visits |-> 1, rewinding |-> FALSE]
Current(r) == StepsOf(r)[flow[r].at]
Wrapped(r) == Wrappers[Current(r)] > 0
CanRewind(r) == Current(r) = RewindStep /\ flow[r].visits < MaxVisits
Decision(rejected, taken, to) == [decision |-> [rejected |-> rejected, taken |-> taken], to |-> to]
Rewinds(r, rejected) == IF CanRewind(r) THEN {Decision(rejected, "rewind", "again")} ELSE {}
Ending(rejected) == {Decision(rejected, "skip", "end"), Decision(rejected, "fail", "fail")}

(* decide and succeeded: a rewind that Accept rejects does not start again. *)
SuccessDecisions(r) ==
  IF r # RootRun THEN {Decision(FALSE, "none", "next")}
  ELSE (UNION {{Decision(rejected, "none", "next")} \cup Ending(rejected) :
                 rejected \in IF flow[r].rewinding THEN BOOLEAN ELSE {FALSE}})
       \cup Rewinds(r, FALSE)
(* failed and restore: a rule on the error matches, or none does and the    *)
(* run fails; a running rewind is rejected when Accept had rejected it, and *)
(* when RestoreOnError restores, after which the flow goes on past it.      *)
FailureDecisions(r) ==
  IF r # RootRun THEN {Decision(FALSE, "none", "fail")}
  ELSE (UNION {{Decision(rejected, "none", "fail")} \cup Ending(rejected) \cup Rewinds(r, rejected) :
                 rejected \in IF flow[r].rewinding THEN BOOLEAN ELSE {FALSE}})
       \cup (IF flow[r].rewinding THEN {Decision(TRUE, "none", "next")} ELSE {})

(* A mutant: a transition is told before the rewind it follows is rejected. *)
TodoSwapped(d) == (IF d.taken # "none" THEN <<"taken">> ELSE <<>>)
                  \o (IF d.rejected THEN <<"rejected">> ELSE <<>>) \o <<"resolve">>
Todo(d) == (IF d.rejected THEN <<"rejected">> ELSE <<>>)
           \o (IF d.taken # "none" THEN <<"taken">> ELSE <<>>) \o <<"resolve">>
(* The visit of run r that ended with execution e is decided. *)
Decide(r, e, d) ==
  /\ flow' = [flow EXCEPT ![r].phase = "decided", ![r].todo = Todo(d.decision), ![r].last = e,
                          ![r].decision = d.decision, ![r].to = d.to]
  /\ decided' = With(decided, e, d.decision)

Begin(e) == status' = With(status, e, "running") /\ obs' = TellStarted(obs, e)
Failure(e) == ErrorText(e) \cup Reads[StepOf(e)] \cup Writes[StepOf(e)]
ReportSuccess(o, e) == TellFinished(o, e, TRUE, {})
ReportFailure(o, e) == TellFinished(o, e, FALSE, Failure(e))
Offered(e) == Offer(kept, Writes[StepOf(e)])

(* All that an execution runs has ended, as its success or failure needs.   *)
ChildrenOf(e) == {x \in Inside(e) : Parent(x) = e}
CanSucceed(e) ==
  /\ \A c \in Children[StepOf(e)] : \E x \in ChildrenOf(e) : StepOf(x) = c
  /\ StepOf(e) \in ProgramSteps => NestedRun(e) \in DOMAIN status
  /\ \A x \in ChildrenOf(e) : status[x] = "succeeded"
CanFail(e) ==
  /\ \A x \in ChildrenOf(e) : status[x] # "running"
  /\ \/ ChildrenOf(e) = {}
     \/ Cardinality(ChildrenOf(e)) >= Cardinality(Children[StepOf(e)])

---------------------------------------------------------------------------
Init ==
  /\ world \in Worlds
  /\ status = <<>> /\ flow = <<>> /\ held = NoSpan
  /\ obs = [log |-> <<>>, pending |-> {}, memory |-> {}]
  /\ kept = {} /\ decided = <<>>

(* observeRun: the run, or a step's nested run, starts. *)
RunStarts(r) ==
  /\ r \notin DOMAIN status
  /\ r = RootRun \/ (Parent(r) \in DOMAIN status /\ status[Parent(r)] = "running")
  /\ status' = With(status, r, "running") /\ flow' = With(flow, r, NewFlow)
  /\ obs' = TellRunStarted(obs, r) /\ kept' = Offer(kept, Inputs[PipelineOf(r)])
  /\ UNCHANGED <<world, held, decided>>

(* The flow visits a step that is in no wrapper. *)
StepStarts(r) ==
  /\ flow[r].phase = "visit" /\ ~ Wrapped(r)
  /\ LET e == NextExecution(r, r, Current(r))
     IN Begin(e) /\ flow' = [flow EXCEPT ![r].phase = "running", ![r].last = e]
  /\ UNCHANGED <<world, held, kept, decided>>

(* A Parallel starts one of its children. *)
ChildStarts(e, c) ==
  /\ status[e] = "running" /\ c \in Children[StepOf(e)]
  /\ \A x \in ChildrenOf(e) : StepOf(x) # c
  /\ Begin(NextExecution(RunOf(e), e, c))
  /\ UNCHANGED <<world, flow, held, kept, decided>>

(* A nested execution ends, and reports its end at once. *)
ChildEnds(e) ==
  /\ status[e] = "running" /\ ~ TopLevel(e)
  /\ \/ /\ CanSucceed(e)
        /\ status' = [status EXCEPT ![e] = "succeeded"] /\ obs' = ReportSuccess(obs, e)
     \/ /\ CanFail(e)
        /\ status' = [status EXCEPT ![e] = "failed"] /\ obs' = ReportFailure(obs, e)
  /\ kept' = Offered(e)
  /\ UNCHANGED <<world, flow, held, decided>>

(* The flow's check of a result is part of its execution: the execution     *)
(* fails when the check does.                                               *)
StepEnds(r) ==
  LET e == flow[r].last
  IN /\ flow[r].phase = "running" /\ ~ Wrapped(r)
     /\ \/ /\ CanSucceed(e) /\ \E d \in SuccessDecisions(r) : Decide(r, e, d)
           /\ status' = [status EXCEPT ![e] = "succeeded"] /\ obs' = ReportSuccess(obs, e)
        \/ /\ CanFail(e) /\ \E d \in FailureDecisions(r) : Decide(r, e, d)
           /\ status' = [status EXCEPT ![e] = "failed"] /\ obs' = ReportFailure(obs, e)
     /\ kept' = Offered(e)
     /\ UNCHANGED <<world, held>>

---------------------------------------------------------------------------
(* A wrapped top-level step. Its latest success is held until the wrapper   *)
(* ends; a failure is reported at once (finishHold).                        *)

Release(o) == IF held = NoSpan THEN o ELSE ReportSuccess(o, held)
Released == IF held = NoSpan THEN kept ELSE Offered(held)
CanRetry(r) == flow[r].tries < MaxAttempts

AttemptStarts(r) ==
  /\ flow[r].phase \in {"visit", "retry"} /\ Wrapped(r)
  /\ LET e == NextExecution(r, r, Current(r))
     IN Begin(e)
        /\ flow' = [flow EXCEPT ![r].phase = "running", ![r].last = e, ![r].tries = @ + 1]
  /\ UNCHANGED <<world, held, kept, decided>>

(* finishHold.finish: a success takes the place of the one held before it. *)
AttemptSucceeds(r) ==
  /\ flow[r].phase = "running" /\ Wrapped(r)
  /\ status' = [status EXCEPT ![flow[r].last] = "succeeded"]
  /\ obs' = Release(obs) /\ kept' = Released /\ held' = flow[r].last
  /\ flow' = [flow EXCEPT ![r].phase = "returned"]
  /\ UNCHANGED <<world, decided>>

AttemptFails(r) ==
  LET e == flow[r].last
  IN /\ flow[r].phase = "running" /\ Wrapped(r)
     /\ status' = [status EXCEPT ![e] = "failed"]
     /\ obs' = ReportFailure(obs, e) /\ kept' = Offered(e)
     /\ \E phase \in {"failing"} \cup (IF CanRetry(r) THEN {"retry"} ELSE {}) :
          flow' = [flow EXCEPT ![r].phase = phase]
     /\ UNCHANGED <<world, held, decided>>

(* A cache hit is an execution of its own (beginStandIn), held as a success. *)
CacheHit(r) ==
  /\ flow[r].phase \in {"visit", "retry"} /\ Wrapped(r)
  /\ LET e == NextExecution(r, r, Current(r))
     IN /\ status' = With(status, e, "succeeded")
        /\ obs' = Release(TellStarted(obs, e)) /\ kept' = Released /\ held' = e
        /\ flow' = [flow EXCEPT ![r].phase = "returned", ![r].last = e, ![r].tries = @ + 1]
  /\ UNCHANGED <<world, decided>>

(* The timeout of an outer wrapper ends before the inner one has returned   *)
(* the success: runNode returns the timeout in place of the result.         *)
ResultDropped(r) ==
  /\ flow[r].phase = "returned" /\ Wrappers[Current(r)] > 1
  /\ \E phase \in {"failing"} \cup (IF CanRetry(r) THEN {"retry"} ELSE {}) :
       flow' = [flow EXCEPT ![r].phase = phase]
  /\ UNCHANGED <<world, status, held, obs, kept, decided>>

Commits(r) ==
  /\ flow[r].phase = "returned"
  /\ \E d \in SuccessDecisions(r) : Decide(r, flow[r].last, d)
  /\ obs' = Release(obs) /\ kept' = Released /\ held' = NoSpan
  /\ UNCHANGED <<world, status>>

(* failsExecution: a transition fails the held execution. *)
TransitionFails(r) ==
  /\ flow[r].phase = "returned"
  /\ status' = [status EXCEPT ![held] = "failed"]
  /\ obs' = ReportFailure(obs, held) /\ kept' = Offered(held) /\ held' = NoSpan
  /\ \E d \in FailureDecisions(r) : Decide(r, flow[r].last, d)
  /\ UNCHANGED world

(* releaseUncommitted: a merge that fails is an execution of its own. *)
MergeFails(r) ==
  /\ flow[r].phase = "returned"
  /\ LET e == NextExecution(r, r, Current(r))
         told == TellStarted(Release(obs), e)
     IN /\ status' = With(status, e, "failed")
        /\ obs' = ReportFailure(told, e) /\ kept' = Released /\ held' = NoSpan
        /\ \E d \in FailureDecisions(r) : Decide(r, e, d)
  /\ UNCHANGED world

(* The wrapper fails: of its own, or as the run's budget or context ends    *)
(* after the success; the deferred release reports what is held.            *)
WrapperFails(r) ==
  /\ \/ flow[r].phase = "failing" /\ \E d \in FailureDecisions(r) : Decide(r, flow[r].last, d)
     \/ flow[r].phase = "returned" /\ Decide(r, flow[r].last, Decision(FALSE, "none", "fail"))
  /\ obs' = Release(obs) /\ kept' = Released /\ held' = NoSpan
  /\ UNCHANGED <<world, status>>

---------------------------------------------------------------------------
(* Where the flow stands once everything about a visit has been told. *)
GoesOn(f, r) ==
  CASE f.to = "again" ->
         [f EXCEPT !.phase = "visit", !.tries = 0, !.visits = @ + 1, !.rewinding = TRUE]
    [] f.to = "next" /\ f.at < Len(StepsOf(r)) ->
         [f EXCEPT !.phase = "visit", !.tries = 0, !.at = @ + 1, !.rewinding = FALSE]
    [] OTHER -> [f EXCEPT !.phase = "ended"]

(* The flow tells what it decided, one event at a time. *)
Tells(r) ==
  /\ flow[r].phase = "decided"
  /\ LET f == flow[r]
         kind == Head(f.todo)
         rest == [f EXCEPT !.todo = Tail(@)]
     IN /\ obs' = IF kind = "resolve" THEN TellResolved(obs, r)
                  ELSE TellDecision(obs, r, kind, f.decision.taken)
        /\ flow' = [flow EXCEPT ![r] = IF rest.todo = <<>> THEN GoesOn(rest, r) ELSE rest]
  /\ UNCHANGED <<world, status, held, kept, decided>>

RunEnds(r) ==
  /\ flow[r].phase = "ended"
  /\ LET failed == flow[r].to = "fail"
     IN /\ status' = [status EXCEPT ![r] = IF failed THEN "failed" ELSE "succeeded"]
        /\ obs' = TellRunFinished(obs, r, IF failed THEN ErrorText(r) ELSE {})
  /\ flow' = [flow EXCEPT ![r].phase = "done"]
  /\ UNCHANGED <<world, held, kept, decided>>

RunEnded == RootRun \in DOMAIN status /\ status[RootRun] # "running"
Terminated == RunEnded /\ UNCHANGED vars

Next ==
  \/ RunStarts(RootRun)
  \/ \E e \in Executions :
       \/ StepOf(e) \in ProgramSteps /\ RunStarts(NestedRun(e))
       \/ \E c \in Children[StepOf(e)] : ChildStarts(e, c)
       \/ ChildEnds(e)
  \/ \E r \in DOMAIN flow :
       \/ StepStarts(r) \/ StepEnds(r)
       \/ AttemptStarts(r) \/ AttemptSucceeds(r) \/ AttemptFails(r) \/ CacheHit(r)
       \/ ResultDropped(r) \/ Commits(r) \/ TransitionFails(r) \/ MergeFails(r) \/ WrapperFails(r)
       \/ Tells(r) \/ RunEnds(r)
  \/ Terminated

Spec == Init /\ [][Next]_vars

---------------------------------------------------------------------------
(* RecordingObserver: what it has recorded after an event. It records each  *)
(* span under its parent, each transition in the last top-level execution   *)
(* of its run, and ignores what happens to a span it does not track.        *)

NothingRecorded == [spans |-> <<>>, tracked |-> {}, ended |-> {}, decisions |-> <<>>]
LastStep(rec, r) ==
  LET tops == SelectSeq(rec.spans, LAMBDA x : ~ IsRun(x) /\ Parent(x) = r)
  IN IF r \in rec.tracked /\ tops # <<>> THEN Last(tops) ELSE NoSpan
Tracked(rec, x) == x \in rec.tracked
InTracked(rec, x) == x # RootRun /\ Tracked(rec, Parent(x))
Track(rec, x) == [rec EXCEPT !.spans = Append(@, x), !.tracked = @ \cup {x}]
RecordStepStarted(rec, e) == IF InTracked(rec, e) THEN Track(rec, e) ELSE rec
RecordStepFinished(rec, e) ==
  IF Tracked(rec, e) THEN [rec EXCEPT !.ended = @ \cup {e}] ELSE rec
Forget(rec, r) == [rec EXCEPT !.tracked = {y \in @ : ~ Within(y, r)}]
RecordRunFinished(rec, r) ==
  LET ended == [rec EXCEPT !.ended = @ \cup {r}]
  IN IF ~ Tracked(rec, r) THEN rec ELSE IF InTracked(rec, r) THEN ended ELSE Forget(ended, r)
RecordDecision(rec, r, kind, taken) ==
  LET e == LastStep(rec, r)
      before == IF e \in DOMAIN rec.decisions THEN rec.decisions[e] ELSE NoDecision
  IN IF e = NoSpan THEN rec
     ELSE [rec EXCEPT !.decisions = With(@, e, Noted(before, kind, taken))]
Record(rec, ev) ==
  CASE ev.kind = "runStarted" -> Track(rec, ev.span)
    [] ev.kind = "started" -> RecordStepStarted(rec, ev.span)
    [] ev.kind = "finished" -> RecordStepFinished(rec, ev.span)
    [] ev.kind = "runFinished" -> RecordRunFinished(rec, ev.span)
    [] ev.kind \in {"taken", "rejected"} ->
         RecordDecision(rec, ev.span, ev.kind, ev.decision.taken)
    [] OTHER -> rec      \* it is no StepResolvedObserver

Recorded(o) ==
  FoldLeft(LAMBDA rec, ev : IF o \in ev.to THEN Record(rec, ev) ELSE rec, NothingRecorded, obs.log)

---------------------------------------------------------------------------
(* Properties. *)

(* Values stay in their sets. *)
TypeOK ==
  /\ world \in Worlds
  /\ \A x \in DOMAIN status : status[x] \in {"running", "succeeded", "failed"}
  /\ DOMAIN flow = {x \in DOMAIN status : IsRun(x)}
  /\ held = NoSpan \/ held \in Executions
  /\ kept \subseteq Key /\ DOMAIN decided \subseteq Executions

(* The events in I, which are places in the log, of some kinds about x. *)
Places(I, kinds, x) == {i \in I : obs.log[i].kind \in kinds /\ obs.log[i].span = x}
Begun(I, x) == Places(I, {"runStarted", "started"}, x)
Over(I, x) == Places(I, {"runFinished", "finished"}, x)
ResolvedAt(I, x) == Places(I, {"resolved"}, x)
AllBefore(I, J) == \A i \in I, j \in J : i < j
Seen(I) == {obs.log[i].span : i \in I}
DeliveredTo(o) == {i \in DOMAIN obs.log : o \in obs.log[i].to}
(* The top-level executions of the same run as e that start after it. *)
Later(I, e) ==
  {f \in Seen(I) : /\ ~ IsRun(f) /\ Parent(f) = Parent(e)
                   /\ \E i \in Begun(I, e), j \in Begun(I, f) : i < j}

(* Every span starts once and ends at most once, after all inside it. *)
SpansNest(I) ==
  \A x \in Seen(I) :
    /\ Cardinality(Begun(I, x)) = 1 /\ Cardinality(Over(I, x)) <= 1
    /\ AllBefore(Begun(I, x), Over(I, x))
    /\ \A y \in Seen(I) : Within(y, x) /\ y # x =>
         /\ AllBefore(Begun(I, x), Begun(I, y))
         /\ AllBefore(Over(I, y) \cup ResolvedAt(I, y), Over(I, x))
         /\ Over(I, x) # {} => Over(I, y) # {}
(* A top-level execution finishes before the next one starts. *)
StepsFollow(I) ==
  \A e \in {x \in Seen(I) : ~ IsRun(x) /\ TopLevel(x)} : \A f \in Later(I, e) :
    Over(I, e) # {} /\ AllBefore(Over(I, e), Begun(I, f))
(* A transition comes after the end of the last top-level execution before  *)
(* it, after the rewind rejected with it and before its resolution.         *)
DecisionsFollow(I) ==
  \A i \in I : obs.log[i].kind \in {"taken", "rejected"} =>
    LET tops == {x \in Seen(I) : ~ IsRun(x) /\ Parent(x) = obs.log[i].span
                                 /\ \E j \in Begun(I, x) : j < i}
        last == CHOOSE x \in tops : \A y \in tops : AllBefore(Begun(I, y), Begun(I, x)) \/ x = y
    IN /\ tops # {}
       /\ Over(I, last) # {} /\ AllBefore(Over(I, last), {i})
       /\ AllBefore({i}, ResolvedAt(I, last))
       /\ obs.log[i].kind = "rejected" => \A j \in Places(I, {"taken"}, obs.log[i].span) :
            ~ (j < i /\ AllBefore(Begun(I, last), {j}))

(* No step of the run stands in more than one wrapper. *)
InOneWrapper == \A s \in Range(world.steps) : Wrappers[s] <= 1

Observers == UNION {obs.log[i].to : i \in DOMAIN obs.log}
(* The order PipelineObserver promises each observer, whatever runs side by *)
(* side: spans nest, a top-level execution ends before the next starts, and *)
(* its transitions follow its end and come before its resolution. The whole *)
(* log is judged once the run is over: what is out of order stays so. It    *)
(* holds of a step in one wrapper: AttemptsResolve shows the order lost in  *)
(* two.                                                                     *)
EventsInOrder ==
  RunEnded /\ InOneWrapper => \A o \in Observers :
    LET seen == DeliveredTo(o) IN SpansNest(seen) /\ StepsFollow(seen) /\ DecisionsFollow(seen)

Audience(x) ==
  (UNION {world.observers[PipelineOf(r)] : r \in RunsAround(x)})
  \cup (IF world.recorded THEN {Evaluator} ELSE {})
(* The events in I reach each observer of A once, and nobody else. *)
Told(I, A) ==
  /\ UNION {obs.log[i].to : i \in I} = A
  /\ \A i, j \in I : i # j => obs.log[i].to \cap obs.log[j].to = {}
(* Every run and execution is told to the observers of the runs around it   *)
(* and to an evaluation's recorder, once each and to nobody else, however   *)
(* they are split over lanes; only a held end has not been told.            *)
AudienceTold ==
  \A x \in DOMAIN status :
    LET ends == Over(DOMAIN obs.log, x)
    IN /\ Told(Begun(DOMAIN obs.log, x), Audience(x))
       /\ IF status[x] = "running" \/ (x = held /\ x # NoSpan) THEN ends = {}
          ELSE Told(ends, Audience(x))

DecisionOn(e) == IF e \in DOMAIN decided THEN decided[e] ELSE NoDecision
(* Once the run is over, every execution an observer saw was resolved once, *)
(* with the decision the flow took after it, and a RecordingObserver has    *)
(* the same decision, every span ended, and tracks none of them. In two     *)
(* wrappers a held report replaces what was pending of a later execution.   *)
TracesAgree ==
  RunEnded /\ InOneWrapper => \A o \in Observers :
    LET I == DeliveredTo(o)
        rec == Recorded(o)
    IN /\ o \in ResolvedObserver => \A e \in Seen(I) : ~ IsRun(e) =>
            \E i \in I : ResolvedAt(I, e) = {i} /\ obs.log[i].decision = DecisionOn(e)
       /\ o \in Recorder =>
            /\ Seen(I) = Range(rec.spans) /\ rec.ended = Seen(I) /\ rec.tracked = {}
            /\ \A e \in Seen(I) : ~ IsRun(e) =>
                 DecisionOn(e) = IF e \in DOMAIN rec.decisions THEN rec.decisions[e] ELSE NoDecision

(* What a run gave its Redactors to see: its inputs, what its steps handle. *)
Handled(r) ==
  Inputs[PipelineOf(r)]
  \cup UNION {Reads[StepOf(e)] \cup Writes[StepOf(e)] : e \in {y \in Executions : RunOf(y) = r}}
HiddenAround(x) == UNION {world.hides[PipelineOf(r)] : r \in RunsAround(x)}
HiddenInside(x) == UNION {world.hides[PipelineOf(r)] \cap Handled(r) : r \in {y \in Inside(x) : IsRun(y)}}
(* No event carries a value that a Redactor of a run around it hides, also  *)
(* one that has no observers, and no error repeats one that such a Redactor *)
(* hides, or that one of a run inside it hid.                               *)
RedactedStaysOut ==
  RunEnded => \A i \in DOMAIN obs.log :
    LET ev == obs.log[i]
    IN /\ ev.carries \cap HiddenAround(ev.span) = {}
       /\ ev.kind \in {"finished", "runFinished"} =>
            ev.says \cap (HiddenAround(ev.span) \cup HiddenInside(ev.span)) = {}

(* evaluationCapture.apply: what the errors of an evaluated item may repeat *)
(* once the values the capture kept have passed through the Redactors.      *)
ItemText ==
  (ErrorText(RootRun) \cup UNION {obs.log[i].says : i \in DeliveredTo(Evaluator)})
  \ (kept \cap KnownHides)
(* Once an example has run, nothing its item says repeats a value that a    *)
(* Redactor of the programme's pipelines hides.                             *)
ReflectionHides == world.recorded /\ RunEnded => ItemText \cap KnownHides = {}

(* StepResolvedObserver: "Retry attempts resolve before the next attempt    *)
(* starts", and each top-level execution before the next.                   *)
AttemptsResolve ==
  \A o \in ResolvedObserver :
    LET I == DeliveredTo(o)
    IN \A e \in {x \in Seen(I) : ~ IsRun(x) /\ TopLevel(x)} : \A f \in Later(I, e) :
         ResolvedAt(I, e) # {} /\ AllBefore(ResolvedAt(I, e), Begun(I, f))
===========================================================================
