----------------------------- MODULE Optimizer -----------------------------
(***************************************************************************)
(* Optimizer.Run over a persisted state (optimizer.go, optimizer_state.go, *)
(* persistence.go): the budget of metric calls, the candidates it finds,   *)
(* and what is left when the process stops at any moment and a later run   *)
(* with Resume goes on from the state file.                                *)
(*                                                                         *)
(* What evaluators, proposers and the acceptance criterion answer is left  *)
(* open.  A candidate is its index and its validation scores.  A stop is a *)
(* crash, an ended context, or an error of an evaluator, a proposer or the *)
(* persistence: Run returns without saving, and its memory is gone.        *)
(***************************************************************************)
EXTENDS FrontierLoop, Sequences, FiniteSets, FiniteSetsExt

CONSTANTS
  Valset,          \* the examples candidates are validated on
  TrainSize,       \* how many examples the trainset has
  Scores,          \* the scores an evaluator may give
  MaxMetricCalls,
  MinibatchSize,
  EnableMerge,
  MaxStarts        \* bound: how often Run is called

ASSUME ConfigAssumption ==
  /\ IsFiniteSet(Valset) /\ Valset # {}
  /\ {TrainSize, MinibatchSize, MaxMetricCalls} \subseteq Nat \ {0}
  /\ MaxMetricCalls >= Cardinality(Valset)
  /\ Scores \subseteq Int
  /\ EnableMerge \in BOOLEAN
  /\ MaxStarts \in Nat

VARIABLES
  pc,      \* where Run is; "down" when it is not running, "done" when it has returned its state
  next,    \* where it goes once the state is saved
  state,   \* OptimizationState in memory
  batch,   \* the size of the iteration's minibatch
  file,    \* optimization_state.json
  tmp,     \* optimization_state.json.tmp
  log,     \* the events in optimization_events.jsonl
  starts,  \* how often Run was called
  spent    \* history: the metric calls evaluators really made

memory == <<next, state, batch, loopVars>>
disk == <<file, tmp, log>>
vars == <<pc, memory, disk, starts, spent>>

-----------------------------------------------------------------------------
(* States and scores. *)

NewState ==
  [candidates |-> <<>>, best |-> 0, frontier |-> {}, calls |-> 0, iterations |-> 0,
   proposals |-> <<>>]

NoFile == [NewState EXCEPT !.best = -1]

Torn == [NewState EXCEPT !.best = -2]   \* a file that was being written

Smaller(m, n) == IF m < n THEN m ELSE n

Remaining == MaxMetricCalls - state.calls

\* sampleExact: any part of the validation set of the size the budget has room for.
Samples == {examples \in SUBSET Valset : Cardinality(examples) = Smaller(Cardinality(Valset), Remaining)}

SumScore(scores) == MapThenSumSet(LAMBDA e : scores[e], DOMAIN scores)

\* a's AverageScore is higher than b's.
Above(a, b) == SumScore(a) * Cardinality(DOMAIN b) > SumScore(b) * Cardinality(DOMAIN a)

\* Mutation: a candidate that ties becomes the best.
AdoptTie(s, scores) ==
  LET candidates == Append(s.candidates, scores)
  IN [s EXCEPT !.candidates = candidates,
               !.best = IF ~Above(candidates[s.best], scores) THEN Len(candidates) ELSE @]

\* A candidate joins the state and may become the best.
Adopt(s, scores) ==
  LET candidates == Append(s.candidates, scores)
  IN [s EXCEPT !.candidates = candidates,
               !.best = IF Above(scores, candidates[s.best]) THEN Len(candidates) ELSE @]

Proposal(s, accepted) == Append(s.proposals, [iteration |-> s.iterations, accepted |-> accepted])

Event(kind) == [kind |-> kind, iteration |-> state.iterations]

\* OptimizationState.Validate, which a state must pass to be resumed.
Resumable(s) ==
  /\ s.candidates # <<>>
  /\ s.best \in DOMAIN s.candidates
  /\ s.frontier # {} /\ s.frontier \subseteq DOMAIN s.candidates

-----------------------------------------------------------------------------

Init ==
  /\ pc = "down"
  /\ next = "down"
  /\ state = NewState
  /\ NoLoop
  /\ batch = 0
  /\ file = NoFile
  /\ tmp = NoFile
  /\ log = {}
  /\ starts = 0
  /\ spent = 0

\* Mutation: a state that was saved is not looked for.
StartAnew ==
  /\ pc \in {"down", "done"}
  /\ starts < MaxStarts
  /\ starts' = starts + 1
  /\ state' = NewState
  /\ log' = log \union {[kind |-> "started", iteration |-> 0]}
  /\ pc' = "seed"
  /\ UNCHANGED <<loopVars, next, batch, file, tmp, spent>>

\* startState: Run resumes the saved state, or starts a new one when there is none.
Start ==
  /\ pc \in {"down", "done"}
  /\ starts < MaxStarts
  /\ starts' = starts + 1
  /\ \/ /\ file = NoFile
        /\ state' = NewState
        /\ log' = log \union {[kind |-> "started", iteration |-> 0]}
        /\ pc' = "seed"
     \/ /\ file # NoFile
        /\ Resumable(file)
        /\ state' = file
        /\ pc' = "loop"
        /\ UNCHANGED log
  /\ UNCHANGED <<loopVars, next, batch, file, tmp, spent>>

\* initializeState validates the seed on the whole validation set.
EvaluateSeed ==
  /\ pc = "seed"
  /\ \E scores \in [Valset -> Scores] :
       /\ state' = [state EXCEPT !.calls = Cardinality(Valset), !.candidates = <<scores>>, !.best = 1]
       /\ StartLoop(<<scores>>)
  /\ spent' = spent + Cardinality(Valset)
  /\ pc' = "frontier" /\ next' = "loop"
  /\ UNCHANGED <<batch, disk, starts>>

\* Mutation: the iteration is numbered when it ends.
BeginUnnumbered ==
  /\ pc = "loop"
  /\ \/ /\ Remaining > 0
        /\ log' = log \union {Event("iteration")}
        /\ pc' = "before"
        /\ UNCHANGED state
     \/ /\ Remaining <= 0
        /\ pc' = "finish"
        /\ UNCHANGED <<state, log>>
  /\ UNCHANGED <<loopVars, next, batch, file, tmp, starts, spent>>

\* The loop of Run: another iteration begins while the budget has room.
Begin ==
  /\ pc = "loop"
  /\ \/ /\ Remaining > 0
        /\ state' = [state EXCEPT !.iterations = @ + 1]
        /\ log' = log \union {[Event("iteration") EXCEPT !.iteration = @ + 1]}
        /\ pc' = "before"
     \/ /\ Remaining <= 0
        /\ pc' = "finish"
        /\ UNCHANGED <<state, log>>
  /\ UNCHANGED <<loopVars, next, batch, file, tmp, starts, spent>>

Calls(n) == state.calls + n

BatchSize == Smaller(TrainSize, Smaller(MinibatchSize, Remaining))

\* evaluateBeforeProposal: the parent is evaluated on a minibatch.
EvaluateBefore ==
  /\ pc = "before"
  /\ batch' = BatchSize
  /\ state' = [state EXCEPT !.calls = Calls(BatchSize)]
  /\ spent' = spent + BatchSize
  /\ pc' = "propose"
  /\ UNCHANGED <<loopVars, next, disk, starts>>

\* A patch is proposed; the run ends with it when the budget is spent.
Propose ==
  /\ pc = "propose"
  /\ log' = log \union {Event("proposed")}
  /\ pc' = IF Remaining <= 0 THEN "finish" ELSE "after"
  /\ UNCHANGED <<memory, file, tmp, starts, spent>>

\* evaluateProposal: a patch that does not score better is rejected; one that does is dropped
\* when the budget has no room to validate it.
EvaluateAfter ==
  LET n == Smaller(batch, Remaining)
      s == [state EXCEPT !.calls = Calls(n)]
  IN /\ pc = "after"
     /\ spent' = spent + n
     /\ \/ /\ state' = [s EXCEPT !.proposals = Proposal(s, FALSE)]
           /\ pc' = "reject"
        \/ /\ state' = s
           /\ pc' = IF s.calls >= MaxMetricCalls THEN "finish" ELSE "validate"
     /\ UNCHANGED <<loopVars, next, batch, disk, starts>>

\* computeFrontier goes through the winners,
VisitWinner ==
  /\ pc = "frontier"
  /\ Visit
  /\ UNCHANGED <<pc, next, state, batch, disk, starts, spent>>

\* and those it has left are the frontier; a new state and a merged candidate are then saved.
FrontierFound ==
  /\ pc = "frontier" /\ todo = {}
  /\ state' = [state EXCEPT !.frontier = winners]
  /\ pc' = IF next = "accept" THEN "accept" ELSE "save"
  /\ UNCHANGED <<loopVars, next, batch, disk, starts, spent>>

\* Mutation: a rejection is not saved.
RejectUnsaved ==
  /\ pc = "reject"
  /\ log' = log \union {Event("rejected")}
  /\ pc' = "loop"
  /\ UNCHANGED <<loopVars, next, state, batch, file, tmp, starts, spent>>

\* rejectCandidate: the event first, then the state.
Reject ==
  /\ pc = "reject"
  /\ log' = log \union {Event("rejected")}
  /\ pc' = "save" /\ next' = "loop"
  /\ UNCHANGED <<loopVars, state, batch, file, tmp, starts, spent>>

\* acceptCandidate: the candidate is validated on what the budget has room for and joins.
Validate ==
  /\ pc = "validate"
  /\ \E examples \in Samples : \E scores \in [examples -> Scores] :
       /\ state' = [Adopt(state, scores) EXCEPT !.calls = Calls(Cardinality(examples)),
                                                !.proposals = Proposal(state, TRUE)]
       /\ StartLoop(Append(state.candidates, scores))
       /\ spent' = spent + Cardinality(examples)
  /\ pc' = "frontier" /\ next' = "accept"
  /\ UNCHANGED <<batch, disk, starts>>

\* emitAcceptedCandidateEvents: the events first, then the state.
Accept ==
  /\ pc = "accept"
  /\ log' = log \union {Event("accepted"), Event("frontier")}
  /\ pc' = "save" /\ next' = "merge"
  /\ UNCHANGED <<loopVars, state, batch, file, tmp, starts, spent>>

CanMerge == EnableMerge /\ Cardinality(state.frontier) >= 2 /\ Remaining > 0

\* tryMerge: two candidates of the frontier, whose ids are in random order, are merged; the
\* result joins unless it is worse than both.  A merge that is not kept is not saved.
Merge ==
  /\ pc = "merge"
  /\ \/ /\ ~CanMerge
        /\ pc' = "loop"
        /\ UNCHANGED <<loopVars, next, state, spent>>
     \/ /\ CanMerge
        /\ \E left \in state.frontier, right \in state.frontier, examples \in Samples :
             /\ left < right
             /\ \E scores \in [examples -> Scores] :
                  LET worse(i) == Above(state.candidates[i], scores)
                      s == IF worse(left) /\ worse(right) THEN state ELSE Adopt(state, scores)
                  IN /\ state' = [s EXCEPT !.calls = Calls(Cardinality(examples))]
                     /\ IF worse(left) /\ worse(right)
                        THEN pc' = "loop" /\ UNCHANGED <<loopVars, next>>
                        ELSE pc' = "frontier" /\ next' = "loop" /\ StartLoop(s.candidates)
             /\ spent' = spent + Cardinality(examples)
  /\ UNCHANGED <<batch, disk, starts>>

\* Mutation: the loop goes on after the state it ends with.
FinishAndGoOn ==
  /\ pc = "finish"
  /\ log' = log \union {Event("ended")}
  /\ pc' = "save" /\ next' = "loop"
  /\ UNCHANGED <<loopVars, state, batch, file, tmp, starts, spent>>

\* finishState: the state Run returns is saved.
Finish ==
  /\ pc = "finish"
  /\ log' = log \union {Event("ended")}
  /\ pc' = "save" /\ next' = "done"
  /\ UNCHANGED <<loopVars, state, batch, file, tmp, starts, spent>>

\* writeJSON: the state is written to a temporary file,
WriteTmp ==
  /\ pc = "save"
  /\ tmp' = state
  /\ pc' = "rename"
  /\ UNCHANGED <<memory, file, log, starts, spent>>

\* which then replaces the state file.
Rename ==
  /\ pc = "rename"
  /\ file' = tmp
  /\ tmp' = NoFile
  /\ pc' = next
  /\ UNCHANGED <<memory, log, starts, spent>>

Running == pc \notin {"down", "done"}

EvaluationSize ==
  CASE pc = "seed" -> Cardinality(Valset)
    [] pc = "before" -> BatchSize
    [] pc = "after" -> Smaller(batch, Remaining)
    [] pc = "validate" \/ (pc = "merge" /\ CanMerge) -> Smaller(Cardinality(Valset), Remaining)
    [] OTHER -> 0

\* The run stops: an evaluation that had begun may have cost what it costs, and a file that was
\* being written may be torn.
Stop ==
  /\ Running
  /\ spent' \in {spent, spent + EvaluationSize}
  /\ tmp' \in (IF pc = "save" THEN {tmp, Torn} ELSE {tmp})
  /\ pc' = "down" /\ next' = "down" /\ state' = NewState /\ batch' = 0
  /\ records' = <<>> /\ winners' = {} /\ todo' = {}
  /\ UNCHANGED <<file, log, starts>>

RunStep ==
  \/ EvaluateSeed \/ VisitWinner \/ FrontierFound \/ Begin \/ EvaluateBefore \/ Propose \/ EvaluateAfter \/ Reject
  \/ Validate \/ Accept \/ Merge \/ Finish \/ WriteTmp \/ Rename

Next == Start \/ RunStep \/ Stop

Spec == Init /\ [][Next]_vars

\* Evaluators, proposers and the file system answer.
FairSpec == Spec /\ WF_vars(RunStep)

-----------------------------------------------------------------------------
(* Properties *)

Best(s) == s.candidates[s.best]

\* Every variable has its type, and the scores of a candidate are of examples it was run on.
TypeOK ==
  /\ pc \in {"down", "seed", "loop", "before", "propose", "after", "reject", "validate",
             "frontier", "accept", "merge", "finish", "save", "rename", "done"}
  /\ next \in {"down", "loop", "accept", "merge", "done"}
  /\ state.calls \in 0..MaxMetricCalls /\ state.iterations \in Nat
  /\ \A i \in DOMAIN state.candidates : state.candidates[i] \in UNION {[D -> Scores] : D \in SUBSET Valset}
  /\ batch \in 0..MinibatchSize
  /\ starts \in 0..MaxStarts /\ spent \in Nat

\* A run that is never stopped makes exactly the metric calls it counts, at most MaxMetricCalls;
\* each stop wastes at most the work of one iteration and one merge that was not kept before it.
WasteBounded ==
  LET stops == IF pc = "down" THEN starts ELSE starts - 1
      counted == IF pc # "down" THEN state.calls ELSE IF file = NoFile THEN 0 ELSE file.calls
  IN /\ counted <= MaxMetricCalls
     /\ spent - counted <= stops * 2 * (MinibatchSize + Cardinality(Valset))
     /\ spent >= counted

\* At whatever moment the process stops, the state file is absent or a whole state that passes
\* the validation of a resumed run, and the event log is never behind it and at most one
\* iteration ahead: every proposal in the file has its event, and no iteration has two proposals
\* in one state.
StopsRecoverable ==
  /\ file # NoFile => Resumable(file)
  /\ \A k \in DOMAIN file.proposals :
       [kind |-> IF file.proposals[k].accepted THEN "accepted" ELSE "rejected",
        iteration |-> file.proposals[k].iteration] \in log
  /\ \A e \in log : e.iteration <= file.iterations + 1
  /\ \A j, k \in DOMAIN state.proposals :
       j < k => state.proposals[j].iteration < state.proposals[k].iteration

\* Through acceptances, merges and resumes, the best candidate is the first of those with the
\* highest average, though candidates are validated on different parts of the validation set,
\* and the frontier is that of all the candidates.
BestAndFrontierCurrent ==
  state.candidates # <<>> =>
    /\ \A i \in DOMAIN state.candidates :
         /\ ~Above(state.candidates[i], Best(state))
         /\ i < state.best => Above(Best(state), state.candidates[i])
    /\ pc # "frontier" => state.frontier = Frontier(state.candidates)

\* A candidate, once saved, is never lost, and a run whose budget is spent evaluates no more.
SavedWorkKept ==
  [][file # NoFile =>
       /\ file'.calls >= file.calls /\ file'.iterations >= file.iterations
       /\ \A i \in DOMAIN file.candidates :
            i \in DOMAIN file'.candidates /\ file'.candidates[i] = file.candidates[i]
       /\ file.calls >= MaxMetricCalls => spent' = spent]_vars

\* Each run returns: every iteration spends some of the budget.
RunReturns == Running ~> ~Running

=============================================================================
