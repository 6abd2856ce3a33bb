------------------------------- MODULE StepTree -------------------------------
(***************************************************************************)
(* One execution of a top-level step that is built from others: how        *)
(* runNode runs a step (pipeline_exec.go), and how WithPolicy, WithCache,  *)
(* Parallel, Map, MapCollectUntil and Loop run the steps inside them.      *)
(*                                                                         *)
(* The step is a tree of nodes, each with a Kind; a Map has one child for  *)
(* each element of its list.  What a leaf does is left open: it succeeds,  *)
(* fails, panics or reports that its context ended, at any moment.  What   *)
(* it stages for tools is its execution, <<node, number>>.  The run's      *)
(* context may end and the timeout of an attempt may fire at any moment.   *)
(*                                                                         *)
(* An error is the sequence of what it joins, outermost first; the empty   *)
(* sequence is success.                                                    *)
(***************************************************************************)
EXTENDS Integers, Sequences, FiniteSets, SequencesExt

CONSTANT Trees   \* the steps to run

Node(t) == DOMAIN t.kind

Kinds == {"leaf", "policy", "cache", "parallel", "map", "until", "loop"}

Wrappers == {"policy", "cache"}

\* bound is the MaxAttempts of a policy, the MaxConcurrency of a map and the MaxIterations of a
\* loop; timed are the policies with a Timeout and collects the maps that are a MapCollect.
ASSUME TreesAssumption ==
  \A t \in Trees :
    /\ t.kind \in Seq(Kinds) /\ t.kind # <<>>
    /\ t.parent \in [Node(t) -> Node(t) \union {0}]
    /\ \A n \in Node(t) : n = 1 <=> t.parent[n] = 0
    /\ \A n \in Node(t) \ {1} : t.parent[n] < n /\ t.kind[t.parent[n]] # "leaf"
    /\ t.bound \in [Node(t) -> Nat \ {0}]
    /\ t.timed \subseteq {n \in Node(t) : t.kind[n] = "policy"}
    /\ t.collects \subseteq {n \in Node(t) : t.kind[n] \in {"map", "until"}}
    /\ \A n \in Node(t) : t.kind[n] \in Wrappers \union {"loop"} =>
         Cardinality({c \in Node(t) : t.parent[c] = n}) = 1

VARIABLES
  tree,      \* the step that runs
  pc,        \* node -> where its current execution is
  ended,     \* why the run's context ended, or "no"
  inner,     \* node -> why the context its children run under ended, or "no"
  count,     \* node -> attempts, iterations or elements begun, or whether a cache key was built
  failures,  \* node -> the errors of its children, in the order it learnt of them
  staged,    \* node -> what its execution staged, with that of the children it committed
  result,    \* node -> the error its execution returned
  log,       \* the executions and their reports, the hold and the step cache of the run
  verdict,   \* "running", then "committed" or "failed"
  memory,    \* what the run committed for tools
  fate       \* history: what leaves did, since each node began, and what failures dropped

vars == <<tree, pc, ended, inner, count, failures, staged, result, log, verdict, memory, fate>>

-----------------------------------------------------------------------------
(* The tree and its contexts. *)

Nodes == Node(tree)

Root == 1

Kind(n) == tree.kind[n]

Children(n) == {c \in Nodes : tree.parent[c] = n}

Ancestors ==
  LET above[n \in Nodes] == IF n = Root THEN {} ELSE {tree.parent[n]} \union above[tree.parent[n]]
  IN above

Below(n) == {m \in Nodes : n = m \/ n \in Ancestors[m]}

\* Why the context that n itself runs under ended.
Ctx(n) == IF n = Root THEN ended ELSE inner[tree.parent[n]]

\* stopCause: a spent budget and a timeout replace what the step returned.
StopCauses == {"budget", "timeout"}

ContextEnd(cause) == IF cause \in StopCauses THEN <<cause>> ELSE <<"canceled">>

\* Ends the context of n's children, and every context made from it that has not ended.
Cut(n, cause) ==
  [m \in Nodes |-> IF m \in Below(n) /\ pc[m] \in {"run", "wait"} /\ inner[m] = "no"
                   THEN cause ELSE inner[m]]

-----------------------------------------------------------------------------
(* Errors: ErrorKindOf takes the first part that has a kind. *)

Kinded == [trans |-> "Transient", timeout |-> "Transient", budget |-> "Budget", perm |-> "Permanent"]

ErrorKindOf(err) ==
  LET classified == SelectSeq(err, LAMBDA part : part \in DOMAIN Kinded)
  IN IF classified = <<>> THEN "" ELSE Kinded[classified[1]]

IsTransient(err) == ErrorKindOf(err) = "Transient"

IsBudget(err) == ErrorKindOf(err) = "Budget"

Has(err, part) == part \in ToSet(err)

-----------------------------------------------------------------------------
(* The records of the executions.  A number of a node's executions is       *)
(* "running", "held" by the wrapper it is directly inside, or reported: "ok" *)
(* or "failed".                                                              *)

IsWrapper(n) == Kind(n) \in Wrappers

\* n runs with the hold of the top-level wrapper in its context.
InHold(n) == IsWrapper(Root) /\ \A m \in Ancestors[n] : IsWrapper(m)

\* The step a wrapper names: the first below it that is not a wrapper.
Named(n) == CHOOSE m \in Below(n) : ~IsWrapper(m) /\ \A a \in Ancestors[m] \intersect Below(n) : IsWrapper(a)

NoHold == [exec |-> <<>>, waits |-> {}]

Begun(l, n) == [l EXCEPT !.execs[n] = Append(@, "running")]

Latest(l, n) == <<n, Len(l.execs[n])>>

Report(l, exec, how) ==
  [l EXCEPT !.execs[exec[1]][exec[2]] = IF @ \in {"running", "held"} THEN how ELSE "twice"]

Store(l, entries) ==
  [l EXCEPT !.cache = [n \in DOMAIN @ |->
     IF \E e \in entries : e.node = n THEN {e \in entries : e.node = n} ELSE @[n]]]

\* finishHold.end
Release(l, how, commits) ==
  LET open == [l EXCEPT !.hold = NoHold]
  IN IF l.hold.exec = <<>> THEN open
     ELSE LET reported == Report(open, l.hold.exec, how)
          IN IF commits THEN Store(reported, l.hold.waits) ELSE reported

\* Mutation: the execution held before is forgotten.
FinishHoldForgetful(l, n, err) ==
  IF err = <<>> /\ InHold(n)
  THEN [[l EXCEPT !.execs[n][Len(l.execs[n])] = "held"] EXCEPT !.hold = [exec |-> Latest(l, n), waits |-> {}]]
  ELSE Report(l, Latest(l, n), IF err = <<>> THEN "ok" ELSE "failed")

\* finishHold.finish
FinishHold(l, n, err) ==
  IF err = <<>> /\ InHold(n)
  THEN LET free == Release(l, "ok", TRUE)
       IN [free EXCEPT !.execs[n][Len(l.execs[n])] = "held", !.hold.exec = Latest(l, n)]
  ELSE Report(l, Latest(l, n), IF err = <<>> THEN "ok" ELSE "failed")

\* whenSucceeded: at once outside a hold.
WhenSucceeded(l, n, entry) ==
  IF InHold(n) THEN [l EXCEPT !.hold.waits = @ \union {entry}] ELSE Store(l, {entry})

-----------------------------------------------------------------------------
(* The end of runNode. *)

Init ==
  /\ tree \in Trees
  /\ pc = [n \in Nodes |-> IF n = Root THEN "start" ELSE "idle"]
  /\ ended = "no"
  /\ inner = [n \in Nodes |-> "no"]
  /\ count = [n \in Nodes |-> 0]
  /\ failures = [n \in Nodes |-> <<>>]
  /\ staged = [n \in Nodes |-> {}]
  /\ result = [n \in Nodes |-> <<>>]
  /\ log = [execs |-> [n \in Nodes |-> <<>>], hold |-> NoHold, cache |-> [n \in Nodes |-> {}]]
  /\ verdict = "running"
  /\ memory = {}
  /\ fate = [worked |-> {}, since |-> [n \in Nodes |-> {}], dropped |-> {}]

\* Work of n succeeds.  What a cache serves may stand already, and is then none of n's.
Succeeds(f, n, execs) ==
  LET new == execs \ (f.worked \ f.dropped)
  IN [worked  |-> f.worked \union execs,
      since   |-> [m \in Nodes |-> IF m = n \/ m \in Ancestors[n] THEN f.since[m] \union new ELSE f.since[m]],
      dropped |-> f.dropped \ execs]

Fails(f, n) == [f EXCEPT !.dropped = @ \union f.since[n]]

\* The record of a node's own execution, which a wrapper has not.
Ends(l, n, err) == IF IsWrapper(n) THEN l ELSE FinishHold(l, n, err)

\* n returned err, and what the steps inside it returned is gone.
Returned(n, err) ==
  [m \in Nodes |-> IF m = n THEN err ELSE IF m \in Children(n) THEN <<>> ELSE result[m]]

\* The pipeline's check of a top-level result: it commits, fails the execution (a transition's
\* When that panics) or fails otherwise (a merge).
Commit(l, err, work) ==
  \/ /\ err = <<>>
     /\ verdict' = "committed"
     /\ memory' = work
     /\ log' = Release(Ends(l, Root, <<>>), "ok", TRUE)
     /\ result' = Returned(Root, <<>>)
  \/ /\ err = <<>>
     /\ verdict' = "failed"
     /\ log' = Release(Ends(l, Root, <<"commit">>), "failed", FALSE)
     /\ result' = Returned(Root, <<"commit">>)
     /\ UNCHANGED memory
  \/ /\ err = <<>> /\ IsWrapper(Root)
     /\ verdict' = "failed"
     /\ log' = LET released == Begun(Release(l, "ok", FALSE), Named(Root))
               IN Report(released, Latest(released, Named(Root)), "failed")
     /\ result' = Returned(Root, <<"commit">>)
     /\ UNCHANGED memory
  \/ /\ err # <<>>
     /\ verdict' = "failed"
     /\ log' = Release(Ends(l, Root, err), "ok", TRUE)
     /\ result' = Returned(Root, err)
     /\ UNCHANGED memory

\* runNode returns err, with what the execution staged when it succeeds.
Return(n, l, f, err, work) ==
  /\ pc' = [m \in Nodes |-> IF m = n THEN "done" ELSE IF m \in Children(n) THEN "idle" ELSE pc[m]]
  /\ inner' = [inner EXCEPT ![n] = "no"]
  /\ staged' = [m \in Nodes |-> IF m = n /\ err = <<>> THEN work
                                ELSE IF m \in {n} \union Children(n) THEN {} ELSE staged[m]]
  /\ fate' = IF err # <<>> THEN Fails(f, n) ELSE f
  /\ count' = [count EXCEPT ![n] = 0]
  /\ failures' = [failures EXCEPT ![n] = <<>>]
  /\ IF n = Root THEN Commit(l, err, work)
     ELSE /\ log' = Ends(l, n, err)
          /\ result' = Returned(n, err)
          /\ UNCHANGED <<verdict, memory>>
  /\ UNCHANGED <<tree, ended>>

\* The cause of n's context ending replaces its error, unless the error carries it.
Replaced(n, err) == IF Ctx(n) \in StopCauses /\ ~Has(err, Ctx(n)) THEN <<Ctx(n)>> ELSE err

Finish(n, l, err, work) == Return(n, l, fate, Replaced(n, err), work)

-----------------------------------------------------------------------------
(* runNode begins. *)

\* stepCanStart refuses a step whose context has ended.
Refuse(n) ==
  /\ pc[n] = "start"
  /\ Ctx(n) # "no"
  /\ LET l == IF IsWrapper(n) THEN log ELSE Begun(log, n)
     IN Return(n, l, [fate EXCEPT !.since[n] = {}], ContextEnd(Ctx(n)), {})

\* The step runs.  A Parallel starts its steps, a WithPolicy its first attempt.
Begin(n) ==
  /\ pc[n] = "start"
  /\ Ctx(n) = "no"
  /\ pc' = [m \in Nodes |->
       IF m = n THEN "run"
       ELSE IF m \notin Children(n) THEN pc[m]
       ELSE IF Kind(n) \in {"parallel", "policy"} THEN "start" ELSE "idle"]
  /\ count' = [count EXCEPT ![n] = IF Kind(n) = "policy" THEN 1 ELSE 0]
  /\ log' = IF IsWrapper(n) THEN log ELSE Begun(log, n)
  /\ staged' = [staged EXCEPT ![n] = {}]
  /\ fate' = [fate EXCEPT !.since[n] = {}]
  /\ UNCHANGED <<tree, ended, inner, failures, result, verdict, memory>>

-----------------------------------------------------------------------------
(* A leaf. *)

\* The step's own code returns, or fails, or says that its context has ended.
LeafReturns(n) ==
  /\ Kind(n) = "leaf" /\ pc[n] = "run"
  /\ \E own \in {<<>>, <<"plain">>, <<"trans">>} \union IF Ctx(n) # "no" THEN {<<"canceled">>} ELSE {} :
       LET err == Replaced(n, own)
           work == {Latest(log, n)}
       IN Return(n, log, IF err = <<>> THEN Succeeds(fate, n, work) ELSE fate, err, work)

\* A panic becomes the error as it is.
LeafPanics(n) ==
  /\ Kind(n) = "leaf" /\ pc[n] = "run"
  /\ Return(n, log, fate, <<"panic">>, {})

-----------------------------------------------------------------------------
(* WithPolicy. *)

\* The timeout of the attempt that is running fires.
TimeoutFires(n) ==
  /\ n \in tree.timed /\ pc[n] = "run" /\ inner[n] = "no"
  /\ inner' = Cut(n, "timeout")
  /\ UNCHANGED <<tree, pc, ended, count, failures, staged, result, log, verdict, memory, fate>>

\* An attempt has ended.  A result commits; a Transient error is retried while the context of the
\* policy lives and attempts are left.
AttemptEnds(n) ==
  /\ Kind(n) = "policy" /\ pc[n] = "run"
  /\ \E c \in Children(n) :
       /\ pc[c] = "done"
       /\ LET err == result[c]
              retries == err # <<>> /\ Ctx(n) = "no" /\ count[n] < tree.bound[n] /\ IsTransient(err)
          IN \/ /\ ~retries
                /\ Finish(n, log, err, staged[c])
             \/ /\ retries
                /\ pc' = [pc EXCEPT ![n] = "wait"]
                /\ UNCHANGED <<tree, ended, inner, count, failures, staged, result, log, verdict, memory, fate>>

\* The wait ends early with the context: the error of the attempt and that end are returned.
WaitEndsEarly(n) ==
  /\ pc[n] = "wait"
  /\ Ctx(n) # "no"
  /\ \E c \in Children(n) : Finish(n, log, Append(result[c], "canceled"), {})

\* Mutation: an attempt runs under a context of its own.
NextAttemptDetached(n) ==
  /\ pc[n] = "wait"
  /\ pc' = [m \in Nodes |-> IF m = n THEN "run" ELSE IF m \in Children(n) THEN "start" ELSE pc[m]]
  /\ inner' = [inner EXCEPT ![n] = "no"]
  /\ count' = [count EXCEPT ![n] = @ + 1]
  /\ UNCHANGED <<tree, ended, failures, staged, result, log, verdict, memory, fate>>

\* The wait is over: the next attempt runs under a timeout of its own, inside the context of the
\* policy, which may have ended meanwhile.
NextAttempt(n) ==
  /\ pc[n] = "wait"
  /\ pc' = [m \in Nodes |-> IF m = n THEN "run" ELSE IF m \in Children(n) THEN "start" ELSE pc[m]]
  /\ inner' = [inner EXCEPT ![n] = Ctx(n)]
  /\ count' = [count EXCEPT ![n] = @ + 1]
  /\ UNCHANGED <<tree, ended, failures, staged, result, log, verdict, memory, fate>>

-----------------------------------------------------------------------------
(* WithCache. *)

\* The cache key is built, or cannot be; a cached result commits in place of a run.
LookUp(n) ==
  /\ Kind(n) = "cache" /\ pc[n] = "run"
  /\ \E c \in Children(n) :
       /\ pc[c] = "idle"
       /\ \/ /\ log.cache[n] # {}
             /\ \E entry \in log.cache[n] :
                  LET hit == FinishHold(Begun(log, c), c, <<>>)
                  IN Return(n, hit, Succeeds(fate, n, entry.staged), Replaced(n, <<>>), entry.staged)
          \/ \E keyed \in {0, 1} :
               /\ keyed = 1 => log.cache[n] = {}
               /\ pc' = [pc EXCEPT ![c] = "start"]
               /\ count' = [count EXCEPT ![n] = keyed]
               /\ UNCHANGED <<tree, ended, inner, failures, staged, result, log, verdict, memory, fate>>

\* The wrapped step has ended: its result commits and is stored once its execution has succeeded.
CachedStepEnds(n) ==
  /\ Kind(n) = "cache" /\ pc[n] = "run"
  /\ \E c \in Children(n) :
       /\ pc[c] = "done"
       /\ LET keeps == result[c] = <<>> /\ count[n] = 1
              l == IF keeps THEN WhenSucceeded(log, n, [node |-> n, staged |-> staged[c]]) ELSE log
          IN Finish(n, l, result[c], staged[c])

-----------------------------------------------------------------------------
(* Parallel. *)

\* Mutation: the others are cancelled before the failure is listed.
StepEndsCancelling(n, c) ==
  /\ Kind(n) = "parallel" /\ pc[n] = "run" /\ c \in Children(n)
  /\ \/ /\ pc[c] = "done" /\ result[c] = <<>>
        /\ pc' = [pc EXCEPT ![c] = "over"]
        /\ UNCHANGED <<failures, inner>>
     \/ /\ pc[c] = "done" /\ result[c] # <<>>
        /\ pc' = [pc EXCEPT ![c] = "listing"]
        /\ inner' = Cut(n, "sibling")
        /\ UNCHANGED failures
     \/ /\ pc[c] = "listing"
        /\ pc' = [pc EXCEPT ![c] = "over"]
        /\ failures' = [failures EXCEPT ![n] = Append(@, result[c])]
        /\ UNCHANGED inner
  /\ UNCHANGED <<tree, ended, count, staged, result, log, verdict, memory, fate>>

\* A step ends: its goroutine is over, or appends its error to the failures first.
StepEnds(n, c) ==
  /\ Kind(n) = "parallel" /\ pc[n] = "run" /\ c \in Children(n) /\ pc[c] = "done"
  /\ IF result[c] = <<>>
     THEN /\ pc' = [pc EXCEPT ![c] = "over"]
          /\ UNCHANGED failures
     ELSE /\ pc' = [pc EXCEPT ![c] = "listed"]
          /\ failures' = [failures EXCEPT ![n] = Append(@, result[c])]
  /\ UNCHANGED <<tree, ended, inner, count, staged, result, log, verdict, memory, fate>>

\* Then it cancels the others.
CancelOthers(n, c) ==
  /\ pc[n] = "run" /\ c \in Children(n) /\ pc[c] = "listed"
  /\ pc' = [pc EXCEPT ![c] = "over"]
  /\ inner' = Cut(n, IF Kind(n) = "parallel" THEN "sibling" ELSE "element")
  /\ UNCHANGED <<tree, ended, count, failures, staged, result, log, verdict, memory, fate>>

\* The first failure, and the later ones that are not the cancellation.
Kept(n) ==
  LET own(err) == ~Has(err, "canceled") /\ ~Has(err, inner[n])
  IN FlattenSeq([i \in DOMAIN failures[n] |->
                  IF i = 1 \/ own(failures[n][i]) THEN failures[n][i] ELSE <<>>])

StagedBy(C) == UNION {staged[c] : c \in C}

ParallelEnds(n) ==
  /\ Kind(n) = "parallel" /\ pc[n] = "run"
  /\ \A c \in Children(n) : pc[c] = "over"
  /\ Finish(n, log, IF failures[n] = <<>> THEN <<>> ELSE Kept(n), StagedBy(Children(n)))

-----------------------------------------------------------------------------
(* Map and MapCollectUntil. *)

Busy == {"start", "run", "wait", "done", "listed"}

Succeeded(C) == {c \in C : result[c] = <<>>}

\* The elements that have not begun, and the first of them.
Left(n) == {c \in Children(n) : pc[c] = "idle"}

NextElement(n) == Min(Left(n))

MoreElements(n) == Left(n) # {}

StartChild(n, c) ==
  /\ pc' = [pc EXCEPT ![c] = "start"]
  /\ count' = [count EXCEPT ![n] = @ + 1]
  /\ UNCHANGED <<tree, ended, inner, failures, staged, result, log, verdict, memory, fate>>

\* takeSlot: a slot is free and the context of the elements has not ended.
StartElement(n) ==
  /\ Kind(n) = "map" /\ pc[n] = "run" /\ MoreElements(n)
  /\ Cardinality({c \in Children(n) : pc[c] \in Busy}) < tree.bound[n]
  /\ inner[n] = "no"
  /\ StartChild(n, NextElement(n))

\* stopsWith: the errors that stop the map, at most one.
StopsWith(n, err) ==
  IF err = <<>> THEN <<>>
  ELSE IF n \notin tree.collects \/ IsBudget(err) THEN <<err>>
  ELSE IF Ctx(n) # "no" THEN <<ContextEnd(Ctx(n))>> ELSE <<>>

\* An element ends: it gives its slot back, at once or after it has stopped the others.
ElementEnds(n, c) ==
  /\ Kind(n) = "map" /\ pc[n] = "run" /\ c \in Children(n) /\ pc[c] = "done"
  /\ LET stop == StopsWith(n, result[c])
     IN /\ pc' = [pc EXCEPT ![c] = IF stop = <<>> THEN "over" ELSE "listed"]
        /\ failures' = [failures EXCEPT ![n] = IF @ = <<>> THEN stop ELSE @]
  /\ UNCHANGED <<tree, ended, inner, count, staged, result, log, verdict, memory, fate>>

\* Mutation: a map waits for a slot for every element, whatever has ended.
MapEndsFull(n) ==
  /\ Kind(n) = "map" /\ pc[n] = "run"
  /\ ~MoreElements(n)
  /\ \A c \in Children(n) : pc[c] \notin Busy
  /\ Finish(n, log, IF failures[n] # <<>> THEN failures[n][1] ELSE <<>>, StagedBy(Succeeded(Children(n))))

\* Every element begun has ended, and none is left or none may start.
MapEnds(n) ==
  /\ Kind(n) = "map" /\ pc[n] = "run"
  /\ ~MoreElements(n) \/ inner[n] # "no"
  /\ \A c \in Children(n) : pc[c] \notin Busy
  /\ Finish(n, log,
            IF failures[n] # <<>> THEN failures[n][1]
            ELSE IF MoreElements(n) THEN ContextEnd(Ctx(n)) ELSE <<>>,
            StagedBy(Succeeded(Children(n))))

\* runUntil: the next element starts, or is refused.
UntilStarts(n) ==
  /\ Kind(n) = "until" /\ pc[n] = "run" /\ MoreElements(n)
  /\ \A c \in Children(n) : pc[c] \notin Busy
  /\ \/ /\ Ctx(n) # "no"
        /\ Finish(n, log, ContextEnd(Ctx(n)), {})
     \/ /\ Ctx(n) = "no"
        /\ StartChild(n, NextElement(n))

\* An element ends: it fails the map, matches the predicate, is the last one, or the map goes on.
UntilElementEnds(n, c) ==
  /\ Kind(n) = "until" /\ pc[n] = "run" /\ c \in Children(n) /\ pc[c] = "done"
  /\ LET err == result[c]
         fatal == Has(err, "panic") \/ Has(err, "timeout")
         stop == StopsWith(n, err)
         work == StagedBy(Succeeded({m \in Children(n) : m <= c}))
     IN \/ /\ fatal \/ stop # <<>>
           /\ Finish(n, log, IF fatal THEN err ELSE stop[1], {})
        \/ /\ ~fatal /\ stop = <<>>
           /\ Finish(n, log, <<>>, work)
        \/ /\ ~fatal /\ stop = <<>> /\ Ctx(n) # "no"
           /\ Finish(n, log, ContextEnd(Ctx(n)), {})
        \/ /\ ~fatal /\ stop = <<>> /\ Ctx(n) = "no" /\ MoreElements(n)
           /\ pc' = [pc EXCEPT ![c] = "over"]
           /\ UNCHANGED <<tree, ended, inner, count, failures, staged, result, log, verdict, memory, fate>>

-----------------------------------------------------------------------------
(* Loop. *)

\* The next iteration starts, or is refused.
Iterate(n) ==
  /\ Kind(n) = "loop" /\ pc[n] = "run"
  /\ \E c \in Children(n) :
       /\ pc[c] = "idle"
       /\ \/ /\ Ctx(n) # "no"
             /\ Finish(n, log, ContextEnd(Ctx(n)), {})
          \/ /\ Ctx(n) = "no"
             /\ StartChild(n, c)

\* Mutation: the stage of the loop holds the last iteration only.
LoopStageLast(n, c) == staged[c]

\* The stage of the loop with what an iteration staged.
LoopStage(n, c) == staged[n] \union staged[c]

\* An iteration ends and until decides: it holds, it fails or panics, or the loop goes on.
IterationEnds(n) ==
  /\ Kind(n) = "loop" /\ pc[n] = "run"
  /\ \E c \in Children(n) :
       /\ pc[c] = "done"
       /\ LET work == LoopStage(n, c)
          IN \/ /\ result[c] # <<>>
                /\ Finish(n, log, result[c], {})
             \/ /\ result[c] = <<>>
                /\ \E how \in {<<>>, <<"plain">>} : Finish(n, log, how, work)
             \/ /\ result[c] = <<>> /\ count[n] >= tree.bound[n]
                /\ Finish(n, log, <<"perm">>, {})
             \/ /\ result[c] = <<>> /\ count[n] < tree.bound[n]
                /\ pc' = [pc EXCEPT ![c] = "idle"]
                /\ staged' = [staged EXCEPT ![n] = work]
                /\ UNCHANGED <<tree, ended, inner, count, failures, result, log, verdict, memory, fate>>

-----------------------------------------------------------------------------

\* The caller cancels the run, or a budget of the run is spent.
Interrupt ==
  /\ verdict = "running" /\ ended = "no"
  /\ \E cause \in {"canceled", "budget"} :
       /\ ended' = cause
       /\ inner' = Cut(Root, cause)
  /\ UNCHANGED <<tree, pc, count, failures, staged, result, log, verdict, memory, fate>>

StepOf(n) ==
  \/ Refuse(n) \/ Begin(n)
  \/ LeafReturns(n) \/ LeafPanics(n)
  \/ AttemptEnds(n) \/ WaitEndsEarly(n) \/ NextAttempt(n)
  \/ LookUp(n) \/ CachedStepEnds(n)
  \/ ParallelEnds(n)
  \/ StartElement(n) \/ MapEnds(n) \/ UntilStarts(n)
  \/ Iterate(n) \/ IterationEnds(n)
  \/ \E c \in Children(n) :
       StepEnds(n, c) \/ CancelOthers(n, c) \/ ElementEnds(n, c) \/ UntilElementEnds(n, c)

Next ==
  \/ \E n \in Nodes : StepOf(n) \/ TimeoutFires(n)
  \/ Interrupt

\* Every goroutine that can go on does, and every leaf returns: a timeout does not abandon one.
Spec == Init /\ [][Next]_vars /\ WF_vars(\E n \in Nodes : StepOf(n))
-----------------------------------------------------------------------------
(* Properties. *)

Errors == Seq({"plain", "trans", "panic", "canceled", "budget", "timeout", "perm", "commit"})

Causes == {"no", "canceled", "budget", "timeout", "sibling", "element"}

\* The types of the variables.
TypeOK ==
  /\ tree \in Trees
  /\ pc \in [Nodes -> {"idle", "start", "run", "wait", "done", "listed", "over"}]
  /\ ended \in {"no", "canceled", "budget"}
  /\ inner \in [Nodes -> Causes]
  /\ count \in [Nodes -> Nat]
  /\ \A n \in Nodes : result[n] \in Errors /\ failures[n] \in Seq(Errors)
  /\ verdict \in {"running", "committed", "failed"}

Executions == UNION {{<<n, k>> : k \in 1..Len(log.execs[n])} : n \in Nodes}

StatusOf(exec) == log.execs[exec[1]][exec[2]]

\* A step commits for tools exactly what stands: what its leaves did in executions that succeeded
\* and are inside no attempt, iteration, element or branch that failed (runNode drops what a
\* failed execution staged; a late success is one that failed).
CommittedIsWhatStands ==
  verdict = "committed" => memory = fate.worked \ fate.dropped

\* Every execution is reported once, whatever held its report: none is lost, none is repeated and
\* none is left held or running when the step has ended (finishHold, beginExecution).
EachReportedOnce ==
  \A e \in Executions : /\ StatusOf(e) # "twice"
                         /\ verdict # "running" => StatusOf(e) \in {"ok", "failed"}

\* A step fails with its own failure or that of a step inside it, never with a cancellation that
\* one of them caused: while its own context lives, its error is not a bare cancellation
\* (Parallel and Map keep the first failure and cancel the others only then).
FailureIsReal ==
  \A n \in Nodes :
    pc[n] = "done" /\ result[n] # <<>> /\ Ctx(n) = "no" /\ (n = Root \/ pc[tree.parent[n]] = "run") =>
      result[n][1] # "canceled"

\* No step's own code starts once a context around it has ended: not a retry, an iteration, an
\* element or a branch (stepCanStart, sleepContext, takeSlot).
NothingStartsAfterEnd ==
  [][\A n \in Nodes : Kind(n) = "leaf" /\ pc[n] = "start" /\ pc'[n] = "run" =>
       ended = "no" /\ \A a \in Ancestors[n] : inner[a] = "no"]_vars

\* The step ends, whatever fails, ends or times out inside it.
StepTreeEnds == <>(verdict # "running")
=============================================================================
