---------------------------- MODULE ToolSession ----------------------------
(***************************************************************************)
(* Concurrent tool calls through the sessions of nested pipeline runs      *)
(* (tool_session.go), and the stages that hold what a step execution       *)
(* caches until the step commits (pipeline_exec.go, stepStage).            *)
(*                                                                         *)
(* Sessions are numbered as they are created.  A call is one goroutine in  *)
(* ToolSession.Call; each session's mutex is held between steps only by    *)
(* reserve, which takes several of them one by one, and everything else    *)
(* done under one mutex is one step.  A cached result is named by the call *)
(* that invoked the tool.  All calls to a tool have the same arguments.    *)
(***************************************************************************)
EXTENDS Integers, Sequences, FiniteSets

CONSTANTS
  Sessions,        \* the ids of the sessions
  Tools,
  Calls,           \* the calls made, each by a goroutine of its own
  Steps,           \* step executions
  NoCall, NoStep,
  SessionOf,       \* Calls -> Sessions, the session that makes the call
  Env,             \* Calls -> Seq(Sessions), sessions of the toolEnvs around it, inside out
  ToolOf,          \* Calls -> Tools
  StepOf,          \* Calls -> Steps \union {NoStep}, the step whose context the call has
  Parent,          \* Steps -> Steps \union {NoStep}, the step execution around it
  OwnSession,      \* Steps -> the sets holding the session of the run it is a top-level step
                   \* of, if that run has one; a child of a composite is in no set
  TopLevel,        \* the top-level steps of pipeline runs
  Staging,         \* the sessions of pipeline runs, which stage what they cache
  Allow,           \* Sessions -> SUBSET Tools
  MaxCalls,        \* Sessions -> Nat; 0 is none
  MaxCallsPerTool, \* Sessions -> [Tools -> Nat]; 0 is none
  Caches           \* the sessions whose policy has Cache

ASSUME SessionsAssumption ==
  /\ Sessions \subseteq Nat /\ IsFiniteSet(Sessions)
  /\ SessionOf \in [Calls -> Sessions]
  /\ Env \in [Calls -> Seq(Sessions)]
  /\ Staging \subseteq Sessions /\ Caches \subseteq Sessions
  /\ NoCall \notin Calls

ASSUME PolicyAssumption ==
  /\ ToolOf \in [Calls -> Tools]
  /\ Allow \in [Sessions -> SUBSET Tools]
  /\ MaxCalls \in [Sessions -> Nat]
  /\ MaxCallsPerTool \in [Sessions -> [Tools -> Nat]]

ASSUME StepsAssumption ==
  /\ NoStep \notin Steps
  /\ StepOf \in [Calls -> Steps \union {NoStep}]
  /\ Parent \in [Steps -> Steps \union {NoStep}]
  /\ TopLevel \subseteq Steps
  /\ OwnSession \in [Steps -> SUBSET Sessions]

VARIABLES
  toolCalls,  \* session -> tool -> invocations counted (ToolSession.calls)
  total,      \* session -> invocations counted (ToolSession.total)
  cache,      \* session -> tool -> cached result (ToolSession.cache)
  records,    \* session -> the records kept (ToolSession.records)
  holder,     \* session -> the call that holds its mutex
  staged,     \* step -> the results it stages: <<session, tool>> -> cached result
  stepState,  \* step -> running, returned (not committed yet), committed or dropped
  callAt,     \* call -> where it is
  locked,     \* call -> sessions reserve has locked for it
  answer,     \* call -> the result it returns, NoCall for an error
  noted,      \* call -> sessions that have its record
  invoked     \* history: the calls that invoked their tool

callVars == <<callAt, locked, answer, noted>>
counts == <<toolCalls, total, invoked>>
vars == <<callVars, counts, cache, records, holder, staged, stepState>>

-----------------------------------------------------------------------------
(* Which sessions and steps a call concerns. *)

\* enclosing: the sessions of the runs around the call, other than the one that makes it.
Enclosing(c) == {Env[c][i] : i \in DOMAIN Env[c]} \ {SessionOf[c]}

Governing(c) == {SessionOf[c]} \union Enclosing(c)

\* Position of a governing session, the call's own first, then inside out.
Rank(c, s) ==
  IF s = SessionOf[c] THEN 0
  ELSE CHOOSE i \in DOMAIN Env[c] : Env[c][i] = s /\ \A j \in 1..(i - 1) : Env[c][j] # s

\* Steps around a step, itself included, as stepStage.parent links them.
StepsAround[st \in Steps \union {NoStep}] ==
  IF st = NoStep THEN {} ELSE {st} \union StepsAround[Parent[st]]

\* A step execution starts inside one that is under way.  Calls through the session of a run have
\* it from the context of the run, whose stages go on with those around the run.
ASSUME NestingAssumption ==
  /\ \E depth \in [Steps -> 1..Cardinality(Steps)] :
       \A st \in Steps : Parent[st] # NoStep => depth[Parent[st]] < depth[st]
  /\ \A st \in TopLevel, c \in Calls :
       SessionOf[c] \in OwnSession[st] => StepsAround[Parent[st]] \subseteq StepsAround[StepOf[c]]

\* The stage of a call: a session of a pipeline run stages in the step of the call's context.
StageOf(c) == IF SessionOf[c] \in Staging THEN StepOf[c] ELSE NoStep

CacheKey(c) == <<SessionOf[c], ToolOf[c]>>

Permitted(c) == \A s \in Governing(c) : ToolOf[c] \in Allow[s]

\* limitRefusal, by any governing session.
LimitRefusal(c) ==
  \E s \in Governing(c) :
    \/ MaxCallsPerTool[s][ToolOf[c]] > 0 /\ toolCalls[s][ToolOf[c]] >= MaxCallsPerTool[s][ToolOf[c]]
    \/ MaxCalls[s] > 0 /\ total[s] >= MaxCalls[s]

\* Mutation: locks are taken as the sessions enclose one another.
MayLockByNesting(c, s) ==
  \A r \in Governing(c) \ locked[c] : Rank(c, s) <= Rank(c, r)

\* reserve takes the locks in the order the sessions were created.
MayLock(c, s) == \A r \in Governing(c) \ locked[c] : s <= r

-----------------------------------------------------------------------------

Init ==
  /\ toolCalls = [s \in Sessions |-> [t \in Tools |-> 0]]
  /\ total = [s \in Sessions |-> 0]
  /\ cache = [s \in Sessions |-> <<>>]
  /\ records = [s \in Sessions |-> <<>>]
  /\ holder = [s \in Sessions |-> NoCall]
  /\ staged = [st \in Steps |-> <<>>]
  /\ stepState = [st \in Steps |-> "running"]
  /\ callAt = [c \in Calls |-> "idle"]
  /\ locked = [c \in Calls |-> {}]
  /\ answer = [c \in Calls |-> NoCall]
  /\ noted = [c \in Calls |-> {}]
  /\ invoked = {}

MoveTo(c, label) == callAt' = [callAt EXCEPT ![c] = label]

Answer(c, result) ==
  /\ answer' = [answer EXCEPT ![c] = result]
  /\ MoveTo(c, "record")

\* A call is made by a step that is running.  It ends at once when a policy does not allow the
\* tool or when its context has ended, and looks in the caches when its session caches.
Start(c) ==
  /\ callAt[c] = "idle"
  /\ StepOf[c] # NoStep => stepState[StepOf[c]] = "running"
  /\ \/ MoveTo(c, "barred")
     \/ /\ Permitted(c)
        /\ MoveTo(c, IF SessionOf[c] \notin Caches THEN "reserve"
                   ELSE IF StageOf(c) = NoStep THEN "cache" ELSE "stage")
  /\ UNCHANGED <<locked, answer, noted, counts, cache, records, holder, staged, stepState>>

\* cached: the stage of the step and those of the steps around it, the innermost first.
LookInStages(c) ==
  LET holding == {st \in StepsAround[StageOf(c)] : CacheKey(c) \in DOMAIN staged[st]}
  IN /\ callAt[c] = "stage"
     /\ \/ /\ holding = {}
           /\ MoveTo(c, "cache")
           /\ UNCHANGED answer
        \/ \E st \in holding :
             /\ holding \subseteq StepsAround[st]
             /\ Answer(c, staged[st][CacheKey(c)])
     /\ UNCHANGED <<locked, noted, counts, cache, records, holder, staged, stepState>>

\* cached: the session's own cache.
LookInCache(c) ==
  LET s == SessionOf[c]
  IN /\ callAt[c] = "cache"
     /\ holder[s] = NoCall
     /\ \/ /\ ToolOf[c] \in DOMAIN cache[s]
           /\ Answer(c, cache[s][ToolOf[c]])
        \/ /\ ToolOf[c] \notin DOMAIN cache[s]
           /\ MoveTo(c, "reserve")
           /\ UNCHANGED answer
     /\ UNCHANGED <<locked, noted, counts, cache, records, holder, staged, stepState>>

\* reserve takes the next session's lock.
Lock(c) ==
  /\ callAt[c] = "reserve"
  /\ \E s \in Governing(c) \ locked[c] :
       /\ MayLock(c, s)
       /\ holder[s] = NoCall
       /\ holder' = [holder EXCEPT ![s] = c]
       /\ locked' = [locked EXCEPT ![c] = @ \union {s}]
  /\ UNCHANGED <<callAt, answer, noted, counts, cache, records, staged, stepState>>

\* What reserve defers.
Unlock(c) ==
  /\ holder' = [s \in Sessions |-> IF s \in locked[c] THEN NoCall ELSE holder[s]]
  /\ locked' = [locked EXCEPT ![c] = {}]

\* Mutation: a refused call stays counted in the sessions that had room for it.
ReserveSome(c) ==
  LET room == {s \in Governing(c) : MaxCalls[s] = 0 \/ total[s] < MaxCalls[s]}
  IN /\ callAt[c] = "reserve"
     /\ locked[c] = Governing(c)
     /\ toolCalls' = [s \in Sessions |-> IF s \in room THEN [toolCalls[s] EXCEPT ![ToolOf[c]] = @ + 1]
                                         ELSE toolCalls[s]]
     /\ total' = [s \in Sessions |-> IF s \in room THEN total[s] + 1 ELSE total[s]]
     /\ \/ /\ LimitRefusal(c)
           /\ MoveTo(c, "refused")
           /\ UNCHANGED invoked
        \/ /\ ~LimitRefusal(c)
           /\ MoveTo(c, "invoke")
           /\ invoked' = invoked \union {c}
     /\ Unlock(c)
     /\ UNCHANGED <<answer, noted, cache, records, staged, stepState>>

\* With every lock held, the call counts in all its sessions or is refused by one of them.
Reserve(c) ==
  /\ callAt[c] = "reserve"
  /\ locked[c] = Governing(c)
  /\ \/ /\ LimitRefusal(c)
        /\ MoveTo(c, "refused")
        /\ UNCHANGED counts
     \/ /\ ~LimitRefusal(c)
        /\ MoveTo(c, "invoke")
        /\ toolCalls' = [s \in Sessions |-> IF s \in Governing(c)
                                            THEN [toolCalls[s] EXCEPT ![ToolOf[c]] = @ + 1] ELSE toolCalls[s]]
        /\ total' = [s \in Sessions |-> IF s \in Governing(c) THEN total[s] + 1 ELSE total[s]]
        /\ invoked' = invoked \union {c}
  /\ Unlock(c)
  /\ UNCHANGED <<answer, noted, cache, records, staged, stepState>>

\* The tool returns: an error, a panic, output that is not JSON or a context that has ended
\* fails the call, which is recorded all the same.
Invoke(c) ==
  /\ callAt[c] = "invoke"
  /\ \/ /\ MoveTo(c, "record")
        /\ UNCHANGED answer
     \/ /\ SessionOf[c] \notin Caches
        /\ Answer(c, c)
     \/ /\ SessionOf[c] \in Caches
        /\ answer' = [answer EXCEPT ![c] = c]
        /\ MoveTo(c, "store")
  /\ UNCHANGED <<locked, noted, counts, cache, records, holder, staged, stepState>>

With(f, key, result) == [k \in DOMAIN f \union {key} |-> IF k = key THEN result ELSE f[k]]

\* The result is cached, in the stage of the step when there is one.
Store(c) ==
  /\ callAt[c] = "store"
  /\ \/ /\ StageOf(c) # NoStep
        /\ staged' = [staged EXCEPT ![StageOf(c)] = With(@, CacheKey(c), c)]
        /\ UNCHANGED cache
     \/ /\ StageOf(c) = NoStep
        /\ holder[SessionOf[c]] = NoCall
        /\ cache' = [cache EXCEPT ![SessionOf[c]] = With(@, ToolOf[c], c)]
        /\ UNCHANGED staged
  /\ MoveTo(c, "record")
  /\ UNCHANGED <<locked, answer, noted, counts, records, holder, stepState>>

\* Mutation: an answer from the cache is not recorded in the sessions around the call's.
RecordOwn(c) ==
  LET toNote == (IF answer[c] \in {c, NoCall} THEN Governing(c) ELSE {SessionOf[c]}) \ noted[c]
  IN /\ callAt[c] = "record"
     /\ \E s \in toNote :
          /\ \A r \in toNote : Rank(c, s) <= Rank(c, r)
          /\ holder[s] = NoCall
          /\ records' = [records EXCEPT ![s] = Append(@, [call |-> c, result |-> answer[c]])]
          /\ noted' = [noted EXCEPT ![c] = @ \union {s}]
          /\ IF toNote = {s} THEN MoveTo(c, "done") ELSE UNCHANGED callAt
     /\ UNCHANGED <<locked, answer, counts, cache, holder, staged, stepState>>

\* record: the call's record goes to one session after the other, each under its own lock.
Record(c) ==
  LET toNote == Governing(c) \ noted[c]
  IN /\ callAt[c] = "record"
     /\ \E s \in toNote :
          /\ \A r \in toNote : Rank(c, s) <= Rank(c, r)
          /\ holder[s] = NoCall
          /\ records' = [records EXCEPT ![s] = Append(@, [call |-> c, result |-> answer[c]])]
          /\ noted' = [noted EXCEPT ![c] = @ \union {s}]
          /\ IF toNote = {s} THEN MoveTo(c, "done") ELSE UNCHANGED callAt
     /\ UNCHANGED <<locked, answer, counts, cache, holder, staged, stepState>>

-----------------------------------------------------------------------------
(* Step executions. *)

\* A step returns once the steps inside it and the calls it made have ended; a failure drops what
\* it staged.  (What calls a step leaves running stage after its return is never committed.)
EndStep(st) ==
  /\ stepState[st] = "running"
  /\ \A child \in Steps : Parent[child] = st => stepState[child] \in {"committed", "dropped"}
  /\ \A c \in Calls : StepOf[c] = st => callAt[c] \in {"idle", "barred", "refused", "done"}
  /\ \E end \in {"returned", "dropped"} : stepState' = [stepState EXCEPT ![st] = end]
  /\ UNCHANGED <<callVars, counts, cache, records, holder, staged>>

Overlay(f, g) == [k \in DOMAIN f \union DOMAIN g |-> IF k \in DOMAIN g THEN g[k] ELSE f[k]]

\* Whether a result staged for session s goes to the session's cache when the step commits: a
\* top-level step's does when the session is its run's or no step is around it.
GoesToSession(st, s) == st \in TopLevel /\ (s \in OwnSession[st] \/ Parent[st] = NoStep)

\* Mutation: a nested run commits what an enclosing run's session cached for good.
GoesToAnySession(st, s) == st \in TopLevel

CommitTo(st, goes(_, _)) ==
  LET kept(s) == {t \in Tools : <<s, t>> \in DOMAIN staged[st] /\ goes(st, s)}
      up == {k \in DOMAIN staged[st] : ~goes(st, k[1])}
  IN /\ stepState[st] = "returned"
     /\ \A s \in Sessions : kept(s) # {} => holder[s] = NoCall
     /\ cache' = [s \in Sessions |-> Overlay(cache[s], [t \in kept(s) |-> staged[st][<<s, t>>]])]
     /\ staged' = [r \in Steps |-> IF r = Parent[st]
                                   THEN Overlay(staged[r], [k \in up |-> staged[st][k]])
                                   ELSE staged[r]]
     /\ stepState' = [stepState EXCEPT ![st] = "committed"]
     /\ UNCHANGED <<callVars, counts, records, holder>>

\* Mutation of CommitStep.
CommitStepForGood(st) == CommitTo(st, GoesToAnySession)

\* commitTo and commitStaged: what the step staged moves outwards.
CommitStep(st) == CommitTo(st, GoesToSession)

\* The composite or the pipeline does not commit the result: another child failed, a merge
\* failed, or a rewind was rejected.
DropStep(st) ==
  /\ stepState[st] = "returned"
  /\ stepState' = [stepState EXCEPT ![st] = "dropped"]
  /\ UNCHANGED <<callVars, counts, cache, records, holder, staged>>

CallStep(c) ==
  \/ Start(c) \/ LookInStages(c) \/ LookInCache(c) \/ Lock(c) \/ Reserve(c)
  \/ Invoke(c) \/ Store(c) \/ Record(c)

StepMoves == \E st \in Steps : EndStep(st) \/ CommitStep(st) \/ DropStep(st)

Next == StepMoves \/ \E c \in Calls : CallStep(c)

Spec == Init /\ [][Next]_vars

\* Every call is a goroutine, the tools return, and a mutex that is free is not withheld.
FairSpec == Spec /\ \A c \in Calls : WF_vars(callAt[c] # "idle" /\ CallStep(c))

-----------------------------------------------------------------------------
(* Properties *)

InvokedUnder(s) == {c \in invoked : s \in Governing(c)}

\* Every variable has its type, and a mutex is held by the one call that locked it.
TypeOK ==
  /\ \A s \in Sessions, c \in Calls : holder[s] = c <=> s \in locked[c]
  /\ toolCalls \in [Sessions -> [Tools -> Nat]]
  /\ total \in [Sessions -> Nat]
  /\ holder \in [Sessions -> Calls \union {NoCall}]
  /\ stepState \in [Steps -> {"running", "returned", "committed", "dropped"}]
  /\ callAt \in [Calls -> {"idle", "barred", "stage", "cache", "reserve", "refused", "invoke",
                       "store", "record", "done"}]
  /\ locked \in [Calls -> SUBSET Sessions]
  /\ answer \in [Calls -> Calls \union {NoCall}]
  /\ noted \in [Calls -> SUBSET Sessions]
  /\ invoked \subseteq Calls

\* No more calls are invoked under session s, nor calls of tool t, than its limits allow.
WithinLimits(s) ==
  /\ MaxCalls[s] > 0 => Cardinality(InvokedUnder(s)) <= MaxCalls[s]
  /\ \A t \in Tools : MaxCallsPerTool[s][t] > 0 =>
       Cardinality({c \in InvokedUnder(s) : ToolOf[c] = t}) <= MaxCallsPerTool[s][t]

\* Calls that were really invoked under s have spent a limit on calls of tool t.
Spent(s, t) ==
  \/ MaxCalls[s] > 0 /\ Cardinality(InvokedUnder(s)) >= MaxCalls[s]
  \/ /\ MaxCallsPerTool[s][t] > 0
     /\ Cardinality({d \in InvokedUnder(s) : ToolOf[d] = t}) >= MaxCallsPerTool[s][t]

\* However calls race, and whichever sessions enclose which, no session's limit is exceeded, and
\* a call is refused only when a session that governs it has none of it left: a refusal by one
\* session leaves no count behind in another.
LimitsExact ==
  /\ \A s \in Sessions : WithinLimits(s)
  /\ \A c \in Calls : callAt[c] = "refused" => \E s \in Governing(c) : Spent(s, ToolOf[c])

\* A call that reached the tool or the cache is recorded once, with its result, in every session
\* that governs it by the time it returns, and any other call in none.
RecordsComplete ==
  \A c \in Calls, s \in Sessions :
    LET of == {i \in DOMAIN records[s] : records[s][i].call = c} IN
    /\ callAt[c] = "done" /\ s \in Governing(c) =>
         \E i \in of : of = {i} /\ records[s][i].result = answer[c]
    /\ callAt[c] \in {"barred", "refused"} \/ s \notin Governing(c) => of = {}

\* A call is answered from a cache only with a result of its own session that stands for it:
\* every step execution around the call that cached it committed, or is around this call too.
HitsStand ==
  [][\A c \in Calls :
       callAt[c] \in {"stage", "cache"} /\ callAt'[c] = "record" =>
         LET from == answer'[c] IN
         /\ from \in invoked /\ SessionOf[from] = SessionOf[c] /\ ToolOf[from] = ToolOf[c]
         /\ SessionOf[c] \in Staging =>
              \A st \in StepsAround[StepOf[from]] \ StepsAround[StepOf[c]] :
                stepState[st] = "committed"]_vars

\* Calls never wait on each other for ever: every call that began ends.
CallsEnd == \A c \in Calls :
  callAt[c] \notin {"idle", "barred", "refused", "done"} ~> callAt[c] \in {"refused", "done"}

=============================================================================
