------------------------------ MODULE RunBudget ------------------------------
(***************************************************************************)
(* RunBudget accounting of concurrent, retrying model calls                *)
(* (pipeline_budget.go, retry_lm.go, and the AdmitModelCall / RecordUsage  *)
(* entry points of usage.go).                                              *)
(*                                                                         *)
(* A usage frame is open for every running step execution and for every    *)
(* run; frames chain from the innermost step out to the outermost run.  A  *)
(* frame spends from an account: the runBudget for a run frame, the        *)
(* PerStepTokens entry of its step name for a step frame, which several    *)
(* executions of the step share.  All frames of one outermost run share a  *)
(* mutex, so everything done under it is one step here.                    *)
(*                                                                         *)
(* A caller is a goroutine that makes model calls with one frame's         *)
(* context: it admits a call, makes it through a RetryingLanguageModel     *)
(* (or through one wrapped in another, which is nested in it), and records *)
(* the usage the call returned.  Between those it holds no lock.           *)
(***************************************************************************)
EXTENDS Integers, Sequences, FiniteSets, FiniteSetsExt, SequencesExt

CONSTANTS
  Callers,        \* goroutines that make model calls
  Frames,         \* usage frames: open step executions and runs
  Accounts,       \* what frames spend from: runs, and steps of runs
  Runs,           \* the accounts that are runs
  Chain,          \* Frames -> Seq(Frames), the frame and those around it, outwards
  AccountOf,      \* Frames -> Accounts
  FrameOf,        \* Callers -> Frames, the frame of the caller's context
  MaxTokens,      \* Accounts -> Nat: MaxTokens of a run, PerStepTokens of a step; 0 is none
  MaxModelCalls,  \* Runs -> Nat; 0 is none
  Timed,          \* the runs with a MaxDuration
  MaxAttempts,    \* Callers -> Seq(Nat \ {0}): MaxAttempts of its retrying model and of the
                  \* one nested in it, if any; the length is the nesting depth, 1 or 2
  Usages,         \* the usages one attempt can return
  CallBound,      \* bound: model calls a caller tries to make
  Watched,        \* the run whose BudgetLedger the refinement is stated for
  Interrupted     \* frames whose context something other than the budget may cancel

UsageType == [total : Nat, parts : Nat]

ASSUME FramesAssumption ==
  /\ Runs \subseteq Accounts
  /\ Watched \in Runs
  /\ AccountOf \in [Frames -> Accounts]
  /\ Chain \in [Frames -> Seq(Frames)]
  /\ FrameOf \in [Callers -> Frames]
  /\ \A f, g \in Frames : AccountOf[f] \in Runs /\ AccountOf[f] = AccountOf[g] => f = g

ASSUME LimitsAssumption ==
  /\ MaxTokens \in [Accounts -> Nat]
  /\ MaxModelCalls \in [Runs -> Nat]
  /\ Timed \subseteq Runs
  /\ Interrupted \subseteq Frames
  /\ CallBound \in Nat

ASSUME CallsAssumption ==
  /\ MaxAttempts \in [Callers -> Seq(Nat \ {0})]
  /\ \A c \in Callers : Len(MaxAttempts[c]) \in 1..2
  /\ Usages \subseteq UsageType

VARIABLES
  tokens,     \* account -> tokens recorded (runBudget.tokens, stepTokens)
  pending,    \* account -> tokens reported and not yet recorded (pending, stepPending)
  calls,      \* run -> model calls admitted (runBudget.calls)
  err,        \* account -> its budget error (runBudget.err, stepErrs), NoError when nil
  cancelled,  \* frames whose context has been cancelled
  late,       \* runs that have reached MaxDuration by the budget's clock
  returned,   \* frame -> the retried calls that returned and are not recorded yet
  pc,         \* caller -> where it is
  call,       \* caller -> its call: level, attempts, usage and reported tokens per level
  made,       \* caller -> calls it has tried to make
  burned,     \* history: account -> tokens of every attempt made under it
  attempts    \* history: run -> attempts that reached the model

accounting == <<tokens, pending, calls, returned>>
failures == <<err, cancelled, late>>
callerVars == <<pc, call, made>>
history == <<burned, attempts>>
vars == <<accounting, failures, callerVars, history>>

-----------------------------------------------------------------------------
(* Usage: a total, which a provider may leave zero, and the sum of prompt   *)
(* and completion tokens.                                                   *)

Zero == [total |-> 0, parts |-> 0]

\* Mutation: an attempt's usage replaces what the attempts before it used.
AddUsageReplaces(u, v) == [total |-> v.total, parts |-> v.parts]

AddUsage(u, v) == [total |-> u.total + v.total, parts |-> u.parts + v.parts]

UsageTokens(u) == IF u.total # 0 THEN u.total ELSE u.parts

(* Frames and accounts. *)

Around(f) == {Chain[f][i] : i \in DOMAIN Chain[f]}

\* The accounts that tokens spent under frame f count against.
AccountsAround(f) == {AccountOf[g] : g \in Around(f)}

RunsAround(f) == AccountsAround(f) \intersect Runs

NoError == "none"

\* spent, for the given recorded and pending tokens.
Spent(t, p) == [a \in Accounts |-> t[a] + p[a]]

Over(a, spent) == MaxTokens[a] > 0 /\ spent[a] > MaxTokens[a]

AtCallLimit(a) == a \in Runs /\ MaxModelCalls[a] > 0 /\ calls[a] >= MaxModelCalls[a]

\* checkLocked stops at a frame whose account has failed or whose run is out of time.
Stopped(f) == err[AccountOf[f]] # NoError \/ AccountOf[f] \in late

\* Mutation: limits are held against recorded tokens alone.
ExhaustedByRecorded(f, spent) ==
  Over(AccountOf[f], Spent(tokens, [a \in Accounts |-> 0])) \/ AtCallLimit(AccountOf[f])

\* Mutation: only model calls are limited before the call is recorded.
ExhaustedByCalls(f, spent) == AtCallLimit(AccountOf[f])

\* The rest of refusalLocked stops at a frame whose tokens or model calls are spent.
Exhausted(f, spent) == Over(AccountOf[f], spent) \/ AtCallLimit(AccountOf[f])

StoppedAt(f) == {i \in DOMAIN Chain[f] : Stopped(Chain[f][i])}

ExhaustedAt(f, spent) == {i \in DOMAIN Chain[f] : Exhausted(Chain[f][i], spent)}

Refused(f, spent) == StoppedAt(f) # {} \/ ExhaustedAt(f, spent) # {}

\* The frame refusalLocked stops at: errors first, then limits, each from the inside out.
Refuser(f, spent) ==
  Chain[f][Min(IF StoppedAt(f) # {} THEN StoppedAt(f) ELSE ExhaustedAt(f, spent))]

Reason(f, spent) ==
  CASE AccountOf[f] \in late -> "MaxDuration"
    [] AccountOf[f] \notin late /\ Over(AccountOf[f], spent) -> "MaxTokens"
    [] OTHER -> "MaxModelCalls"

\* Refusing at g records the account's first error and cancels g's context with it.
Refuse(g, spent) ==
  IF err[AccountOf[g]] # NoError
  THEN UNCHANGED <<err, cancelled>>
  ELSE /\ err' = [err EXCEPT ![AccountOf[g]] = Reason(g, spent)]
       /\ cancelled' = cancelled \union {g}

\* The context of a caller has ended: a frame around it was cancelled.
Ended(c) == Around(FrameOf[c]) \intersect cancelled # {}

-----------------------------------------------------------------------------
(* The call a caller is in.  Level 1 is its retrying model, level 2 the one *)
(* nested in it; a level holds the attempt it is at, the summed usage of    *)
(* its attempts and the tokens reported for it.  "result" is what the       *)
(* innermost finished attempt or level returned.                            *)

Outcomes == {"ok", "transient", "permanent", "ended", "refused"}

Levels == 1..2

NoCall ==
  [level |-> 1,
   attempt |-> [l \in Levels |-> 1],
   usage |-> [l \in Levels |-> Zero],
   reported |-> [l \in Levels |-> 0],
   result |-> [usage |-> Zero, outcome |-> "ok"]]

Depth(c) == Len(MaxAttempts[c])

Init ==
  /\ tokens = [a \in Accounts |-> 0]
  /\ pending = [a \in Accounts |-> 0]
  /\ calls = [r \in Runs |-> 0]
  /\ err = [a \in Accounts |-> NoError]
  /\ cancelled = {}
  /\ late = {}
  /\ returned = [f \in Frames |-> <<>>]
  /\ pc = [c \in Callers |-> "idle"]
  /\ call = [c \in Callers |-> NoCall]
  /\ made = [c \in Callers |-> 0]
  /\ burned = [a \in Accounts |-> 0]
  /\ attempts = [r \in Runs |-> 0]

Goto(c, to) == pc' = [pc EXCEPT ![c] = to]

ReserveCall(f) ==
  calls' = [r \in Runs |-> IF r \in RunsAround(f) THEN calls[r] + 1 ELSE calls[r]]

\* AdmitModelCall: a refused call never reaches the model and its caller gives up.
Admit(c) ==
  LET f == FrameOf[c]
      spent == Spent(tokens, pending)
  IN /\ pc[c] = "idle"
     /\ made[c] < CallBound
     /\ made' = [made EXCEPT ![c] = @ + 1]
     /\ \/ /\ ~Refused(f, spent)
           /\ ReserveCall(f)
           /\ Goto(c, "top")
           /\ UNCHANGED <<err, cancelled>>
        \/ /\ Refused(f, spent)
           /\ Refuse(Refuser(f, spent), spent)
           /\ Goto(c, "stopped")
           /\ UNCHANGED calls
     /\ UNCHANGED <<tokens, pending, returned, late, call, history>>

Result(usage, outcome) == [usage |-> usage, outcome |-> outcome]

\* The call once its current level has ended with the summed usage of its attempts: the
\* result is left for the level around it, or, from level 1, for finish.
LevelEnded(k, usage, outcome) ==
  [level    |-> 1,
   attempt  |-> IF k.level = 1 THEN k.attempt ELSE [k.attempt EXCEPT ![2] = 1],
   usage    |-> IF k.level = 1 THEN [k.usage EXCEPT ![1] = usage]
                               ELSE [k.usage EXCEPT ![2] = Zero],
   reported |-> IF k.level = 1 THEN k.reported ELSE [k.reported EXCEPT ![2] = 0],
   result   |-> Result(usage, outcome)]

EndLevel(c, k, usage, outcome) ==
  /\ call' = [call EXCEPT ![c] = LevelEnded(k, usage, outcome)]
  /\ Goto(c, IF k.level = 1 THEN "finish" ELSE "after")

\* The top of the retry loop: it returns if the context ended; otherwise the attempt is made,
\* by the nested retrying model's own loop or by the model.
Top(c) ==
  LET k == call[c] IN
  /\ pc[c] = "top"
  /\ \/ /\ Ended(c)
        /\ EndLevel(c, k, k.usage[k.level], "ended")
        /\ UNCHANGED attempts
     \/ /\ ~Ended(c)
        /\ k.level < Depth(c)
        /\ call' = [call EXCEPT ![c].level = 2]
        /\ UNCHANGED <<pc, attempts>>
     \/ /\ ~Ended(c)
        /\ k.level = Depth(c)
        /\ Goto(c, "attempt")
        /\ attempts' = [r \in Runs |->
             IF r \in RunsAround(FrameOf[c]) THEN attempts[r] + 1 ELSE attempts[r]]
        /\ UNCHANGED call
  /\ UNCHANGED <<accounting, failures, made, burned>>

\* The model answers an attempt.
AttemptReturns(c) ==
  /\ pc[c] = "attempt"
  /\ \E u \in Usages, o \in {"ok", "transient", "permanent"} :
       /\ call' = [call EXCEPT ![c].result = Result(u, o)]
       /\ burned' = [a \in Accounts |->
            IF a \in AccountsAround(FrameOf[c]) THEN burned[a] + UsageTokens(u) ELSE burned[a]]
  /\ Goto(c, "after")
  /\ UNCHANGED <<accounting, failures, made, attempts>>

\* The attempt is not retried: it worked, was the last, or failed for good.
Final(c, k) ==
  \/ k.result.outcome # "transient"
  \/ k.attempt[k.level] >= MaxAttempts[c][k.level]

\* After an attempt of the current level: its usage is added up; an attempt to be retried is
\* reported, and the wait before the retry begins unless the budget already refuses it or the
\* context has ended.
After(c) ==
  LET f == FrameOf[c]
      k == call[c]
      usage == AddUsage(k.usage[k.level], k.result.usage)
      unreported == Max({UsageTokens(usage) - k.reported[k.level], 0})
      grown == [a \in Accounts |->
                  IF a \in AccountsAround(f) THEN pending[a] + unreported ELSE pending[a]]
      spent == Spent(tokens, grown)
      kr == [k EXCEPT !.usage[k.level] = usage,
                      !.reported = [l \in Levels |->
                         IF l <= k.level THEN @[l] + unreported ELSE @[l]]]
  IN /\ pc[c] = "after"
     /\ \/ /\ Final(c, k)
           /\ EndLevel(c, k, usage, k.result.outcome)
           /\ UNCHANGED <<pending, err, cancelled>>
        \/ /\ ~Final(c, k)
           /\ Refused(f, spent)
           /\ pending' = grown
           /\ Refuse(Refuser(f, spent), spent)
           /\ EndLevel(c, kr, usage, "refused")
        \/ /\ ~Final(c, k)
           /\ ~Refused(f, spent)
           /\ pending' = grown
           /\ UNCHANGED <<err, cancelled>>
           /\ IF Ended(c)
              THEN EndLevel(c, kr, usage, "ended")
              ELSE /\ call' = [call EXCEPT ![c] = kr]
                   /\ Goto(c, "wait")
     /\ UNCHANGED <<tokens, calls, returned, late, made, history>>

\* Mutation: the wait watches the context and forgets its timer.
WaitEndsByContext(c) ==
  /\ pc[c] = "wait"
  /\ Ended(c)
  /\ EndLevel(c, call[c], call[c].usage[call[c].level], "ended")
  /\ UNCHANGED <<accounting, failures, made, history>>

\* The wait ends with its timer, or with the context if that ends first.  Both may be ready at
\* once, and either may then win.
WaitEnds(c) ==
  LET k == call[c] IN
  /\ pc[c] = "wait"
  /\ \/ /\ Goto(c, "retry")
        /\ UNCHANGED call
     \/ /\ Ended(c)
        /\ EndLevel(c, k, k.usage[k.level], "ended")
  /\ UNCHANGED <<accounting, failures, made, history>>

\* The retry is admitted as a model call of its own, or refused.
Retry(c) ==
  LET f == FrameOf[c]
      k == call[c]
      spent == Spent(tokens, pending)
  IN /\ pc[c] = "retry"
     /\ \/ /\ ~Refused(f, spent)
           /\ ReserveCall(f)
           /\ call' = [call EXCEPT ![c].attempt[k.level] = @ + 1]
           /\ Goto(c, "top")
           /\ UNCHANGED <<err, cancelled>>
        \/ /\ Refused(f, spent)
           /\ Refuse(Refuser(f, spent), spent)
           /\ EndLevel(c, k, k.usage[k.level], "refused")
           /\ UNCHANGED calls
     /\ UNCHANGED <<tokens, pending, returned, late, made, history>>

\* finish leaves the call's pending tokens on its frame for RecordUsage to settle.
Finish(c) ==
  LET f == FrameOf[c]
      k == call[c]
  IN /\ pc[c] = "finish"
     /\ returned' =
          IF k.reported[1] > 0
          THEN [returned EXCEPT ![f] =
                  Append(@, [tokens |-> UsageTokens(k.usage[1]), pending |-> k.reported[1]])]
          ELSE returned
     /\ call' = [call EXCEPT ![c] = [NoCall EXCEPT !.result = k.result]]
     /\ Goto(c, "record")
     /\ UNCHANGED <<tokens, pending, calls, failures, made, history>>

\* Mutation: recorded usage settles the oldest returned call of the frame, whatever its tokens.
SettleableAny(f, n) == DOMAIN returned[f]

\* The returned calls of frame f that a recorded usage of n tokens may settle.
Settleable(f, n) == {i \in DOMAIN returned[f] : returned[f][i].tokens = n}

\* RecordUsage: the first returned call with the same tokens is settled, the tokens count
\* against every account around the frame, and every limit they exceed fails.
Record(c) ==
  LET f == FrameOf[c]
      n == UsageTokens(call[c].result.usage)
      match == Settleable(f, n)
      settled == IF match = {} THEN 0 ELSE returned[f][Min(match)].pending
      around == AccountsAround(f)
      over == {g \in Around(f) : Over(AccountOf[g], Spent(tokens', pending'))}
  IN /\ pc[c] = "record"
     /\ returned' = IF match = {} THEN returned
                    ELSE [returned EXCEPT ![f] = RemoveAt(@, Min(match))]
     /\ tokens' = [a \in Accounts |-> IF a \in around THEN tokens[a] + n ELSE tokens[a]]
     /\ pending' = [a \in Accounts |-> IF a \in around THEN pending[a] - settled ELSE pending[a]]
     /\ err' = [a \in Accounts |->
          IF err[a] = NoError /\ a \in {AccountOf[g] : g \in over} THEN "MaxTokens" ELSE err[a]]
     /\ cancelled' = cancelled \union over
     /\ call' = [call EXCEPT ![c] = NoCall]
     /\ Goto(c, "idle")
     /\ UNCHANGED <<calls, late, made, history>>

\* The budget's clock reaches MaxDuration.
Expire(r) ==
  /\ r \in Timed \ late
  /\ late' = late \union {r}
  /\ UNCHANGED <<accounting, err, cancelled, callerVars, history>>

\* The context deadline of a run out of time fires; no budget error is recorded yet.
DeadlineFires(f) ==
  /\ AccountOf[f] \in late
  /\ f \notin cancelled
  /\ cancelled' = cancelled \union {f}
  /\ UNCHANGED <<accounting, err, late, callerVars, history>>

\* A context ends for a reason that is not the budget's: its step's timeout, a sibling's
\* failure, the caller of the run.
Interrupt(f) ==
  /\ f \in Interrupted \ cancelled
  /\ cancelled' = cancelled \union {f}
  /\ UNCHANGED <<accounting, err, late, callerVars, history>>

CallerStep(c) ==
  \/ Top(c) \/ AttemptReturns(c) \/ After(c) \/ WaitEnds(c) \/ Retry(c)
  \/ Finish(c) \/ Record(c)

Next ==
  \/ \E c \in Callers : Admit(c) \/ CallerStep(c)
  \/ \E r \in Runs : Expire(r)
  \/ \E f \in Frames : DeadlineFires(f) \/ Interrupt(f)

Spec == Init /\ [][Next]_vars

\* A call in progress keeps running: the model answers every attempt, every wait ends and the
\* mutex is granted.  Nothing makes a caller start a call or a clock run out.
FairSpec == Spec /\ \A c \in Callers : WF_vars(CallerStep(c))

-----------------------------------------------------------------------------
(* Properties *)

PCs == {"idle", "top", "attempt", "after", "wait", "retry", "finish", "record", "stopped"}

CallType ==
  [level : Levels,
   attempt : [Levels -> Nat],
   usage : [Levels -> UsageType],
   reported : [Levels -> Nat],
   result : [usage : UsageType, outcome : Outcomes]]

ReturnedCall == [tokens : Nat, pending : Nat]

\* Every variable has its type; pending is an Int because it is subtracted from.
TypeOK ==
  /\ tokens \in [Accounts -> Nat]
  /\ pending \in [Accounts -> Int]
  /\ calls \in [Runs -> Nat]
  /\ err \in [Accounts -> {NoError, "MaxDuration", "MaxTokens", "MaxModelCalls"}]
  /\ cancelled \subseteq Frames
  /\ late \subseteq Runs
  /\ returned \in [Frames -> Seq(ReturnedCall)]
  /\ pc \in [Callers -> PCs]
  /\ call \in [Callers -> CallType]
  /\ made \in [Callers -> Nat]
  /\ burned \in [Accounts -> Nat]
  /\ attempts \in [Runs -> Nat]

CallersUnder(a) == {c \in Callers : a \in AccountsAround(FrameOf[c])}

Quiet(a) == \A c \in CallersUnder(a) : pc[c] \in {"idle", "stopped"}

\* Once every call under an account has been recorded, the account has counted every token of
\* every attempt exactly once, whichever of two calls with the same total settled the other's
\* pending tokens, and a run has admitted every attempt that reached the model, retries of
\* nested retrying models included.
QuietLedgerExact ==
  \A a \in Accounts : Quiet(a) =>
    /\ tokens[a] = burned[a] /\ pending[a] = 0
    /\ a \in Runs => attempts[a] <= calls[a]

\* An account, a run or a step shared by several frames, fails by cancelling a frame that spends
\* from it, and every caller under a run that failed sees its own context ended.
FailureCancels ==
  /\ \A a \in Accounts : err[a] # NoError => \E g \in cancelled : AccountOf[g] = a
  /\ \A c \in Callers : (\E r \in RunsAround(FrameOf[c]) : err[r] # NoError) => Ended(c)

\* Tokens over a limit fail their account at once, except while a call that reported them and
\* was refused by another limit has yet to be recorded: recording it fails this one too.  And a
\* failed account stops every caller under it.
OverspendStops ==
  /\ \A a \in Accounts :
       Over(a, Spent(tokens, pending)) /\ err[a] = NoError =>
         \E c \in CallersUnder(a) :
           /\ pc[c] \in {"after", "finish", "record"}
           /\ call[c].result.outcome = "refused"
  /\ FailureCancels

\* A model reports its usage in one way: always without a total, or never without one.
UniformUsage ==
  \/ \A u \in Usages : u.total = 0
  \/ \A u \in Usages : u.total = 0 => u.parts = 0

\* A returned call never has more pending tokens than the usage its caller will record, so
\* settling it never gives tokens back, provided models report usage uniformly.
ReturnedCovered ==
  \A f \in Frames : \A i \in DOMAIN returned[f] : returned[f][i].pending <= returned[f][i].tokens

\* Tokens once counted against a limit, reported or recorded, stay counted.
SpentNeverFalls ==
  [][\A a \in Accounts : Spent(tokens, pending)'[a] >= Spent(tokens, pending)[a]]_vars

Ledger == INSTANCE BudgetLedger WITH
  CallLimit <- MaxModelCalls[Watched], TokenLimit <- MaxTokens[Watched],
  admitted <- calls[Watched], spent <- tokens[Watched] + pending[Watched],
  failed <- err[Watched] # NoError

\* The accounting of a run is a BudgetLedger: calls are admitted only below both limits and
\* before any failure, spending never falls, and failure is final.
RunIsLedger == Ledger!Spec

\* A call that has been admitted ends: it is recorded, whatever it is refused on the way.
CallsEnd == \A c \in Callers : pc[c] = "top" ~> pc[c] = "idle"

=============================================================================
