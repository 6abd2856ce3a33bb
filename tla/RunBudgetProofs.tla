-------------------------- MODULE RunBudgetProofs --------------------------
(***************************************************************************)
(* Proofs about RunBudget.tla, for any callers, frames, limits and usages. *)
(***************************************************************************)
EXTENDS RunBudget, ProofLemmas

(* The frames around a frame are frames, and a refusing frame is one of them. *)
LEMMA AroundFrames ==
  ASSUME NEW f \in Frames
  PROVE  Around(f) \subseteq Frames /\ AccountsAround(f) \subseteq Accounts
  BY FramesAssumption DEF Around, AccountsAround

\* A call is refused at a frame around the one it is made with.
LEMMA RefuserIn ==
  ASSUME NEW f \in Frames, NEW spent, Refused(f, spent)
  PROVE  /\ Refuser(f, spent) \in Around(f)
         /\ Refuser(f, spent) \in Frames
         /\ AccountOf[Refuser(f, spent)] \in Accounts
<1>. DEFINE S == IF StoppedAt(f) # {} THEN StoppedAt(f) ELSE ExhaustedAt(f, spent)
<1>1. Chain[f] \in Seq(Frames)
  BY FramesAssumption
<1>2. S # {} /\ S \subseteq DOMAIN Chain[f]
  BY DEF Refused, StoppedAt, ExhaustedAt
<1>3. S \in SUBSET Nat
  BY <1>1, <1>2
<1>4. Min(S) \in S
  BY <1>2, <1>3, MinIn
<1>5. Refuser(f, spent) \in Around(f)
  BY <1>2, <1>4 DEF Refuser, Around
<1>. QED
  BY <1>5, AroundFrames, FramesAssumption

Errors == {NoError, "MaxDuration", "MaxTokens", "MaxModelCalls"}

(* Refusing keeps the errors and the cancelled frames typed, changes no error that is already
   there, and cancels with every new error the frame it is recorded at. *)
LEMMA RefuseEffect ==
  ASSUME err \in [Accounts -> Errors], cancelled \subseteq Frames,
         NEW f \in Frames, NEW spent, Refused(f, spent), Refuse(Refuser(f, spent), spent)
  PROVE  /\ err' \in [Accounts -> Errors]
         /\ cancelled' \subseteq Frames
         /\ cancelled \subseteq cancelled'
         /\ \A a \in Accounts : err[a] # NoError => err'[a] = err[a]
         /\ \A a \in Accounts : err'[a] # err[a] =>
              \E g \in Frames : AccountOf[g] = a /\ g \in cancelled'
<1>. DEFINE g == Refuser(f, spent)
<1>1. g \in Frames /\ AccountOf[g] \in Accounts
  BY RefuserIn
<1>. HIDE DEF g
<1>2. Refuse(g, spent)
  BY DEF g
<1>3. Reason(g, spent) \in Errors
  BY DEF Reason, Errors
<1>4. CASE err[AccountOf[g]] # NoError
  BY <1>2, <1>4 DEF Refuse
<1>5. CASE err[AccountOf[g]] = NoError
  BY <1>1, <1>2, <1>3, <1>5 DEF Refuse
<1>. QED
  BY <1>4, <1>5

(* Usages add up in the naturals. *)
LEMMA UsageTyped ==
  ASSUME NEW u \in UsageType, NEW v \in UsageType
  PROVE  AddUsage(u, v) \in UsageType /\ UsageTokens(u) \in Nat
  BY DEF AddUsage, UsageTokens, UsageType

(* The parts of a typed call. *)
LEMMA CallParts ==
  ASSUME NEW k \in CallType
  PROVE  /\ k.level \in Levels
         /\ k.attempt \in [Levels -> Nat]
         /\ k.usage \in [Levels -> UsageType]
         /\ k.reported \in [Levels -> Nat]
         /\ k.result \in [usage : UsageType, outcome : Outcomes]
         /\ \A l \in Levels : k.reported[l] \in Nat /\ UsageTokens(k.usage[l]) \in Nat
         /\ UsageTokens(k.result.usage) \in Nat
<1>1. /\ k.level \in Levels
      /\ k.attempt \in [Levels -> Nat]
      /\ k.usage \in [Levels -> UsageType]
      /\ k.reported \in [Levels -> Nat]
      /\ k.result \in [usage : UsageType, outcome : Outcomes]
  BY DEF CallType
<1>2. \A l \in Levels : k.usage[l] \in UsageType /\ k.reported[l] \in Nat
  BY <1>1
<1>3. k.result.usage \in UsageType
  BY <1>1
<1>. QED
  BY <1>1, <1>2, <1>3, UsageTyped

(* Ending a level leaves the caller's call and its place typed. *)
LEMMA EndLevelTyped ==
  ASSUME call \in [Callers -> CallType], pc \in [Callers -> PCs],
         NEW c \in Callers, NEW k \in CallType, NEW usage \in UsageType,
         NEW outcome \in Outcomes, EndLevel(c, k, usage, outcome)
  PROVE  call' \in [Callers -> CallType] /\ pc' \in [Callers -> PCs]
<1>1. /\ Zero \in UsageType /\ 1 \in Levels
      /\ k.usage \in [Levels -> UsageType]
      /\ k.attempt \in [Levels -> Nat]
      /\ k.reported \in [Levels -> Nat]
  BY CallParts DEF Zero, UsageType, Levels
<1>2. LevelEnded(k, usage, outcome) \in CallType
  <2>1. /\ [k.usage EXCEPT ![1] = usage] \in [Levels -> UsageType]
        /\ [k.usage EXCEPT ![2] = Zero] \in [Levels -> UsageType]
        /\ [k.attempt EXCEPT ![2] = 1] \in [Levels -> Nat]
        /\ [k.reported EXCEPT ![2] = 0] \in [Levels -> Nat]
    BY <1>1
  <2>2. Result(usage, outcome) \in [usage : UsageType, outcome : Outcomes]
    BY DEF Result
  <2>. QED
    BY <1>1, <2>1, <2>2 DEF LevelEnded, CallType
<1>. QED
  BY <1>2 DEF EndLevel, Goto, PCs

\* A call that changes its level, or what its last attempt returned, stays typed.
LEMMA CallUpdates ==
  ASSUME NEW k \in CallType
  PROVE  /\ \A l \in Levels : [k EXCEPT !.level = l] \in CallType
         /\ \A r \in [usage : UsageType, outcome : Outcomes] : [k EXCEPT !.result = r] \in CallType
  BY DEF CallType

(* What an attempt's return does to the call it is of and to what is pending, in each of the *)
(* ways it may go.                                                                           *)
LEMMA AfterIs ==
  ASSUME NEW c, After(c)
  PROVE  LET f == FrameOf[c]
             k == call[c]
             usage == AddUsage(k.usage[k.level], k.result.usage)
             n == Max({UsageTokens(usage) - k.reported[k.level], 0})
             grown == [a \in Accounts |->
                         IF a \in AccountsAround(f) THEN pending[a] + n ELSE pending[a]]
             kr == [k EXCEPT !.usage[k.level] = usage,
                             !.reported = [l \in Levels |->
                                IF l <= k.level THEN @[l] + n ELSE @[l]]]
         IN /\ pc[c] = "after" /\ UNCHANGED <<tokens, burned, returned>>
            /\ \/ EndLevel(c, k, usage, k.result.outcome) /\ UNCHANGED pending
               \/ EndLevel(c, kr, usage, "refused") /\ pending' = grown
               \/ EndLevel(c, kr, usage, "ended") /\ pending' = grown
               \/ call' = [call EXCEPT ![c] = kr] /\ Goto(c, "wait") /\ pending' = grown
  BY DEF After, history

(* A usage summed, and tokens reported, by the current level of a typed call are typed. *)
LEMMA AfterTyped ==
  ASSUME NEW k \in CallType
  PROVE  LET usage == AddUsage(k.usage[k.level], k.result.usage)
             n == Max({UsageTokens(usage) - k.reported[k.level], 0})
             kr == [k EXCEPT !.usage[k.level] = usage,
                             !.reported = [l \in Levels |->
                                IF l <= k.level THEN @[l] + n ELSE @[l]]]
         IN usage \in UsageType /\ n \in Nat /\ kr \in CallType
<1>. DEFINE usage == AddUsage(k.usage[k.level], k.result.usage)
            n == Max({UsageTokens(usage) - k.reported[k.level], 0})
<1>1. /\ k.level \in Levels
      /\ k.usage \in [Levels -> UsageType]
      /\ k.attempt \in [Levels -> Nat]
      /\ k.reported \in [Levels -> Nat]
      /\ k.result \in [usage : UsageType, outcome : Outcomes]
  BY DEF CallType
<1>2. usage \in UsageType
  BY <1>1, UsageTyped
<1>3. UsageTokens(usage) - k.reported[k.level] \in Int
  <2>1. UsageTokens(usage) \in Nat
    BY <1>2, UsageTyped
  <2>2. k.reported[k.level] \in Nat
    BY <1>1
  <2>. HIDE DEF usage
  <2>. QED
    BY <2>1, <2>2
<1>4. n \in Nat
  BY <1>3, MaxOfTwo
<1>. HIDE DEF usage, n
<1>5. [k.usage EXCEPT ![k.level] = usage] \in [Levels -> UsageType]
  BY <1>1, <1>2
<1>6. [l \in Levels |-> IF l <= k.level THEN k.reported[l] + n ELSE k.reported[l]]
        \in [Levels -> Nat]
  BY <1>1, <1>4 DEF Levels
<1>7. [k EXCEPT !.usage[k.level] = usage,
                !.reported = [l \in Levels |->
                   IF l <= k.level THEN @[l] + n ELSE @[l]]] \in CallType
  BY <1>1, <1>5, <1>6 DEF CallType
<1>. QED
  BY <1>2, <1>4, <1>7 DEF usage, n

(* Reserving a call, and counting tokens against the accounts around a frame. *)
LEMMA ReserveTyped ==
  ASSUME calls \in [Runs -> Nat], NEW f, ReserveCall(f)
  PROVE  calls' \in [Runs -> Nat]
  BY DEF ReserveCall

\* Every step keeps the types.
LEMMA TypeCorrectStep == TypeOK /\ [Next]_vars => TypeOK'
<1>. SUFFICES ASSUME TypeOK, [Next]_vars PROVE TypeOK'
  OBVIOUS
<1>. USE DEF TypeOK, accounting, failures, callerVars, history
<1>0. err \in [Accounts -> Errors] /\ cancelled \subseteq Frames
  BY DEF Errors
<1>1. ASSUME NEW c \in Callers, Admit(c)
      PROVE  TypeOK'
  <2>1. FrameOf[c] \in Frames
    BY FramesAssumption
  <2>2. err' \in [Accounts -> Errors] /\ cancelled' \subseteq Frames
    BY <1>0, <1>1, <2>1, RefuseEffect DEF Admit
  <2>3. calls' \in [Runs -> Nat]
    BY <1>1, ReserveTyped DEF Admit
  <2>4. pc' \in [Callers -> PCs] /\ made' \in [Callers -> Nat]
    <3>1. /\ \/ pc' = [pc EXCEPT ![c] = "top"]
             \/ pc' = [pc EXCEPT ![c] = "stopped"]
          /\ made' = [made EXCEPT ![c] = @ + 1]
      BY <1>1 DEF Admit, Goto
    <3>2. pc' \in [Callers -> PCs]
      BY <3>1 DEF PCs
    <3>3. made \in [Callers -> Nat] /\ made[c] + 1 \in Nat
      OBVIOUS
    <3>4. made' \in [Callers -> Nat]
      BY <3>1, <3>3
    <3>. QED
      BY <3>2, <3>4
  <2>5. UNCHANGED <<tokens, pending, returned, late, call, burned, attempts>>
    BY <1>1 DEF Admit
  <2>. QED
    BY <2>2, <2>3, <2>4, <2>5 DEF Errors
<1>2. ASSUME NEW c \in Callers, Top(c)
      PROVE  TypeOK'
  <2>1. call[c] \in CallType /\ call[c].usage[call[c].level] \in UsageType
    BY DEF CallType
  <2>2. CASE EndLevel(c, call[c], call[c].usage[call[c].level], "ended") /\ UNCHANGED attempts
    BY <1>2, <2>1, <2>2, EndLevelTyped DEF Top, Outcomes
  <2>3. CASE call' = [call EXCEPT ![c].level = 2] /\ UNCHANGED <<pc, attempts>>
    <3>1. [call[c] EXCEPT !.level = 2] \in CallType
      <4>1. 2 \in Levels
        BY DEF Levels
      <4>. QED
        BY <2>1, <4>1, CallUpdates
    <3>2. call' \in [Callers -> CallType]
      BY <2>1, <2>3, <3>1
    <3>. QED
      BY <1>2, <2>3, <3>2 DEF Top
  <2>4. CASE /\ Goto(c, "attempt")
             /\ attempts' = [r \in Runs |->
                  IF r \in RunsAround(FrameOf[c]) THEN attempts[r] + 1 ELSE attempts[r]]
             /\ UNCHANGED call
    BY <1>2, <2>4 DEF Top, Goto, PCs
  <2>. QED
    BY <1>2, <2>2, <2>3, <2>4 DEF Top
<1>3. ASSUME NEW c \in Callers, AttemptReturns(c)
      PROVE  TypeOK'
  <2>1. PICK u \in Usages, o \in {"ok", "transient", "permanent"} :
          /\ call' = [call EXCEPT ![c].result = Result(u, o)]
          /\ burned' = [a \in Accounts |->
               IF a \in AccountsAround(FrameOf[c]) THEN burned[a] + UsageTokens(u) ELSE burned[a]]
    BY <1>3 DEF AttemptReturns
  <2>2. u \in UsageType /\ UsageTokens(u) \in Nat
    BY CallsAssumption, UsageTyped
  <2>3. burned' \in [Accounts -> Nat]
    BY <2>1, <2>2
  <2>4. Result(u, o) \in [usage : UsageType, outcome : Outcomes]
    BY <2>2 DEF Result, Outcomes
  <2>5. call' \in [Callers -> CallType]
    <3>1. [call[c] EXCEPT !.result = Result(u, o)] \in CallType
      BY <2>4, CallUpdates
    <3>. QED
      BY <2>1, <3>1
  <2>. QED
    BY <1>3, <2>3, <2>5 DEF AttemptReturns, Goto, PCs
<1>k. \A c \in Callers : call[c] \in CallType
  OBVIOUS
<1>4. ASSUME NEW c \in Callers, After(c)
      PROVE  TypeOK'
  <2>. DEFINE f == FrameOf[c]
              k == call[c]
              usage == AddUsage(k.usage[k.level], k.result.usage)
              n == Max({UsageTokens(usage) - k.reported[k.level], 0})
              grown == [a \in Accounts |->
                          IF a \in AccountsAround(f) THEN pending[a] + n ELSE pending[a]]
              spent == Spent(tokens, grown)
              kr == [k EXCEPT !.usage[k.level] = usage,
                              !.reported = [l \in Levels |->
                                 IF l <= k.level THEN @[l] + n ELSE @[l]]]
  <2>0. k \in CallType
    BY ONLY <1>k, Zenon
  <2>1. k \in CallType /\ usage \in UsageType /\ n \in Nat /\ kr \in CallType
    BY ONLY <2>0, AfterTyped
  <2>2. grown \in [Accounts -> Int] /\ f \in Frames /\ k.result.outcome \in Outcomes
    <3>1. \A a \in Accounts : pending[a] \in Int /\ pending[a] + n \in Int
      BY <2>1
    <3>2. grown \in [Accounts -> Int]
      BY <3>1
    <3>3. f \in Frames
      BY FramesAssumption
    <3>4. k.result.outcome \in Outcomes
      BY <2>1, CallParts
    <3>. QED
      BY <3>2, <3>3, <3>4
  <2>3. \/ /\ EndLevel(c, k, usage, k.result.outcome)
           /\ UNCHANGED <<pending, err, cancelled>>
        \/ /\ Refused(f, spent)
           /\ pending' = grown
           /\ Refuse(Refuser(f, spent), spent)
           /\ EndLevel(c, kr, usage, "refused")
        \/ /\ pending' = grown
           /\ UNCHANGED <<err, cancelled>>
           /\ EndLevel(c, kr, usage, "ended")
        \/ /\ pending' = grown
           /\ UNCHANGED <<err, cancelled>>
           /\ call' = [call EXCEPT ![c] = kr]
           /\ Goto(c, "wait")
    BY <1>4 DEF After
  <2>. HIDE DEF f, k, usage, n, grown, spent, kr
  <2>4. call' \in [Callers -> CallType] /\ pc' \in [Callers -> PCs]
    BY <2>1, <2>2, <2>3, EndLevelTyped, ZenonT(30) DEF Goto, PCs, Outcomes
  <2>5. pending' \in [Accounts -> Int]
    <3>1. pending' = pending \/ pending' = grown
      BY <2>3
    <3>. QED
      BY <2>2, <3>1
  <2>6. err' \in [Accounts -> Errors] /\ cancelled' \subseteq Frames
    BY <1>0, <2>2, <2>3, RefuseEffect
  <2>. QED
    BY <1>4, <2>4, <2>5, <2>6, SMTT(20) DEF After, Errors
<1>5. ASSUME NEW c \in Callers, WaitEnds(c)
      PROVE  TypeOK'
  <2>1. call[c] \in CallType /\ call[c].usage[call[c].level] \in UsageType
    BY DEF CallType
  <2>2. call' \in [Callers -> CallType] /\ pc' \in [Callers -> PCs]
    BY <1>5, <2>1, EndLevelTyped DEF WaitEnds, Goto, PCs, Outcomes
  <2>. QED
    BY <1>5, <2>2 DEF WaitEnds
<1>6. ASSUME NEW c \in Callers, Retry(c)
      PROVE  TypeOK'
  <2>1. call[c] \in CallType /\ call[c].usage[call[c].level] \in UsageType /\ FrameOf[c] \in Frames
    BY FramesAssumption DEF CallType
  <2>2. err' \in [Accounts -> Errors] /\ cancelled' \subseteq Frames
    BY <1>0, <1>6, <2>1, RefuseEffect DEF Retry
  <2>3. calls' \in [Runs -> Nat]
    BY <1>6, ReserveTyped DEF Retry
  <2>4. CASE /\ call' = [call EXCEPT ![c].attempt[call[c].level] = @ + 1]
             /\ Goto(c, "top")
    <3>1. [call[c].attempt EXCEPT ![call[c].level] = @ + 1] \in [Levels -> Nat]
      BY <2>1 DEF CallType
    <3>2. call' \in [Callers -> CallType]
      BY <2>1, <2>4, <3>1 DEF CallType
    <3>. QED
      BY <1>6, <2>2, <2>3, <2>4, <3>2 DEF Retry, Goto, PCs, Errors
  <2>5. CASE EndLevel(c, call[c], call[c].usage[call[c].level], "refused")
    <3>1. call' \in [Callers -> CallType] /\ pc' \in [Callers -> PCs]
      BY <2>1, <2>5, EndLevelTyped DEF Outcomes
    <3>. QED
      BY <1>6, <2>2, <2>3, <3>1 DEF Retry, Errors
  <2>. QED
    BY <1>6, <2>4, <2>5 DEF Retry
<1>7. ASSUME NEW c \in Callers, Finish(c)
      PROVE  TypeOK'
  <2>1. /\ call[c] \in CallType /\ call[c].result \in [usage : UsageType, outcome : Outcomes]
        /\ UsageTokens(call[c].usage[1]) \in Nat /\ call[c].reported[1] \in Nat
    BY CallParts DEF Levels
  <2>2. returned' \in [Frames -> Seq(ReturnedCall)]
    <3>. DEFINE e == [tokens |-> UsageTokens(call[c].usage[1]), pending |-> call[c].reported[1]]
    <3>1. e \in ReturnedCall
      BY <2>1 DEF ReturnedCall
    <3>2. returned' = IF call[c].reported[1] > 0
                      THEN [returned EXCEPT ![FrameOf[c]] = Append(@, e)] ELSE returned
      BY <1>7 DEF Finish
    <3>. HIDE DEF e
    <3>. QED
      BY <3>1, <3>2, FramesAssumption
  <2>3. [NoCall EXCEPT !.result = call[c].result] \in CallType
    <3>1. NoCall \in CallType
      BY DEF NoCall, CallType, Levels, Zero, UsageType, Outcomes
    <3>. HIDE DEF NoCall
    <3>. QED
      BY <2>1, <3>1, CallUpdates
  <2>. QED
    BY <1>7, <2>2, <2>3 DEF Finish, Goto, PCs
<1>8. ASSUME NEW c \in Callers, Record(c)
      PROVE  TypeOK'
  <2>. DEFINE f == FrameOf[c]
              n == UsageTokens(call[c].result.usage)
              match == Settleable(f, n)
              i == Min(match)
              settled == IF match = {} THEN 0 ELSE returned[f][i].pending
  <2>1. f \in Frames /\ n \in Nat /\ returned[f] \in Seq(ReturnedCall)
    BY FramesAssumption, UsageTyped DEF CallType
  <2>2. match # {} => i \in DOMAIN returned[f]
    <3>1. match \in SUBSET Nat /\ match \subseteq DOMAIN returned[f]
      BY <2>1 DEF Settleable
    <3>. QED
      BY <3>1, MinIn
  <2>3. settled \in Nat
    <3>. HIDE DEF i, match, f, n
    <3>1. match # {} => returned[f][i] \in ReturnedCall
      BY <2>1, <2>2
    <3>. QED
      BY <3>1 DEF ReturnedCall
  <2>4. match # {} => RemoveAt(returned[f], i) \in Seq(ReturnedCall)
    BY <2>1, <2>2, RemoveAtSeq
  <2>5. NoCall \in CallType
    BY DEF NoCall, CallType, Levels, Zero, UsageType, Outcomes
  <2>6. returned' = IF match = {} THEN returned
                    ELSE [returned EXCEPT ![f] = RemoveAt(@, i)]
    BY <1>8 DEF Record
  <2>7. /\ tokens' = [a \in Accounts |->
               IF a \in AccountsAround(f) THEN tokens[a] + n ELSE tokens[a]]
        /\ pending' = [a \in Accounts |->
               IF a \in AccountsAround(f) THEN pending[a] - settled ELSE pending[a]]
    BY <1>8 DEF Record
  <2>8. cancelled' \subseteq Frames /\ err' \in [Accounts -> Errors]
    BY <1>0, <1>8, <2>1, AroundFrames DEF Record, Errors
  <2>9. call' = [call EXCEPT ![c] = NoCall] /\ Goto(c, "idle") /\ UNCHANGED <<calls, late, made, history>>
    BY <1>8 DEF Record
  <2>. HIDE DEF f, n, match, i, settled
  <2>10. /\ tokens' \in [Accounts -> Nat]
         /\ pending' \in [Accounts -> Int]
         /\ returned' \in [Frames -> Seq(ReturnedCall)]
    BY <2>1, <2>3, <2>4, <2>6, <2>7
  <2>. QED
    BY <2>5, <2>8, <2>9, <2>10 DEF Goto, PCs, Errors
<1>9. ASSUME NEW r \in Runs, Expire(r)
      PROVE  TypeOK'
  BY <1>9 DEF Expire
<1>10. ASSUME NEW f \in Frames, DeadlineFires(f) \/ Interrupt(f)
       PROVE  TypeOK'
  BY <1>10 DEF DeadlineFires, Interrupt
<1>11. CASE UNCHANGED vars
  BY <1>11 DEF vars
<1>. QED
  BY <1>1, <1>2, <1>3, <1>4, <1>5, <1>6, <1>7, <1>8, <1>9, <1>10, <1>11 DEF Next, CallerStep

(* Every variable keeps its type. *)
THEOREM TypeCorrect == Spec => []TypeOK
<1>1. Init => TypeOK
  BY DEF Init, TypeOK, NoCall, CallType, PCs, Levels, Zero, UsageType, Outcomes
<1>. QED
  BY <1>1, TypeCorrectStep, PTL DEF Spec

-----------------------------------------------------------------------------
(* Failures: errors are final, and a frame is cancelled with every new one. *)

FailureStep ==
  /\ cancelled \subseteq cancelled'
  /\ \A a \in Accounts : err[a] # NoError => err'[a] = err[a]
  /\ \A a \in Accounts : err'[a] # err[a] =>
       \E g \in Frames : AccountOf[g] = a /\ g \in cancelled'

\* No step forgets an error, and a new one cancels a frame that spends from the account.
LEMMA FailuresAreFinal == TypeOK /\ [Next]_vars => FailureStep
<1>. SUFFICES ASSUME TypeOK, [Next]_vars PROVE FailureStep
  OBVIOUS
<1>0. /\ err \in [Accounts -> Errors] /\ cancelled \subseteq Frames
      /\ \A c \in Callers : FrameOf[c] \in Frames
  BY FramesAssumption DEF TypeOK, Errors
<1>a. UNCHANGED err /\ cancelled \subseteq cancelled' => FailureStep
  BY DEF FailureStep
<1>b. ASSUME NEW f \in Frames, NEW spent, Refused(f, spent), Refuse(Refuser(f, spent), spent)
      PROVE  FailureStep
  BY <1>0, <1>b, RefuseEffect DEF FailureStep
<1>1. ASSUME NEW c \in Callers, Admit(c)
      PROVE  FailureStep
  BY <1>0, <1>1, <1>a, <1>b DEF Admit
<1>2. ASSUME NEW c \in Callers, Top(c) \/ AttemptReturns(c) \/ WaitEnds(c) \/ Finish(c)
      PROVE  FailureStep
  BY <1>2, <1>a DEF Top, AttemptReturns, WaitEnds, Finish, failures
<1>3. ASSUME NEW c \in Callers, After(c)
      PROVE  FailureStep
  BY <1>0, <1>3, <1>a, <1>b DEF After
<1>4. ASSUME NEW c \in Callers, Retry(c)
      PROVE  FailureStep
  BY <1>0, <1>4, <1>a, <1>b DEF Retry
<1>5. ASSUME NEW c \in Callers, Record(c)
      PROVE  FailureStep
  <2>. DEFINE over == {g \in Around(FrameOf[c]) : Over(AccountOf[g], Spent(tokens', pending'))}
  <2>1. over \subseteq Frames
    BY <1>0, AroundFrames
  <2>2. /\ err' = [a \in Accounts |->
             IF err[a] = NoError /\ a \in {AccountOf[g] : g \in over} THEN "MaxTokens" ELSE err[a]]
        /\ cancelled' = cancelled \union over
    BY <1>5 DEF Record
  <2>. HIDE DEF over
  <2>. QED
    BY <1>0, <2>1, <2>2 DEF FailureStep
<1>6. ASSUME NEW r \in Runs, Expire(r)
      PROVE  FailureStep
  BY <1>6, <1>a DEF Expire
<1>7. ASSUME NEW f \in Frames, DeadlineFires(f) \/ Interrupt(f)
      PROVE  FailureStep
  BY <1>7, <1>a DEF DeadlineFires, Interrupt
<1>8. CASE UNCHANGED vars
  BY <1>8, <1>a DEF vars, failures
<1>. QED
  BY <1>1, <1>2, <1>3, <1>4, <1>5, <1>6, <1>7, <1>8 DEF Next, CallerStep

(* A frame that spends from a failed account is cancelled. *)
FailedCancelled ==
  \A a \in Accounts : err[a] # NoError => \E g \in cancelled : AccountOf[g] = a

(* An account fails by cancelling a frame that spends from it.  A run has one frame, which is
   around each of its callers: they all see their context ended. *)
THEOREM FailureCancelsAlways == Spec => []FailureCancels
<1>1. Init => FailedCancelled
  BY DEF Init, FailedCancelled
<1>2. TypeOK /\ FailedCancelled /\ [Next]_vars => FailedCancelled'
  <2>. SUFFICES ASSUME FailedCancelled, FailureStep, NEW a \in Accounts, err'[a] # NoError
                PROVE  \E g \in cancelled' : AccountOf[g] = a
    BY FailuresAreFinal DEF FailedCancelled
  <2>1. CASE err'[a] = err[a]
    BY <2>1 DEF FailedCancelled, FailureStep
  <2>2. CASE err'[a] # err[a]
    BY <2>2 DEF FailureStep
  <2>. QED
    BY <2>1, <2>2
<1>3. TypeOK /\ FailedCancelled => FailureCancels
  <2>. SUFFICES ASSUME TypeOK, FailedCancelled, NEW c \in Callers,
                       NEW r \in RunsAround(FrameOf[c]), err[r] # NoError
                PROVE  Ended(c)
    BY DEF FailureCancels, FailedCancelled
  <2>1. PICK g \in Around(FrameOf[c]) : AccountOf[g] = r
    BY DEF RunsAround, AccountsAround
  <2>2. g \in Frames /\ r \in Runs
    BY <2>1, AroundFrames, FramesAssumption DEF RunsAround
  <2>3. PICK h \in cancelled : AccountOf[h] = r
    BY <2>2, FramesAssumption DEF FailedCancelled
  <2>4. h = g
    BY <2>1, <2>2, <2>3, FramesAssumption DEF TypeOK
  <2>. QED
    BY <2>1, <2>3, <2>4 DEF Ended
<1>. QED
  BY <1>1, <1>2, <1>3, TypeCorrect, PTL DEF Spec

-----------------------------------------------------------------------------
(* Usage adds up to its tokens when every attempt reports it in one way.     *)

NoTotals == \A u \in Usages : u.total = 0

UsageOK(u) ==
  /\ u \in UsageType
  /\ IF NoTotals THEN u.total = 0 ELSE u.total = 0 => u.parts = 0

\* The tokens of two usages add up when models report usage uniformly.
LEMMA TokensAdd ==
  ASSUME NEW u, NEW v, UsageOK(u), UsageOK(v)
  PROVE  /\ UsageOK(AddUsage(u, v))
         /\ UsageTokens(AddUsage(u, v)) = UsageTokens(u) + UsageTokens(v)
<1>1. /\ u.total \in Nat /\ u.parts \in Nat /\ v.total \in Nat /\ v.parts \in Nat
      /\ AddUsage(u, v) \in UsageType
      /\ AddUsage(u, v).total = u.total + v.total
      /\ AddUsage(u, v).parts = u.parts + v.parts
  BY DEF UsageOK, UsageType, AddUsage
<1>2. CASE NoTotals
  BY <1>1, <1>2 DEF UsageOK, UsageTokens
<1>3. CASE ~NoTotals
  BY <1>1, <1>3 DEF UsageOK, UsageTokens
<1>. QED
  BY <1>2, <1>3

\* No usage at all is reported uniformly.
LEMMA ZeroOK == UsageOK(Zero) /\ UsageTokens(Zero) = 0
  BY DEF UsageOK, Zero, UsageType, UsageTokens

(* What a caller at p, in call k, has reported is covered by usage its call will return: by
   the summed usage of its attempts, or by what the attempt just finished adds to it. *)
Covered(k, p) ==
  /\ \A l \in Levels : UsageOK(k.usage[l])
  /\ UsageOK(k.result.usage)
  /\ p \in {"idle", "finish", "record", "stopped"} => k.level = 1
  /\ k.level = 1 =>
       /\ k.usage[2] = Zero
       /\ k.reported[2] = 0
       /\ k.reported[1] <= UsageTokens(k.usage[1])
            + (IF p = "after" THEN UsageTokens(k.result.usage) ELSE 0)
  /\ k.level = 2 =>
       /\ k.reported[2] <= UsageTokens(k.usage[2])
       /\ k.reported[1] <= UsageTokens(k.usage[1]) + k.reported[2]

CallsCovered == \A c \in Callers : Covered(call[c], pc[c])

IInv == CallsCovered /\ ReturnedCovered

(* A level that ends hands all it reported to the usage it returns. *)
LEMMA EndLevelCovered ==
  ASSUME TypeOK, NEW c \in Callers, NEW k \in CallType, NEW usage, NEW outcome,
         \A l \in Levels : UsageOK(k.usage[l]), UsageOK(usage),
         EndLevel(c, k, usage, outcome),
         k.level = 1 =>
           /\ k.usage[2] = Zero
           /\ k.reported[2] = 0
           /\ k.reported[1] <= UsageTokens(usage),
         k.level = 2 =>
           /\ k.reported[2] <= UsageTokens(usage)
           /\ k.reported[1] <= UsageTokens(k.usage[1]) + k.reported[2]
  PROVE  /\ Covered(call'[c], pc'[c])
         /\ \A d \in Callers : d # c => call'[d] = call[d] /\ pc'[d] = pc[d]
<1>0. /\ k.level \in Levels /\ Levels = {1, 2}
      /\ k.usage \in [Levels -> UsageType] /\ k.reported \in [Levels -> Nat]
  BY CallParts DEF Levels
<1>1. UsageTokens(usage) \in Nat /\ UsageTokens(k.usage[1]) \in Nat
  BY <1>0, UsageTyped DEF UsageOK
<1>. DEFINE k2 == LevelEnded(k, usage, outcome)
            p2 == IF k.level = 1 THEN "finish" ELSE "after"
<1>2. Covered(k2, p2)
  <2>1. CASE k.level = 1
    <3>1. /\ k2.level = 1 /\ k2.usage = [k.usage EXCEPT ![1] = usage]
          /\ k2.reported = k.reported /\ k2.result.usage = usage
      BY <2>1 DEF LevelEnded, Result
    <3>. HIDE DEF k2
    <3>. QED
      BY <1>0, <1>1, <2>1, <3>1 DEF Covered
  <2>2. CASE k.level = 2
    <3>1. /\ k2.level = 1 /\ k2.usage = [k.usage EXCEPT ![2] = Zero]
          /\ k2.reported = [k.reported EXCEPT ![2] = 0] /\ k2.result.usage = usage
      BY <2>2 DEF LevelEnded, Result
    <3>. HIDE DEF k2
    <3>. QED
      BY <1>0, <1>1, <2>2, <3>1, ZeroOK DEF Covered
  <2>. QED
    BY <1>0, <2>1, <2>2
<1>3. call' = [call EXCEPT ![c] = k2] /\ pc' = [pc EXCEPT ![c] = p2]
  BY DEF EndLevel, Goto
<1>. HIDE DEF k2, p2
<1>. QED
  BY <1>2, <1>3 DEF TypeOK

(* Moving one caller keeps the others covered. *)
Moved(c) == \A d \in Callers : d # c => call'[d] = call[d] /\ pc'[d] = pc[d]

\* A step that moves one caller is only about its call.
LEMMA CoveredByMoves ==
  ASSUME CallsCovered, NEW c \in Callers, Covered(call'[c], pc'[c]), Moved(c)
  PROVE  CallsCovered'
  BY DEF CallsCovered, Moved

\* Every step keeps the reported tokens of a call within its usage.
LEMMA CallsCoveredStep ==
  ASSUME UniformUsage, TypeOK, CallsCovered, [Next]_vars
  PROVE  CallsCovered'
<1>. USE DEF accounting, failures, callerVars, history
<1>0. /\ call \in [Callers -> CallType] /\ pc \in [Callers -> PCs]
      /\ Levels = {1, 2}
      /\ \A c \in Callers : Covered(call[c], pc[c])
  BY DEF TypeOK, Levels, CallsCovered
<1>a. UNCHANGED <<call, pc>> => CallsCovered'
  BY DEF CallsCovered
<1>1. ASSUME NEW c \in Callers, Admit(c)
      PROVE  CallsCovered'
  <2>1. /\ pc[c] = "idle" /\ call' = call
        /\ \E p \in {"top", "stopped"} : pc' = [pc EXCEPT ![c] = p]
    BY <1>1 DEF Admit, Goto
  <2>2. Covered(call'[c], pc'[c]) /\ Moved(c)
    BY <1>0, <2>1 DEF Covered, Moved
  <2>. QED
    BY <2>2, CoveredByMoves
<1>2. ASSUME NEW c \in Callers, Top(c)
      PROVE  CallsCovered'
  <2>1. CASE EndLevel(c, call[c], call[c].usage[call[c].level], "ended") /\ pc[c] = "top"
    <3>1. /\ call[c] \in CallType /\ call[c].level \in Levels
          /\ \A l \in Levels : UsageOK(call[c].usage[l])
          /\ call[c].level = 1 =>
               /\ call[c].usage[2] = Zero
               /\ call[c].reported[2] = 0
               /\ call[c].reported[1] <= UsageTokens(call[c].usage[1])
          /\ call[c].level = 2 =>
               /\ call[c].reported[2] <= UsageTokens(call[c].usage[2])
               /\ call[c].reported[1] <= UsageTokens(call[c].usage[1]) + call[c].reported[2]
      BY <1>0, <2>1, CallParts DEF Covered
    <3>. QED
      BY <2>1, <3>1, EndLevelCovered, CoveredByMoves DEF Moved
  <2>2. CASE call' = [call EXCEPT ![c].level = 2] /\ pc' = pc /\ pc[c] = "top"
             /\ call[c].level < Depth(c)
    <3>1. call[c] \in CallType /\ call[c].level \in Levels /\ Depth(c) \in Levels
      BY <1>0, CallParts, CallsAssumption DEF Depth, Levels
    <3>2. call[c].level = 1
      BY <1>0, <2>2, <3>1
    <3>3. /\ call'[c].level = 2 /\ call'[c].usage = call[c].usage
          /\ call'[c].reported = call[c].reported /\ call'[c].result = call[c].result
      BY <1>0, <2>2 DEF CallType
    <3>4. Covered(call'[c], pc'[c]) /\ Moved(c)
      <4>1. UsageTokens(call[c].usage[1]) \in Nat /\ call[c].reported[1] \in Nat
        BY <1>0, <3>1, CallParts
      <4>. QED
        BY <1>0, <2>2, <3>2, <3>3, <4>1, ZeroOK DEF Covered, Moved
    <3>. QED
      BY <3>4, CoveredByMoves
  <2>3. CASE pc' = [pc EXCEPT ![c] = "attempt"] /\ call' = call /\ pc[c] = "top"
    <3>1. Covered(call'[c], pc'[c]) /\ Moved(c)
      BY <1>0, <2>3 DEF Covered, Moved
    <3>. QED
      BY <3>1, CoveredByMoves
  <2>. QED
    BY <1>2, <2>1, <2>2, <2>3 DEF Top, Goto
<1>3. ASSUME NEW c \in Callers, AttemptReturns(c)
      PROVE  CallsCovered'
  <2>1. PICK u \in Usages, o \in {"ok", "transient", "permanent"} :
          /\ pc[c] = "attempt"
          /\ call' = [call EXCEPT ![c].result = Result(u, o)]
          /\ pc' = [pc EXCEPT ![c] = "after"]
    BY <1>3 DEF AttemptReturns, Goto
  <2>2. UsageOK(u) /\ UsageTokens(u) \in Nat
    BY CallsAssumption, UsageTyped DEF UniformUsage, UsageOK, NoTotals
  <2>3. /\ call'[c].level = call[c].level /\ call'[c].usage = call[c].usage
        /\ call'[c].reported = call[c].reported /\ call'[c].result.usage = u
        /\ pc'[c] = "after"
    BY <1>0, <2>1 DEF CallType, Result
  <2>4. /\ call[c].reported[1] \in Nat /\ UsageTokens(call[c].usage[1]) \in Nat
        /\ Covered(call[c], pc[c]) /\ pc[c] # "after"
    BY <1>0, <2>1, CallParts
  <2>5. Covered(call'[c], pc'[c])
    BY <2>2, <2>3, <2>4 DEF Covered
  <2>6. Moved(c)
    BY <1>0, <2>1 DEF Moved
  <2>. QED
    BY <2>5, <2>6, CoveredByMoves
<1>4. ASSUME NEW c \in Callers, After(c)
      PROVE  CallsCovered'
  <2>. DEFINE f == FrameOf[c]
              k == call[c]
              usage == AddUsage(k.usage[k.level], k.result.usage)
              n == Max({UsageTokens(usage) - k.reported[k.level], 0})
              grown == [a \in Accounts |->
                          IF a \in AccountsAround(f) THEN pending[a] + n ELSE pending[a]]
              spent == Spent(tokens, grown)
              kr == [k EXCEPT !.usage[k.level] = usage,
                              !.reported = [l \in Levels |->
                                 IF l <= k.level THEN @[l] + n ELSE @[l]]]
  <2>1. k \in CallType /\ kr \in CallType /\ n \in Nat /\ usage \in UsageType
    BY <1>0, AfterTyped, ZenonT(30)
  <2>2. /\ pc[c] = "after"
        /\ \/ EndLevel(c, k, usage, k.result.outcome)
           \/ EndLevel(c, kr, usage, "refused")
           \/ EndLevel(c, kr, usage, "ended")
           \/ call' = [call EXCEPT ![c] = kr] /\ Goto(c, "wait")
    BY <1>4 DEF After
  <2>3. /\ k.level \in {1, 2}
        /\ k.usage \in [Levels -> UsageType] /\ k.reported \in [Levels -> Nat]
        /\ \A l \in Levels : k.reported[l] \in Nat /\ UsageTokens(k.usage[l]) \in Nat
        /\ UsageTokens(k.result.usage) \in Nat /\ UsageTokens(usage) \in Nat
    BY <1>0, <2>1, CallParts, UsageTyped
  <2>4. /\ UsageOK(usage)
        /\ UsageTokens(usage) = UsageTokens(k.usage[k.level]) + UsageTokens(k.result.usage)
    BY <1>0, <2>3, TokensAdd DEF Covered
  <2>5. n = IF UsageTokens(usage) >= k.reported[k.level]
            THEN UsageTokens(usage) - k.reported[k.level] ELSE 0
    <3>1. UsageTokens(usage) - k.reported[k.level] \in Int
      <4>. HIDE DEF usage, k
      <4>1. k.reported[k.level] \in Nat /\ UsageTokens(usage) \in Nat
        BY <2>3 DEF Levels
      <4>. QED
        BY ONLY <4>1
    <3>. HIDE DEF usage
    <3>. QED
      BY <1>0, <2>3, <3>1, MaxOfTwo
  <2>6. /\ kr.level = k.level
        /\ kr.usage = [k.usage EXCEPT ![k.level] = usage]
        /\ kr.reported = [l \in Levels |->
             IF l <= k.level THEN k.reported[l] + n ELSE k.reported[l]]
        /\ kr.result = k.result
    BY <2>1, Zenon DEF CallType
  <2>7. Covered(k, "after")
    BY <1>0, <2>2
  <2>. HIDE DEF f, k, usage, n, grown, spent, kr
  <2>8. CASE k.level = 1
    <3>1. /\ k.usage[2] = Zero /\ k.reported[2] = 0
          /\ k.reported[1] <= UsageTokens(usage)
          /\ \A l \in Levels : UsageOK(k.usage[l]) /\ UsageOK(k.result.usage)
      BY <2>4, <2>7, <2>8 DEF Covered
    <3>2. /\ kr.level = 1 /\ kr.usage[1] = usage /\ kr.usage[2] = Zero
          /\ kr.reported[1] = k.reported[1] + n /\ kr.reported[2] = 0
      BY <1>0, <2>3, <2>6, <2>8, <3>1
    <3>3. kr.reported[1] = UsageTokens(usage)
      BY <1>0, <2>3, <2>5, <2>8, <3>1, <3>2
    <3>4. /\ \A l \in Levels : UsageOK(kr.usage[l])
          /\ UsageOK(kr.result.usage)
      BY <1>0, <2>4, <2>6, <3>1, <3>2
    <3>5. Covered(kr, "wait")
      BY <1>0, <3>2, <3>3, <3>4, <2>3 DEF Covered
    <3>6. CASE call' = [call EXCEPT ![c] = kr] /\ Goto(c, "wait")
      BY <1>0, <3>5, <3>6, CoveredByMoves DEF Goto, Moved
    <3>7. CASE EndLevel(c, k, usage, k.result.outcome)
      BY <2>1, <2>4, <2>8, <3>1, <3>7, EndLevelCovered, CoveredByMoves DEF Moved
    <3>8. ASSUME NEW o, EndLevel(c, kr, usage, o)
          PROVE  CallsCovered'
      <4>1. kr.reported[1] <= UsageTokens(usage)
        BY <2>3, <3>3
      <4>. QED
        BY <2>1, <2>4, <3>2, <3>4, <3>8, <4>1, EndLevelCovered, CoveredByMoves DEF Moved
    <3>. QED
      BY <2>2, <3>6, <3>7, <3>8
  <2>9. CASE k.level = 2
    <3>1. /\ k.reported[2] <= UsageTokens(k.usage[2])
          /\ k.reported[1] <= UsageTokens(k.usage[1]) + k.reported[2]
          /\ \A l \in Levels : UsageOK(k.usage[l]) /\ UsageOK(k.result.usage)
      BY <2>7, <2>9 DEF Covered
    <3>2. /\ kr.level = 2 /\ kr.usage[2] = usage /\ kr.usage[1] = k.usage[1]
          /\ kr.reported[1] = k.reported[1] + n /\ kr.reported[2] = k.reported[2] + n
      BY <1>0, <2>3, <2>6, <2>9
    <3>3. k.reported[2] <= UsageTokens(usage)
      BY <1>0, <2>3, <2>4, <2>9, <3>1
    <3>4. kr.reported[2] = UsageTokens(usage)
      BY <1>0, <2>3, <2>5, <2>9, <3>2, <3>3
    <3>5. kr.reported[1] <= UsageTokens(kr.usage[1]) + kr.reported[2]
      BY <1>0, <2>1, <2>3, <3>1, <3>2
    <3>6. /\ \A l \in Levels : UsageOK(kr.usage[l])
          /\ UsageOK(kr.result.usage)
      BY <1>0, <2>4, <2>6, <3>1, <3>2
    <3>7. Covered(kr, "wait")
      BY <1>0, <3>2, <3>4, <3>5, <3>6, <2>3 DEF Covered
    <3>8. CASE call' = [call EXCEPT ![c] = kr] /\ Goto(c, "wait")
      BY <1>0, <3>7, <3>8, CoveredByMoves DEF Goto, Moved
    <3>9. CASE EndLevel(c, k, usage, k.result.outcome)
      BY <2>1, <2>4, <2>9, <3>1, <3>3, <3>9, EndLevelCovered, CoveredByMoves DEF Moved
    <3>10. ASSUME NEW o, EndLevel(c, kr, usage, o)
           PROVE  CallsCovered'
      <4>1. kr.reported[2] <= UsageTokens(usage)
        BY <2>3, <3>4
      <4>. QED
        BY <2>1, <2>4, <3>2, <3>5, <3>6, <3>10, <4>1, EndLevelCovered, CoveredByMoves DEF Moved
    <3>. QED
      BY <2>2, <3>8, <3>9, <3>10
  <2>. QED
    BY <2>3, <2>8, <2>9, SMTT(20)
<1>5. ASSUME NEW c \in Callers, WaitEnds(c) \/ Retry(c)
      PROVE  CallsCovered'
  <2>1. /\ pc[c] \in {"wait", "retry"}
        /\ \/ /\ \E p \in {"retry", "top"} : pc' = [pc EXCEPT ![c] = p]
              /\ \/ call' = call
                 \/ call' = [call EXCEPT ![c].attempt[call[c].level] = @ + 1]
           \/ EndLevel(c, call[c], call[c].usage[call[c].level], "ended")
           \/ EndLevel(c, call[c], call[c].usage[call[c].level], "refused")
    BY <1>5 DEF WaitEnds, Retry, Goto
  <2>2. /\ call[c] \in CallType /\ call[c].level \in Levels
        /\ \A l \in Levels : UsageOK(call[c].usage[l])
        /\ call[c].level = 1 =>
             /\ call[c].usage[2] = Zero
             /\ call[c].reported[2] = 0
             /\ call[c].reported[1] <= UsageTokens(call[c].usage[1])
        /\ call[c].level = 2 =>
             /\ call[c].reported[2] <= UsageTokens(call[c].usage[2])
             /\ call[c].reported[1] <= UsageTokens(call[c].usage[1]) + call[c].reported[2]
    BY <1>0, <2>1, CallParts DEF Covered
  <2>3. ASSUME NEW o, EndLevel(c, call[c], call[c].usage[call[c].level], o)
        PROVE  CallsCovered'
    BY <2>2, <2>3, EndLevelCovered, CoveredByMoves DEF Moved
  <2>4. ASSUME NEW p \in {"retry", "top"}, pc' = [pc EXCEPT ![c] = p],
               \/ call' = call
               \/ call' = [call EXCEPT ![c].attempt[call[c].level] = @ + 1]
        PROVE  CallsCovered'
    <3>1. /\ call'[c].level = call[c].level /\ call'[c].usage = call[c].usage
          /\ call'[c].reported = call[c].reported /\ call'[c].result = call[c].result
          /\ pc'[c] = p
      BY <1>0, <2>4 DEF CallType
    <3>2. Covered(call[c], pc[c]) /\ pc[c] # "after"
      BY <1>0, <2>1
    <3>3. Covered(call'[c], pc'[c])
      BY <3>1, <3>2 DEF Covered
    <3>4. Moved(c)
      BY <1>0, <2>4 DEF Moved
    <3>. QED
      BY <3>3, <3>4, CoveredByMoves
  <2>. QED
    BY <2>1, <2>3, <2>4
<1>6. ASSUME NEW c \in Callers, Finish(c) \/ Record(c)
      PROVE  CallsCovered'
  <2>1. /\ \/ call' = [call EXCEPT ![c] = [NoCall EXCEPT !.result = call[c].result]]
           \/ call' = [call EXCEPT ![c] = NoCall]
        /\ \E p \in {"record", "idle"} : pc' = [pc EXCEPT ![c] = p]
    BY <1>6 DEF Finish, Record, Goto
  <2>2. /\ call'[c].level = 1 /\ call'[c].usage = [l \in Levels |-> Zero]
        /\ call'[c].reported = [l \in Levels |-> 0]
        /\ call'[c].result.usage = call[c].result.usage \/ call'[c].result.usage = Zero
    BY <1>0, <2>1 DEF NoCall
  <2>3. Covered(call'[c], pc'[c])
    BY <1>0, <2>1, <2>2, ZeroOK DEF Covered
  <2>4. Moved(c)
    BY <1>0, <2>1 DEF Moved
  <2>. QED
    BY <2>3, <2>4, CoveredByMoves
<1>7. ASSUME NEW r \in Runs, Expire(r)
      PROVE  CallsCovered'
  BY <1>7, <1>a DEF Expire
<1>8. ASSUME NEW f \in Frames, DeadlineFires(f) \/ Interrupt(f)
      PROVE  CallsCovered'
  BY <1>8, <1>a DEF DeadlineFires, Interrupt
<1>9. CASE UNCHANGED vars
  BY <1>9, <1>a DEF vars
<1>. QED
  BY <1>1, <1>2, <1>3, <1>4, <1>5, <1>6, <1>7, <1>8, <1>9 DEF Next, CallerStep

\* Every step keeps the pending tokens of returned calls within their usage.
LEMMA ReturnedCoveredStep ==
  ASSUME TypeOK, CallsCovered, ReturnedCovered, [Next]_vars
  PROVE  ReturnedCovered'
<1>. USE DEF accounting, failures, callerVars, history
<1>0. returned \in [Frames -> Seq(ReturnedCall)]
  BY DEF TypeOK
<1>a. UNCHANGED returned => ReturnedCovered'
  BY DEF ReturnedCovered
<1>1. ASSUME NEW c \in Callers, Finish(c)
      PROVE  ReturnedCovered'
  <2>. DEFINE f == FrameOf[c]
              e == [tokens |-> UsageTokens(call[c].usage[1]), pending |-> call[c].reported[1]]
  <2>1. returned' = returned \/ returned' = [returned EXCEPT ![f] = Append(@, e)]
    BY <1>1 DEF Finish
  <2>2. call[c] \in CallType /\ pc[c] = "finish" /\ Covered(call[c], pc[c])
    BY <1>1 DEF Finish, TypeOK, CallsCovered
  <2>3. UsageTokens(call[c].usage[1]) \in Nat
    BY <2>2, CallParts DEF Levels
  <2>4. call[c].reported[1] <= UsageTokens(call[c].usage[1])
    BY <2>2, <2>3 DEF Covered
  <2>5. e.pending <= e.tokens /\ f \in Frames
    BY <2>4, FramesAssumption
  <2>. HIDE DEF e, f
  <2>6. CASE returned' = [returned EXCEPT ![f] = Append(@, e)]
    <3>1. /\ returned[f] \in Seq(ReturnedCall)
          /\ returned'[f] = Append(returned[f], e)
          /\ \A g \in Frames : g # f => returned'[g] = returned[g]
      BY <1>0, <2>5, <2>6
    <3>2. \A i \in DOMAIN returned'[f] :
            \/ returned'[f][i] = e
            \/ i \in DOMAIN returned[f] /\ returned'[f][i] = returned[f][i]
      BY <3>1
    <3>. QED
      BY <2>5, <3>1, <3>2 DEF ReturnedCovered
  <2>. QED
    BY <2>1, <2>6, <1>a
<1>2. ASSUME NEW c \in Callers, Record(c)
      PROVE  ReturnedCovered'
  <2>. DEFINE f == FrameOf[c]
              match == Settleable(f, UsageTokens(call[c].result.usage))
              i == Min(match)
  <2>1. returned' = IF match = {} THEN returned
                    ELSE [returned EXCEPT ![f] = RemoveAt(@, i)]
    BY <1>2 DEF Record
  <2>2. f \in Frames /\ match \subseteq DOMAIN returned[f]
    BY FramesAssumption DEF Settleable
  <2>. HIDE DEF f, match, i
  <2>3. returned[f] \in Seq(ReturnedCall)
    BY <1>0, <2>2
  <2>4. match # {} => i \in DOMAIN returned[f]
    BY <2>2, <2>3, MinIn DEF i
  <2>5. CASE match # {}
    <3>1. /\ returned'[f] = RemoveAt(returned[f], i)
          /\ \A g \in Frames : g # f => returned'[g] = returned[g]
      BY <1>0, <2>1, <2>2, <2>5, SMTT(20)
    <3>2. \A j \in DOMAIN returned'[f] : \E k \in DOMAIN returned[f] :
            returned'[f][j] = returned[f][k]
      BY <2>3, <2>4, <2>5, <3>1, RemoveAtSeq, SMTT(20)
    <3>. QED
      BY <2>2, <3>1, <3>2 DEF ReturnedCovered
  <2>. QED
    BY <2>1, <2>5, <1>a
<1>3. ASSUME NEW c \in Callers,
             \/ Admit(c) \/ Top(c) \/ AttemptReturns(c) \/ After(c) \/ WaitEnds(c) \/ Retry(c)
      PROVE  ReturnedCovered'
  BY <1>3, <1>a DEF Admit, Top, AttemptReturns, After, WaitEnds, Retry
<1>4. ASSUME NEW r \in Runs, Expire(r)
      PROVE  ReturnedCovered'
  BY <1>4, <1>a DEF Expire
<1>5. ASSUME NEW f \in Frames, DeadlineFires(f) \/ Interrupt(f)
      PROVE  ReturnedCovered'
  BY <1>5, <1>a DEF DeadlineFires, Interrupt
<1>6. CASE UNCHANGED vars
  BY <1>6, <1>a DEF vars
<1>. QED
  BY <1>1, <1>2, <1>3, <1>4, <1>5, <1>6 DEF Next, CallerStep

(* The inductive invariant holds in every state when models report usage uniformly. *)
LEMMA CoveredAlways == ASSUME UniformUsage PROVE Spec => [](TypeOK /\ IInv)
<1>1. Init => IInv
  <2>. SUFFICES ASSUME Init PROVE IInv
    OBVIOUS
  <2>1. ReturnedCovered
    BY DEF Init, ReturnedCovered
  <2>2. \A c \in Callers : call[c] = NoCall /\ pc[c] = "idle"
    BY DEF Init
  <2>3. Covered(NoCall, "idle")
    BY ZeroOK DEF Covered, NoCall, Levels
  <2>. QED
    BY <2>1, <2>2, <2>3 DEF IInv, CallsCovered
<1>2. TypeOK /\ IInv /\ [Next]_vars => IInv'
  BY CallsCoveredStep, ReturnedCoveredStep DEF IInv
<1>. QED
  BY <1>1, <1>2, TypeCorrect, PTL DEF Spec

(* A returned call's pending tokens are part of the usage its caller will record, when models
   report usage uniformly. *)
THEOREM ReturnedCoveredAlways == ASSUME UniformUsage PROVE Spec => []ReturnedCovered
<1>1. IInv => ReturnedCovered
  BY DEF IInv
<1>. QED
  BY <1>1, CoveredAlways, PTL

(* No step gives counted tokens back. *)
LEMMA SpentStep ==
  ASSUME TypeOK, ReturnedCovered, [Next]_vars
  PROVE  \A a \in Accounts : tokens'[a] + pending'[a] >= tokens[a] + pending[a]
<1>. USE DEF accounting, failures, callerVars, history
<1>. DEFINE Grows == \A a \in Accounts : tokens'[a] + pending'[a] >= tokens[a] + pending[a]
<1>0. tokens \in [Accounts -> Nat] /\ pending \in [Accounts -> Int]
  BY DEF TypeOK
<1>a. UNCHANGED <<tokens, pending>> => Grows
  BY <1>0
<1>1. ASSUME NEW c \in Callers, After(c)
      PROVE  Grows
  <2>. DEFINE n == Max({UsageTokens(AddUsage(call[c].usage[call[c].level], call[c].result.usage))
                          - call[c].reported[call[c].level], 0})
  <2>1. n \in Nat
    BY AfterTyped DEF TypeOK
  <2>2. /\ tokens' = tokens
        /\ \/ pending' = pending
           \/ pending' = [a \in Accounts |->
                IF a \in AccountsAround(FrameOf[c]) THEN pending[a] + n ELSE pending[a]]
    BY <1>1 DEF After
  <2>. HIDE DEF n
  <2>. QED
    BY <1>0, <2>1, <2>2, SMTT(20)
<1>2. ASSUME NEW c \in Callers, Record(c)
      PROVE  Grows
  <2>. DEFINE f == FrameOf[c]
              n == UsageTokens(call[c].result.usage)
              match == Settleable(f, n)
              i == Min(match)
              settled == IF match = {} THEN 0 ELSE returned[f][i].pending
  <2>1. /\ tokens' = [a \in Accounts |->
               IF a \in AccountsAround(f) THEN tokens[a] + n ELSE tokens[a]]
        /\ pending' = [a \in Accounts |->
               IF a \in AccountsAround(f) THEN pending[a] - settled ELSE pending[a]]
    BY <1>2 DEF Record
  <2>2. f \in Frames /\ n \in Nat /\ returned[f] \in Seq(ReturnedCall)
    BY FramesAssumption, CallParts DEF TypeOK
  <2>3. match = {j \in DOMAIN returned[f] : returned[f][j].tokens = n}
    BY DEF Settleable
  <2>. HIDE DEF f, n, match, i
  <2>4. match # {} => i \in match
    <3>1. match \in SUBSET Nat
      BY <2>2, <2>3
    <3>. QED
      BY <3>1, MinIn DEF i
  <2>5. settled \in Nat /\ settled <= n
    <3>1. CASE match # {}
      <4>1. i \in DOMAIN returned[f] /\ returned[f][i].tokens = n
        BY <2>3, <2>4, <3>1
      <4>2. returned[f][i] \in ReturnedCall
        BY <2>2, <4>1
      <4>3. returned[f][i].pending <= returned[f][i].tokens
        BY <2>2, <4>1 DEF ReturnedCovered
      <4>. QED
        BY <3>1, <4>1, <4>2, <4>3 DEF ReturnedCall
    <3>. QED
      BY <2>2, <3>1
  <2>. HIDE DEF settled
  <2>. QED
    BY <1>0, <2>1, <2>2, <2>5
<1>3. ASSUME NEW c \in Callers,
             \/ Admit(c) \/ Top(c) \/ AttemptReturns(c) \/ WaitEnds(c) \/ Retry(c) \/ Finish(c)
      PROVE  Grows
  BY <1>3, <1>a DEF Admit, Top, AttemptReturns, WaitEnds, Retry, Finish
<1>4. ASSUME NEW r \in Runs, Expire(r)
      PROVE  Grows
  BY <1>4, <1>a DEF Expire
<1>5. ASSUME NEW f \in Frames, DeadlineFires(f) \/ Interrupt(f)
      PROVE  Grows
  BY <1>5, <1>a DEF DeadlineFires, Interrupt
<1>6. CASE UNCHANGED vars
  BY <1>6, <1>a DEF vars
<1>. QED
  BY <1>1, <1>2, <1>3, <1>4, <1>5, <1>6 DEF Next, CallerStep

(* Tokens once counted stay counted, for every account, when models report usage uniformly. *)
THEOREM SpentNeverFallsAlways == ASSUME UniformUsage PROVE Spec => SpentNeverFalls
<1>1. TypeOK /\ IInv /\ [Next]_vars =>
        [\A a \in Accounts : Spent(tokens, pending)'[a] >= Spent(tokens, pending)[a]]_vars
  BY SpentStep DEF Spent, IInv
<1>. QED
  BY <1>1, CoveredAlways, PTL DEF Spec, SpentNeverFalls

-----------------------------------------------------------------------------
(* Refinement: each run's accounting is a BudgetLedger.                      *)

(* A call that is not refused finds every run around it unfailed and below its limits. *)
LEMMA NotRefused ==
  ASSUME NEW f \in Frames, NEW spent, ~Refused(f, spent), NEW r \in RunsAround(f)
  PROVE  /\ err[r] = NoError
         /\ MaxTokens[r] > 0 => ~(spent[r] > MaxTokens[r])
         /\ MaxModelCalls[r] > 0 => ~(calls[r] >= MaxModelCalls[r])
<1>1. PICK i \in DOMAIN Chain[f] : AccountOf[Chain[f][i]] = r
  BY DEF RunsAround, AccountsAround, Around
<1>2. ~Stopped(Chain[f][i]) /\ ~Exhausted(Chain[f][i], spent)
  BY <1>1 DEF Refused, StoppedAt, ExhaustedAt
<1>3. r \in Runs
  BY DEF RunsAround
<1>. QED
  BY <1>1, <1>2, <1>3 DEF Stopped, Exhausted, Over, AtCallLimit

(* A step that admits no call only spends, fails or leaves the ledger alone. *)
LEMMA QuietLedgerStep ==
  ASSUME TypeOK, TypeOK', ReturnedCovered, [Next]_vars, calls'[Watched] = calls[Watched]
  PROVE  [Ledger!LedgerNext]_(Ledger!vars)
<1>1. Watched \in Accounts
  BY FramesAssumption
<1>2. /\ tokens[Watched] + pending[Watched] \in Int
      /\ tokens'[Watched] + pending'[Watched] \in Int
  BY <1>1 DEF TypeOK
<1>3. tokens'[Watched] + pending'[Watched] >= tokens[Watched] + pending[Watched]
  BY <1>1, SpentStep
<1>4. err[Watched] # NoError => err'[Watched] # NoError
  BY <1>1, FailuresAreFinal DEF FailureStep
<1>5. CASE tokens'[Watched] + pending'[Watched] > tokens[Watched] + pending[Watched]
  BY <1>4, <1>5 DEF Ledger!LedgerNext, Ledger!LedgerSpend
<1>6. CASE tokens'[Watched] + pending'[Watched] = tokens[Watched] + pending[Watched]
  BY <1>4, <1>6 DEF Ledger!LedgerNext, Ledger!LedgerFail, Ledger!vars
<1>. QED
  BY <1>2, <1>3, <1>5, <1>6

(* A reserved call is admitted in the ledger of every run around its frame. *)
LEMMA ReserveLedgerStep ==
  ASSUME TypeOK, NEW f \in Frames, ~Refused(f, Spent(tokens, pending)), ReserveCall(f),
         UNCHANGED <<tokens, pending, err>>
  PROVE  calls'[Watched] = calls[Watched] \/ Ledger!LedgerNext
<1>1. Watched \in Runs /\ Watched \in Accounts
  BY FramesAssumption
<1>2. CASE Watched \notin RunsAround(f)
  BY <1>1, <1>2 DEF ReserveCall, TypeOK
<1>3. CASE Watched \in RunsAround(f)
  <2>1. /\ err[Watched] = NoError
        /\ MaxTokens[Watched] > 0 => ~(tokens[Watched] + pending[Watched] > MaxTokens[Watched])
        /\ MaxModelCalls[Watched] > 0 => ~(calls[Watched] >= MaxModelCalls[Watched])
    BY <1>1, <1>3, NotRefused DEF Spent
  <2>2. /\ tokens[Watched] + pending[Watched] \in Int /\ MaxTokens[Watched] \in Nat
        /\ calls[Watched] \in Nat /\ MaxModelCalls[Watched] \in Nat
    BY <1>1, LimitsAssumption DEF TypeOK
  <2>3. /\ MaxTokens[Watched] > 0 => tokens[Watched] + pending[Watched] <= MaxTokens[Watched]
        /\ MaxModelCalls[Watched] > 0 => calls[Watched] < MaxModelCalls[Watched]
    BY <2>1, <2>2
  <2>4. calls'[Watched] = calls[Watched] + 1
    BY <1>1, <1>3 DEF ReserveCall
  <2>. QED
    BY <2>1, <2>3, <2>4 DEF Ledger!LedgerNext, Ledger!LedgerAdmit
<1>. QED
  BY <1>2, <1>3

\* Every step is a step of the ledger, or leaves it alone.
LEMMA LedgerStep ==
  ASSUME TypeOK, TypeOK', ReturnedCovered, [Next]_vars
  PROVE  [Ledger!LedgerNext]_(Ledger!vars)
<1>. USE DEF accounting, failures, callerVars, history
<1>a. calls'[Watched] = calls[Watched] => [Ledger!LedgerNext]_(Ledger!vars)
  BY QuietLedgerStep
<1>1. ASSUME NEW c \in Callers, Admit(c) \/ Retry(c)
      PROVE  [Ledger!LedgerNext]_(Ledger!vars)
  <2>1. FrameOf[c] \in Frames
    BY FramesAssumption
  <2>2. \/ UNCHANGED calls
        \/ /\ ~Refused(FrameOf[c], Spent(tokens, pending))
           /\ ReserveCall(FrameOf[c])
           /\ UNCHANGED <<tokens, pending, err>>
    <3>1. CASE Admit(c)
      BY <3>1, Zenon DEF Admit
    <3>2. CASE Retry(c)
      BY <3>2, Zenon DEF Retry
    <3>. QED
      BY <1>1, <3>1, <3>2
  <2>. QED
    BY <1>a, <2>1, <2>2, ReserveLedgerStep
<1>2. ASSUME NEW c \in Callers,
             \/ Top(c) \/ AttemptReturns(c) \/ After(c) \/ WaitEnds(c) \/ Finish(c) \/ Record(c)
      PROVE  [Ledger!LedgerNext]_(Ledger!vars)
  BY <1>2, <1>a, Zenon DEF Top, AttemptReturns, After, WaitEnds, Finish, Record
<1>3. ASSUME NEW r \in Runs, Expire(r)
      PROVE  [Ledger!LedgerNext]_(Ledger!vars)
  BY <1>3, <1>a DEF Expire
<1>4. ASSUME NEW f \in Frames, DeadlineFires(f) \/ Interrupt(f)
      PROVE  [Ledger!LedgerNext]_(Ledger!vars)
  BY <1>4, <1>a DEF DeadlineFires, Interrupt
<1>5. CASE UNCHANGED vars
  BY <1>5, <1>a DEF vars
<1>. QED
  BY <1>1, <1>2, <1>3, <1>4, <1>5 DEF Next, CallerStep

(* The accounting of any run of the budget implements BudgetLedger. *)
THEOREM RunImplementsLedger == ASSUME UniformUsage PROVE Spec => RunIsLedger
<1>1. Init => Ledger!LedgerInit
  BY FramesAssumption DEF Init, Ledger!LedgerInit
<1>2. TypeOK /\ TypeOK' /\ IInv /\ [Next]_vars => [Ledger!LedgerNext]_(Ledger!vars)
  BY LedgerStep DEF IInv
<1>. QED
  BY <1>1, <1>2, CoveredAlways, PTL DEF Spec, RunIsLedger, Ledger!Spec

-----------------------------------------------------------------------------
(* Overspending: tokens over a limit fail their account, or a refused call   *)
(* that has yet to be recorded will.                                         *)

RefusedAt(c) == pc[c] \in {"after", "finish", "record"} /\ call[c].result.outcome = "refused"

RefusedUnder(a) == \E c \in CallersUnder(a) : RefusedAt(c)

Noticed(a) == Over(a, Spent(tokens, pending)) /\ err[a] = NoError => RefusedUnder(a)

OverspendNoticed == \A a \in Accounts : Noticed(a)

(* A step of c that leaves the tokens of an account alone leaves an overspend of it noticed, if c
   was not what noticed it, or still is. *)
LEMMA StaysNoticed ==
  ASSUME FailureStep, NEW a \in Accounts, Noticed(a), NEW c \in Callers, Moved(c),
         RefusedAt(c) => RefusedAt(c)', tokens'[a] = tokens[a], pending'[a] = pending[a]
  PROVE  Noticed(a)'
<1>. SUFFICES ASSUME Over(a, Spent(tokens, pending))', err'[a] = NoError
              PROVE  RefusedUnder(a)'
  BY DEF Noticed
<1>1. Over(a, Spent(tokens, pending))
  BY DEF Over, Spent
<1>2. err[a] = NoError
  BY DEF FailureStep
<1>3. PICK d \in CallersUnder(a) : RefusedAt(d)
  BY <1>1, <1>2 DEF Noticed, RefusedUnder
<1>4. RefusedAt(d)'
  BY <1>3 DEF RefusedAt, Moved, CallersUnder
<1>. QED
  BY <1>4 DEF RefusedUnder, CallersUnder

\* A caller whose level ends with an outcome is where that outcome is seen.
LEMMA EndsRefused ==
  ASSUME TypeOK, NEW c \in Callers, NEW k, NEW usage, EndLevel(c, k, usage, "refused")
  PROVE  RefusedAt(c)' /\ Moved(c)
  BY DEF EndLevel, LevelEnded, Result, Goto, RefusedAt, Moved, TypeOK

\* Every step leaves every overspend noticed.
LEMMA NoticedStep ==
  ASSUME TypeOK, OverspendNoticed, [Next]_vars
  PROVE  OverspendNoticed'
<1>. USE DEF accounting, failures, callerVars, history
<1>0. /\ FailureStep
      /\ call \in [Callers -> CallType] /\ pc \in [Callers -> PCs]
      /\ tokens \in [Accounts -> Nat] /\ pending \in [Accounts -> Int]
      /\ \A c \in Callers : FrameOf[c] \in Frames
  BY FailuresAreFinal, FramesAssumption DEF TypeOK
<1>a. ASSUME NEW c \in Callers, Moved(c), RefusedAt(c) => RefusedAt(c)', UNCHANGED <<tokens, pending>>
      PROVE  OverspendNoticed'
  BY <1>0, <1>a, StaysNoticed DEF OverspendNoticed
<1>1. ASSUME NEW c \in Callers, Admit(c) \/ Top(c) \/ AttemptReturns(c) \/ WaitEnds(c) \/ Retry(c)
      PROVE  OverspendNoticed'
  <2>1. pc[c] \in {"idle", "top", "attempt", "wait", "retry"} /\ UNCHANGED <<tokens, pending>>
    BY <1>1 DEF Admit, Top, AttemptReturns, WaitEnds, Retry
  <2>2. Moved(c)
    BY <1>0, <1>1 DEF Moved, Admit, Top, AttemptReturns, WaitEnds, Retry, EndLevel, Goto
  <2>. QED
    BY <1>a, <2>1, <2>2 DEF RefusedAt
<1>2. ASSUME NEW c \in Callers, After(c)
      PROVE  OverspendNoticed'
  <2>. DEFINE f == FrameOf[c]
              k == call[c]
              usage == AddUsage(k.usage[k.level], k.result.usage)
              n == Max({UsageTokens(usage) - k.reported[k.level], 0})
              grown == [a \in Accounts |->
                          IF a \in AccountsAround(f) THEN pending[a] + n ELSE pending[a]]
              spent == Spent(tokens, grown)
              kr == [k EXCEPT !.usage[k.level] = usage,
                              !.reported = [l \in Levels |->
                                 IF l <= k.level THEN @[l] + n ELSE @[l]]]
  <2>1. /\ pc[c] = "after" /\ tokens' = tokens
        /\ \/ /\ EndLevel(c, k, usage, k.result.outcome)
              /\ UNCHANGED pending
           \/ /\ ~Final(c, k)
              /\ pending' = grown
              /\ EndLevel(c, kr, usage, "refused")
           \/ /\ ~Final(c, k)
              /\ ~Refused(f, spent)
              /\ pending' = grown
              /\ \/ EndLevel(c, kr, usage, "ended")
                 \/ call' = [call EXCEPT ![c] = kr] /\ Goto(c, "wait")
    BY <1>2 DEF After
  <2>2. Moved(c)
    <3>. HIDE DEF f, k, usage, n, grown, spent, kr
    <3>. QED
      BY <1>0, <2>1 DEF Moved, EndLevel, Goto
  <2>3. \A a \in Accounts : a \notin AccountsAround(f) => grown[a] = pending[a]
    OBVIOUS
  <2>4. \A a \in Accounts : spent[a] = tokens[a] + grown[a]
    BY DEF Spent
  <2>. HIDE DEF usage, n, grown, spent, kr
  <2>5. CASE EndLevel(c, k, usage, k.result.outcome) /\ UNCHANGED pending
    <3>1. RefusedAt(c) => RefusedAt(c)'
      BY <2>5, EndsRefused DEF RefusedAt
    <3>. QED
      BY <1>a, <2>1, <2>2, <2>5, <3>1
  <2>6. ~Final(c, k) => ~RefusedAt(c)
    BY DEF Final, RefusedAt
  <2>7. CASE ~Final(c, k) /\ pending' = grown /\ EndLevel(c, kr, usage, "refused")
    <3>1. SUFFICES ASSUME NEW a \in Accounts PROVE Noticed(a)'
      BY DEF OverspendNoticed
    <3>2. RefusedAt(c)'
      BY <2>7, EndsRefused
    <3>3. CASE a \in AccountsAround(f)
      <4>1. c \in CallersUnder(a)
        BY <3>3 DEF CallersUnder
      <4>. QED
        BY <3>2, <4>1 DEF Noticed, RefusedUnder, CallersUnder
    <3>4. CASE a \notin AccountsAround(f)
      <4>1. tokens'[a] = tokens[a] /\ pending'[a] = pending[a]
        BY <2>1, <2>3, <2>7, <3>4
      <4>. QED
        BY <1>0, <2>2, <3>2, <4>1, StaysNoticed DEF OverspendNoticed
    <3>. QED
      BY <3>3, <3>4
  <2>8. CASE ~Final(c, k) /\ ~Refused(f, spent) /\ pending' = grown
    <3>1. SUFFICES ASSUME NEW a \in Accounts PROVE Noticed(a)'
      BY DEF OverspendNoticed
    <3>2. CASE a \in AccountsAround(f)
      <4>1. PICK i \in DOMAIN Chain[f] : AccountOf[Chain[f][i]] = a
        BY <3>2 DEF AccountsAround, Around
      <4>2. ~Over(a, spent)
        BY <2>8, <4>1 DEF Refused, ExhaustedAt, Exhausted
      <4>3. Spent(tokens, pending)'[a] = spent[a]
        BY <2>1, <2>4, <2>8 DEF Spent
      <4>4. ~Over(a, Spent(tokens, pending))'
        BY <4>2, <4>3 DEF Over
      <4>. QED
        BY <4>4 DEF Noticed
    <3>3. CASE a \notin AccountsAround(f)
      <4>1. tokens'[a] = tokens[a] /\ pending'[a] = pending[a]
        BY <2>1, <2>3, <2>8, <3>3
      <4>. QED
        BY <1>0, <2>2, <2>6, <2>8, <4>1, StaysNoticed DEF OverspendNoticed
    <3>. QED
      BY <3>2, <3>3
  <2>. HIDE DEF f, k
  <2>. QED
    BY ONLY <2>1, <2>5, <2>7, <2>8, ZenonT(30)
<1>3. ASSUME NEW c \in Callers, Finish(c)
      PROVE  OverspendNoticed'
  <2>1. /\ call' = [call EXCEPT ![c] = [NoCall EXCEPT !.result = call[c].result]]
        /\ pc' = [pc EXCEPT ![c] = "record"] /\ UNCHANGED <<tokens, pending>>
    BY <1>3 DEF Finish, Goto
  <2>2. call'[c].result = call[c].result /\ pc'[c] = "record" /\ Moved(c)
    BY <1>0, <2>1 DEF NoCall, Moved
  <2>. QED
    BY <1>a, <2>1, <2>2 DEF RefusedAt
<1>4. ASSUME NEW c \in Callers, Record(c)
      PROVE  OverspendNoticed'
  <2>. DEFINE f == FrameOf[c]
              n == UsageTokens(call[c].result.usage)
              match == Settleable(f, n)
              settled == IF match = {} THEN 0 ELSE returned[f][Min(match)].pending
              over == {g \in Around(f) : Over(AccountOf[g], Spent(tokens', pending'))}
  <2>1. /\ pc[c] = "record"
        /\ tokens' = [a \in Accounts |-> IF a \in AccountsAround(f) THEN tokens[a] + n ELSE tokens[a]]
        /\ pending' = [a \in Accounts |->
             IF a \in AccountsAround(f) THEN pending[a] - settled ELSE pending[a]]
        /\ err' = [a \in Accounts |->
             IF err[a] = NoError /\ a \in {AccountOf[g] : g \in over} THEN "MaxTokens" ELSE err[a]]
        /\ call' = [call EXCEPT ![c] = NoCall] /\ pc' = [pc EXCEPT ![c] = "idle"]
    BY <1>4 DEF Record, Goto
  <2>2. over = {g \in Around(f) : Over(AccountOf[g], Spent(tokens', pending'))}
    OBVIOUS
  <2>. HIDE DEF n, match, settled, over
  <2>3. SUFFICES ASSUME NEW a \in Accounts PROVE Noticed(a)'
    BY DEF OverspendNoticed
  <2>4. CASE a \in AccountsAround(f)
    <3>1. PICK g \in Around(f) : AccountOf[g] = a
      BY <2>4 DEF AccountsAround
    <3>2. ASSUME Over(a, Spent(tokens, pending))'
          PROVE  err'[a] # NoError
      <4>1. g \in over
        BY <2>2, <3>1, <3>2 DEF Over, Spent
      <4>2. a \in {AccountOf[h] : h \in over}
        BY <3>1, <4>1
      <4>. QED
        BY <2>1, <4>2 DEF NoError
    <3>. QED
      BY <3>2 DEF Noticed
  <2>5. CASE a \notin AccountsAround(f)
    <3>1. tokens'[a] = tokens[a] /\ pending'[a] = pending[a]
      BY <2>1, <2>5
    <3>2. Moved(c)
      BY <1>0, <2>1 DEF Moved
    <3>3. c \notin CallersUnder(a)
      BY <2>5 DEF CallersUnder
    <3>4. SUFFICES ASSUME Over(a, Spent(tokens, pending))', err'[a] = NoError
                   PROVE  RefusedUnder(a)'
      BY DEF Noticed
    <3>5. Over(a, Spent(tokens, pending)) /\ err[a] = NoError
      BY <1>0, <3>1, <3>4 DEF Over, Spent, FailureStep
    <3>6. PICK d \in CallersUnder(a) : RefusedAt(d)
      BY <3>5 DEF OverspendNoticed, Noticed, RefusedUnder
    <3>7. d # c /\ d \in Callers
      BY <3>3 DEF CallersUnder
    <3>8. RefusedAt(d)'
      BY <3>2, <3>6, <3>7 DEF RefusedAt, Moved
    <3>. QED
      BY <3>8 DEF RefusedUnder, CallersUnder
  <2>. QED
    BY <2>4, <2>5
<1>5. ASSUME UNCHANGED <<tokens, pending, call, pc>>
      PROVE  OverspendNoticed'
  <2>. SUFFICES ASSUME NEW a \in Accounts, Over(a, Spent(tokens, pending))', err'[a] = NoError
                PROVE  RefusedUnder(a)'
    BY DEF OverspendNoticed, Noticed
  <2>1. Over(a, Spent(tokens, pending)) /\ err[a] = NoError
    BY <1>0, <1>5 DEF Over, Spent, FailureStep
  <2>. QED
    BY <1>5, <2>1 DEF OverspendNoticed, Noticed, RefusedUnder, RefusedAt
<1>6. ASSUME NEW r \in Runs, Expire(r)
      PROVE  OverspendNoticed'
  BY <1>5, <1>6 DEF Expire
<1>7. ASSUME NEW f \in Frames, DeadlineFires(f) \/ Interrupt(f)
      PROVE  OverspendNoticed'
  BY <1>5, <1>7 DEF DeadlineFires, Interrupt
<1>8. CASE UNCHANGED vars
  BY <1>5, <1>8 DEF vars
<1>. QED
  BY <1>1, <1>2, <1>3, <1>4, <1>6, <1>7, <1>8 DEF Next, CallerStep

(* Tokens over a limit fail their account, or will when a refused call is recorded, and every
   failed run's context has ended, for any usages, limits, nestings and interleavings. *)
THEOREM OverspendStopsAlways == Spec => []OverspendStops
<1>1. Init => OverspendNoticed
  <2>. SUFFICES ASSUME Init, NEW a \in Accounts PROVE Noticed(a)
    BY DEF OverspendNoticed
  <2>1. Spent(tokens, pending)[a] = 0
    BY DEF Init, Spent
  <2>2. MaxTokens[a] \in Nat
    BY LimitsAssumption
  <2>3. ~Over(a, Spent(tokens, pending))
    BY <2>1, <2>2 DEF Over
  <2>. QED
    BY <2>3 DEF Noticed
<1>2. TypeOK /\ OverspendNoticed /\ [Next]_vars => OverspendNoticed'
  BY NoticedStep
<1>3. OverspendNoticed /\ FailureCancels => OverspendStops
  BY DEF OverspendNoticed, Noticed, RefusedUnder, RefusedAt, OverspendStops
<1>. QED
  BY <1>1, <1>2, <1>3, TypeCorrect, FailureCancelsAlways, PTL DEF Spec

-----------------------------------------------------------------------------
(* The returned calls of a frame, as sums: their pending tokens, and how     *)
(* many of them have n tokens.                                               *)

Pend(s) == [i \in 1..Len(s) |-> s[i].pending]

Having(s, n) == [i \in 1..Len(s) |-> IF s[i].tokens = n THEN 1 ELSE 0]

FinitePend(s) == Finite(1..Len(s), Pend(s))

PendingOf(s) == SumOf(1..Len(s), Pend(s))

FiniteHaving(s, n) == Finite(1..Len(s), Having(s, n))

HowMany(s, n) == SumOf(1..Len(s), Having(s, n))

One(e, n) == IF e.tokens = n THEN 1 ELSE 0

\* A call that returns adds its pending tokens to those of its frame, and is one more with its tokens.
LEMMA AppendAdds ==
  ASSUME NEW s \in Seq(ReturnedCall), NEW e \in ReturnedCall, FinitePend(s), NEW m, FiniteHaving(s, m)
  PROVE  /\ FinitePend(Append(s, e)) /\ PendingOf(Append(s, e)) = PendingOf(s) + e.pending
         /\ FiniteHaving(Append(s, e), m) /\ HowMany(Append(s, e), m) = HowMany(s, m) + One(e, m)
<1>. DEFINE n == Len(s)
            t == Append(s, e)
<1>1. /\ n \in Nat /\ Len(t) = n + 1 /\ t[n + 1] = e
      /\ \A j \in 1..n : t[j] = s[j]
      /\ e.pending \in Nat /\ One(e, m) \in Nat
  BY DEF ReturnedCall, One
<1>2. n + 1 \in 1..(n + 1) /\ \A j \in 1..n : j \in 1..(n + 1)
  BY <1>1
<1>. HIDE DEF t, n
<1>3. /\ Pend(t)[n + 1] = e.pending /\ \A j \in 1..n : Pend(t)[j] = Pend(s)[j]
      /\ Having(t, m)[n + 1] = One(e, m) /\ \A j \in 1..n : Having(t, m)[j] = Having(s, m)[j]
  BY <1>1, <1>2 DEF Pend, Having, One, n
<1>4. Finite(1..n, Pend(s)) /\ Finite(1..n, Having(s, m))
  BY DEF FinitePend, FiniteHaving, n
<1>5. Finite(1..(n + 1), Pend(t)) /\ SumOf(1..(n + 1), Pend(t)) = SumOf(1..n, Pend(s)) + e.pending
  BY <1>1, <1>3, <1>4, SumAppends
<1>6. /\ Finite(1..(n + 1), Having(t, m))
      /\ SumOf(1..(n + 1), Having(t, m)) = SumOf(1..n, Having(s, m)) + One(e, m)
  BY <1>1, <1>3, <1>4, SumAppends
<1>. QED
  BY <1>1, <1>5, <1>6 DEF FinitePend, PendingOf, FiniteHaving, HowMany, n, t

\* A returned call that is settled takes its pending tokens with it, and is one less with its tokens.
LEMMA RemoveTakes ==
  ASSUME NEW s \in Seq(ReturnedCall), NEW i \in DOMAIN s, FinitePend(s), NEW m, FiniteHaving(s, m)
  PROVE  /\ FinitePend(RemoveAt(s, i)) /\ PendingOf(RemoveAt(s, i)) = PendingOf(s) - s[i].pending
         /\ FiniteHaving(RemoveAt(s, i), m) /\ HowMany(RemoveAt(s, i), m) = HowMany(s, m) - One(s[i], m)
<1>. DEFINE n == Len(s)
            t == RemoveAt(s, i)
<1>1. n \in Nat /\ i \in 1..n /\ s[i] \in ReturnedCall
  OBVIOUS
<1>2. Len(t) = n - 1 /\ \A j \in 1..(n - 1) : t[j] = s[IF j < i THEN j ELSE j + 1]
  BY RemoveAtIs
<1>3. s[i].pending \in Nat /\ One(s[i], m) \in Nat
  BY <1>1 DEF ReturnedCall, One
<1>. HIDE DEF t, n
<1>4. \A j \in 1..(n - 1) : (IF j < i THEN j ELSE j + 1) \in 1..n
  BY <1>1
<1>5. /\ Pend(s)[i] = s[i].pending
      /\ \A j \in 1..(n - 1) : Pend(t)[j] = Pend(s)[IF j < i THEN j ELSE j + 1]
  BY <1>1, <1>2, <1>4 DEF Pend, n
<1>6. /\ Having(s, m)[i] = One(s[i], m)
      /\ \A j \in 1..(n - 1) : Having(t, m)[j] = Having(s, m)[IF j < i THEN j ELSE j + 1]
  BY <1>1, <1>2, <1>4 DEF Having, One, n
<1>7. Finite(1..n, Pend(s)) /\ Finite(1..n, Having(s, m))
  BY DEF FinitePend, FiniteHaving, n
<1>8. Pend(s)[i] \in Nat /\ Having(s, m)[i] \in Nat
  BY <1>3, <1>5, <1>6
<1>9. Finite(1..(n - 1), Pend(t)) /\ SumOf(1..(n - 1), Pend(t)) = SumOf(1..n, Pend(s)) - Pend(s)[i]
  <2>1. Removed(n, i, Pend(s), Pend(t))
    BY <1>1, <1>5, <1>8 DEF Removed
  <2>. QED
    BY <1>7, <2>1, SumRemoves
<1>10. /\ Finite(1..(n - 1), Having(t, m))
       /\ SumOf(1..(n - 1), Having(t, m)) = SumOf(1..n, Having(s, m)) - Having(s, m)[i]
  <2>1. Removed(n, i, Having(s, m), Having(t, m))
    BY <1>1, <1>6, <1>8 DEF Removed
  <2>. QED
    BY <1>7, <2>1, SumRemoves
<1>. QED
  BY <1>2, <1>5, <1>6, <1>9, <1>10 DEF FinitePend, PendingOf, FiniteHaving, HowMany, n, t

-----------------------------------------------------------------------------
(* What a caller has yet to have counted: the tokens its call has used so    *)
(* far, those it has reported, and those its frame holds as returned.        *)

Owed(k, p) ==
  UsageTokens(k.usage[1]) + UsageTokens(k.usage[2])
    + (IF p \in {"after", "record"} THEN UsageTokens(k.result.usage) ELSE 0)

OwedBy == [c \in Callers |-> Owed(call[c], pc[c])]

ReportedBy == [c \in Callers |-> call[c].reported[1]]

\* A caller between calls owes nothing more than what it has yet to record.
Placed(k, p) ==
  /\ p \in {"idle", "stopped", "record"} => k.usage[1] = Zero /\ k.reported[1] = 0
  /\ p = "finish" => k.result.usage = k.usage[1]

CallsPlaced == \A c \in Callers : Placed(call[c], pc[c])

\* The call of c, moved there by a step, owes x and has reported y.
Stands(c, x, y) ==
  /\ Moved(c) /\ Placed(call'[c], pc'[c])
  /\ Owed(call'[c], pc'[c]) = x
  /\ call'[c].reported[1] = y

\* A typed call owes a number of tokens.
LEMMA OwedTyped ==
  ASSUME NEW k \in CallType, NEW p
  PROVE  Owed(k, p) \in Nat /\ k.reported[1] \in Nat
<1>1. /\ UsageTokens(k.usage[1]) \in Nat /\ UsageTokens(k.usage[2]) \in Nat
      /\ UsageTokens(k.result.usage) \in Nat /\ k.reported[1] \in Nat
  BY CallParts DEF Levels
<1>. QED
  BY <1>1 DEF Owed

\* A level that ends leaves its call owing the usage it returns beside that of the other level.
LEMMA EndLevelStands ==
  ASSUME TypeOK, NEW c \in Callers, NEW k \in CallType, NEW usage \in UsageType, NEW outcome,
         EndLevel(c, k, usage, outcome)
  PROVE  /\ Stands(c, UsageTokens(usage) + UsageTokens(k.usage[3 - k.level]), k.reported[1])
         /\ pc'[c] \in {"finish", "after"}
<1>0. /\ k.level \in {1, 2} /\ Levels = {1, 2}
      /\ k.usage \in [Levels -> UsageType] /\ k.reported \in [Levels -> Nat]
  BY CallParts DEF Levels
<1>. DEFINE k2 == LevelEnded(k, usage, outcome)
            p2 == IF k.level = 1 THEN "finish" ELSE "after"
<1>1. /\ k2.result.usage = usage
      /\ k2.reported[1] = k.reported[1]
      /\ k.level = 1 => k2.usage[1] = usage /\ k2.usage[2] = k.usage[2]
      /\ k.level = 2 => k2.usage[1] = k.usage[1] /\ k2.usage[2] = Zero
  BY <1>0 DEF LevelEnded, Result
<1>2. call' = [call EXCEPT ![c] = k2] /\ pc' = [pc EXCEPT ![c] = p2]
  BY DEF EndLevel, Goto
<1>3. /\ UsageTokens(k.usage[1]) \in Nat /\ UsageTokens(k.usage[2]) \in Nat
      /\ UsageTokens(usage) \in Nat /\ UsageTokens(Zero) = 0
  BY <1>0, UsageTyped, ZeroOK
<1>. HIDE DEF k2
<1>4. /\ call'[c] = k2 /\ pc'[c] = p2 /\ Moved(c)
  BY <1>2 DEF TypeOK, Moved
<1>5. Owed(k2, p2) = UsageTokens(usage) + UsageTokens(k.usage[3 - k.level])
  <2>1. CASE k.level = 1
    BY <1>1, <1>3, <2>1 DEF Owed
  <2>2. CASE k.level = 2
    BY <1>1, <1>3, <2>2 DEF Owed
  <2>. QED
    BY <1>0, <2>1, <2>2
<1>6. Placed(k2, p2)
  BY <1>0, <1>1 DEF Placed
<1>. QED
  BY <1>1, <1>4, <1>5, <1>6 DEF Stands

(* A step that neither counts nor reports: the caller owes and has reported what it had. *)
Keeping(c) ==
  /\ Stands(c, OwedBy[c], ReportedBy[c])
  /\ pc[c] # "record" /\ pc'[c] # "record"
  /\ UNCHANGED <<tokens, pending, returned, burned>>

\* Admitting, making, retrying and waiting for a call keep what its caller owes.
LEMMA KeepingSteps ==
  ASSUME TypeOK, CallsCovered, CallsPlaced, NEW c \in Callers,
         Admit(c) \/ Top(c) \/ WaitEnds(c) \/ Retry(c)
  PROVE  Keeping(c)
<1>. USE DEF accounting, failures, callerVars, history
<1>. DEFINE k == call[c]
            usage == k.usage[k.level]
<1>0. /\ call \in [Callers -> CallType] /\ pc \in [Callers -> PCs]
      /\ Levels = {1, 2} /\ k \in CallType /\ k.level \in {1, 2}
      /\ k.usage \in [Levels -> UsageType]
      /\ Covered(k, pc[c]) /\ Placed(k, pc[c])
      /\ OwedBy[c] = Owed(k, pc[c]) /\ ReportedBy[c] = k.reported[1]
  BY CallParts DEF TypeOK, Levels, CallsCovered, CallsPlaced, OwedBy, ReportedBy
<1>1. /\ UsageTokens(k.usage[1]) \in Nat /\ UsageTokens(k.usage[2]) \in Nat /\ usage \in UsageType
  BY <1>0, UsageTyped
<1>2. /\ UNCHANGED <<tokens, pending, returned, burned>>
      /\ pc[c] \in {"idle", "top", "wait", "retry"}
      /\ \/ /\ \E o : EndLevel(c, k, usage, o)
            /\ pc[c] # "idle"
         \/ /\ \E p \in {"top", "stopped", "attempt", "retry"} :
                 pc' = [pc EXCEPT ![c] = p] /\ (p = "stopped" => pc[c] = "idle")
            /\ \/ call' = call
               \/ call' = [call EXCEPT ![c].level = 2] /\ pc[c] = "top"
               \/ call' = [call EXCEPT ![c].attempt[k.level] = @ + 1] /\ pc[c] = "retry"
  <2>1. CASE Admit(c)
    BY <2>1 DEF Admit, Goto
  <2>2. CASE Top(c)
    <3>1. CASE UNCHANGED <<pc, attempts>>
      <4>1. pc' = [pc EXCEPT ![c] = "top"]
        BY <1>0, <2>2, <3>1 DEF Top
      <4>. QED
        BY <2>2, <3>1, <4>1 DEF Top, Goto, EndLevel
    <3>. QED
      BY <2>2, <3>1 DEF Top, Goto
  <2>3. CASE WaitEnds(c)
    BY <2>3 DEF WaitEnds, Goto
  <2>4. CASE Retry(c)
    BY <2>4 DEF Retry, Goto
  <2>. QED
    BY <2>1, <2>2, <2>3, <2>4
<1>3. Owed(k, pc[c]) = UsageTokens(k.usage[1]) + UsageTokens(k.usage[2])
  BY <1>1, <1>2 DEF Owed
<1>4. CASE \E o : EndLevel(c, k, usage, o)
  <2>1. PICK o : EndLevel(c, k, usage, o)
    BY <1>4
  <2>2. /\ Stands(c, UsageTokens(usage) + UsageTokens(k.usage[3 - k.level]), k.reported[1])
        /\ pc'[c] \in {"finish", "after"}
    <3>. HIDE DEF k, usage
    <3>. QED
      BY <1>0, <1>1, <2>1, EndLevelStands
  <2>3. UsageTokens(usage) + UsageTokens(k.usage[3 - k.level]) = Owed(k, pc[c])
    BY <1>0, <1>1, <1>3
  <2>. QED
    BY <1>0, <1>2, <2>2, <2>3 DEF Keeping
<1>5. CASE /\ \E p \in {"top", "stopped", "attempt", "retry"} :
                pc' = [pc EXCEPT ![c] = p] /\ (p = "stopped" => pc[c] = "idle")
           /\ \/ call' = call
              \/ call' = [call EXCEPT ![c].level = 2] /\ pc[c] = "top"
              \/ call' = [call EXCEPT ![c].attempt[k.level] = @ + 1] /\ pc[c] = "retry"
  <2>1. /\ call'[c].usage = k.usage /\ call'[c].reported = k.reported
        /\ pc'[c] \in {"top", "stopped", "attempt", "retry"}
        /\ pc'[c] = "stopped" => pc[c] = "idle"
    BY <1>0, <1>5 DEF CallType
  <2>2. Moved(c)
    BY <1>0, <1>5 DEF Moved
  <2>3. Owed(call'[c], pc'[c]) = Owed(k, pc[c])
    BY <1>1, <1>3, <2>1 DEF Owed
  <2>4. Placed(call'[c], pc'[c])
    BY <1>0, <2>1 DEF Placed
  <2>. QED
    BY <1>0, <1>2, <2>1, <2>2, <2>3, <2>4 DEF Keeping, Stands
<1>. QED
  BY <1>2, <1>4, <1>5

\* An attempt that returns is owed by its caller, and burned under every account around it.
LEMMA BurningStep ==
  ASSUME UniformUsage, TypeOK, CallsCovered, CallsPlaced, NEW c \in Callers, AttemptReturns(c)
  PROVE  \E n \in Nat :
           /\ Stands(c, OwedBy[c] + n, ReportedBy[c])
           /\ pc[c] # "record" /\ pc'[c] # "record"
           /\ burned' = [a \in Accounts |->
                IF a \in AccountsAround(FrameOf[c]) THEN burned[a] + n ELSE burned[a]]
           /\ UNCHANGED <<tokens, pending, returned>>
<1>. USE DEF accounting, failures, callerVars, history
<1>. DEFINE k == call[c]
<1>0. /\ call \in [Callers -> CallType] /\ pc \in [Callers -> PCs]
      /\ k \in CallType /\ OwedBy[c] = Owed(k, pc[c]) /\ ReportedBy[c] = k.reported[1]
  BY DEF TypeOK, OwedBy, ReportedBy
<1>1. PICK u \in Usages, o \in {"ok", "transient", "permanent"} :
        /\ pc[c] = "attempt"
        /\ call' = [call EXCEPT ![c].result = Result(u, o)]
        /\ pc' = [pc EXCEPT ![c] = "after"]
        /\ burned' = [a \in Accounts |->
             IF a \in AccountsAround(FrameOf[c]) THEN burned[a] + UsageTokens(u) ELSE burned[a]]
        /\ UNCHANGED <<tokens, pending, returned>>
  BY DEF AttemptReturns, Goto
<1>2. UsageTokens(u) \in Nat
  BY CallsAssumption, UsageTyped
<1>3. /\ call'[c].usage = k.usage /\ call'[c].reported = k.reported /\ call'[c].result.usage = u
      /\ pc'[c] = "after"
  BY <1>0, <1>1 DEF CallType, Result
<1>4. Moved(c)
  BY <1>0, <1>1 DEF Moved
<1>5. Owed(call'[c], pc'[c]) = Owed(k, pc[c]) + UsageTokens(u)
  <2>1. UsageTokens(k.usage[1]) \in Nat /\ UsageTokens(k.usage[2]) \in Nat
    BY <1>0, CallParts DEF Levels
  <2>. QED
    BY <1>1, <1>2, <1>3, <2>1 DEF Owed
<1>6. Placed(call'[c], pc'[c])
  BY <1>3 DEF Placed
<1>. QED
  BY <1>0, <1>1, <1>2, <1>3, <1>4, <1>5, <1>6 DEF Stands

\* After an attempt its caller owes what it owed, and may have reported more of it.
LEMMA ReportingStep ==
  ASSUME UniformUsage, TypeOK, CallsCovered, CallsPlaced, NEW c \in Callers, After(c)
  PROVE  \E n \in Nat :
           /\ Stands(c, OwedBy[c], ReportedBy[c] + n)
           /\ pc[c] # "record" /\ pc'[c] # "record"
           /\ pending' = [a \in Accounts |->
                IF a \in AccountsAround(FrameOf[c]) THEN pending[a] + n ELSE pending[a]]
           /\ UNCHANGED <<tokens, burned, returned>>
<1>. USE DEF accounting, failures, callerVars, history
<1>. DEFINE f == FrameOf[c]
            k == call[c]
            usage == AddUsage(k.usage[k.level], k.result.usage)
            n == Max({UsageTokens(usage) - k.reported[k.level], 0})
            grown == [a \in Accounts |->
                        IF a \in AccountsAround(f) THEN pending[a] + n ELSE pending[a]]
            spent == Spent(tokens, grown)
            kr == [k EXCEPT !.usage[k.level] = usage,
                            !.reported = [l \in Levels |->
                               IF l <= k.level THEN @[l] + n ELSE @[l]]]
<1>0. /\ call \in [Callers -> CallType] /\ pc \in [Callers -> PCs] /\ pending \in [Accounts -> Int]
      /\ Levels = {1, 2} /\ k \in CallType /\ k.level \in {1, 2}
      /\ k.usage \in [Levels -> UsageType] /\ k.reported \in [Levels -> Nat]
      /\ Covered(k, pc[c])
      /\ OwedBy[c] = Owed(k, pc[c]) /\ ReportedBy[c] = k.reported[1]
  BY CallParts, SMTT(20) DEF TypeOK, Levels, CallsCovered, OwedBy, ReportedBy
<1>1. k \in CallType /\ kr \in CallType /\ n \in Nat /\ usage \in UsageType
  <2>1. k \in CallType
    BY <1>0
  <2>. QED
    BY ONLY <2>1, AfterTyped
<1>2. /\ pc[c] = "after" /\ UNCHANGED <<tokens, burned, returned>>
      /\ \/ EndLevel(c, k, usage, k.result.outcome) /\ UNCHANGED pending
         \/ (\E o : EndLevel(c, kr, usage, o)) /\ pending' = grown
         \/ call' = [call EXCEPT ![c] = kr] /\ Goto(c, "wait") /\ pending' = grown
  <2>1. /\ pc[c] = "after" /\ UNCHANGED <<tokens, burned, returned>>
        /\ \/ EndLevel(c, k, usage, k.result.outcome) /\ UNCHANGED pending
           \/ EndLevel(c, kr, usage, "refused") /\ pending' = grown
           \/ EndLevel(c, kr, usage, "ended") /\ pending' = grown
           \/ call' = [call EXCEPT ![c] = kr] /\ Goto(c, "wait") /\ pending' = grown
    BY AfterIs, Zenon
  <2>. HIDE DEF k, usage, n, grown, spent, kr
  <2>. QED
    BY ONLY <2>1, Zenon
<1>3. /\ kr.level = k.level
      /\ kr.usage = [k.usage EXCEPT ![k.level] = usage]
      /\ kr.reported = [l \in Levels |->
           IF l <= k.level THEN k.reported[l] + n ELSE k.reported[l]]
      /\ kr.result = k.result
  BY <1>1, Zenon DEF CallType
<1>4. /\ UsageTokens(k.usage[1]) \in Nat /\ UsageTokens(k.usage[2]) \in Nat
      /\ UsageTokens(k.result.usage) \in Nat
      /\ UsageTokens(usage) = UsageTokens(k.usage[k.level]) + UsageTokens(k.result.usage)
  BY <1>0, <1>1, CallParts, TokensAdd DEF Covered
<1>5. grown = [a \in Accounts |->
                 IF a \in AccountsAround(f) THEN pending[a] + n ELSE pending[a]]
  OBVIOUS
<1>. HIDE DEF k, usage, n, grown, spent, kr
<1>6. kr.usage[3 - k.level] = k.usage[3 - k.level] /\ kr.reported[1] = k.reported[1] + n
  BY <1>0, <1>3
<1>7. UsageTokens(usage) + UsageTokens(k.usage[3 - k.level]) = Owed(k, pc[c])
  BY <1>0, <1>2, <1>4 DEF Owed
<1>8. CASE EndLevel(c, k, usage, k.result.outcome) /\ UNCHANGED pending
  <2>1. /\ Stands(c, UsageTokens(usage) + UsageTokens(k.usage[3 - k.level]), k.reported[1])
        /\ pc'[c] \in {"finish", "after"}
    BY <1>1, <1>8, EndLevelStands
  <2>2. Stands(c, OwedBy[c], ReportedBy[c] + 0)
    BY <1>0, <1>7, <2>1
  <2>3. pending' = [a \in Accounts |->
          IF a \in AccountsAround(f) THEN pending[a] + 0 ELSE pending[a]]
    BY <1>0, <1>8
  <2>. QED
    BY <1>2, <2>1, <2>2, <2>3
<1>9. CASE (\E o : EndLevel(c, kr, usage, o)) /\ pending' = grown
  <2>1. PICK o : EndLevel(c, kr, usage, o)
    BY <1>9
  <2>2. /\ Stands(c, UsageTokens(usage) + UsageTokens(kr.usage[3 - kr.level]), kr.reported[1])
        /\ pc'[c] \in {"finish", "after"}
    BY <1>1, <2>1, EndLevelStands
  <2>3. Stands(c, OwedBy[c], ReportedBy[c] + n)
    BY <1>0, <1>3, <1>6, <1>7, <2>2
  <2>. QED
    BY <1>1, <1>2, <1>5, <1>9, <2>2, <2>3
<1>10. CASE call' = [call EXCEPT ![c] = kr] /\ Goto(c, "wait") /\ pending' = grown
  <2>1. call'[c] = kr /\ pc'[c] = "wait" /\ Moved(c)
    BY <1>0, <1>10 DEF Goto, Moved
  <2>2. Owed(kr, "wait") = Owed(k, pc[c])
    BY <1>0, <1>2, <1>3, <1>4 DEF Owed
  <2>3. Placed(kr, "wait")
    BY DEF Placed
  <2>4. Stands(c, OwedBy[c], ReportedBy[c] + n)
    BY <1>0, <1>6, <2>1, <2>2, <2>3 DEF Stands
  <2>. QED
    BY <1>1, <1>2, <1>5, <1>10, <2>1, <2>4
<1>. QED
  BY <1>2, <1>8, <1>9, <1>10

\* A call that finishes owes what it owed, and leaves what it reported with its frame.
LEMMA FinishingStep ==
  ASSUME TypeOK, CallsCovered, CallsPlaced, NEW c \in Callers, Finish(c)
  PROVE  /\ Stands(c, OwedBy[c], 0)
         /\ pc[c] = "finish" /\ pc'[c] = "record"
         /\ UsageTokens(call'[c].result.usage) = UsageTokens(call[c].usage[1])
         /\ UNCHANGED <<tokens, pending, burned>>
<1>. USE DEF accounting, failures, callerVars, history
<1>. DEFINE k == call[c]
<1>0. /\ call \in [Callers -> CallType] /\ pc \in [Callers -> PCs]
      /\ k \in CallType /\ OwedBy[c] = Owed(k, pc[c])
      /\ Covered(k, pc[c]) /\ Placed(k, pc[c])
  BY DEF TypeOK, OwedBy, CallsCovered, CallsPlaced
<1>1. /\ pc[c] = "finish" /\ UNCHANGED <<tokens, pending, burned>>
      /\ call' = [call EXCEPT ![c] = [NoCall EXCEPT !.result = k.result]]
      /\ pc' = [pc EXCEPT ![c] = "record"]
  BY DEF Finish, Goto
<1>2. /\ call'[c].usage = [l \in Levels |-> Zero] /\ call'[c].reported = [l \in Levels |-> 0]
      /\ call'[c].result = k.result /\ pc'[c] = "record" /\ Moved(c)
  BY <1>0, <1>1 DEF NoCall, Moved
<1>3. /\ call'[c].usage[1] = Zero /\ call'[c].usage[2] = Zero /\ call'[c].reported[1] = 0
  BY <1>2 DEF Levels
<1>4. k.usage[2] = Zero /\ k.result.usage = k.usage[1] /\ UsageTokens(k.usage[1]) \in Nat
  BY <1>0, <1>1, CallParts DEF Covered, Placed, Levels
<1>5. Owed(call'[c], pc'[c]) = Owed(k, pc[c])
  BY <1>1, <1>2, <1>3, <1>4, ZeroOK DEF Owed
<1>. QED
  BY <1>0, <1>1, <1>2, <1>3, <1>4, <1>5 DEF Stands, Placed

\* A call that is recorded owes nothing more, and its tokens count under every account around it.
LEMMA RecordingStep ==
  ASSUME TypeOK, CallsCovered, CallsPlaced, NEW c \in Callers, Record(c)
  PROVE  LET n == UsageTokens(call[c].result.usage)
         IN /\ Stands(c, 0, 0) /\ OwedBy[c] = n /\ n \in Nat /\ ReportedBy[c] = 0
            /\ pc[c] = "record" /\ pc'[c] = "idle"
            /\ tokens' = [a \in Accounts |->
                 IF a \in AccountsAround(FrameOf[c]) THEN tokens[a] + n ELSE tokens[a]]
            /\ UNCHANGED burned
<1>. USE DEF accounting, failures, callerVars, history
<1>. DEFINE k == call[c]
            n == UsageTokens(k.result.usage)
<1>0. /\ call \in [Callers -> CallType] /\ pc \in [Callers -> PCs]
      /\ k \in CallType /\ OwedBy[c] = Owed(k, pc[c]) /\ ReportedBy[c] = k.reported[1]
      /\ Covered(k, pc[c]) /\ Placed(k, pc[c])
  BY DEF TypeOK, OwedBy, ReportedBy, CallsCovered, CallsPlaced
<1>1. /\ pc[c] = "record" /\ UNCHANGED burned
      /\ call' = [call EXCEPT ![c] = NoCall]
      /\ pc' = [pc EXCEPT ![c] = "idle"]
      /\ tokens' = [a \in Accounts |->
           IF a \in AccountsAround(FrameOf[c]) THEN tokens[a] + n ELSE tokens[a]]
  BY DEF Record, Goto
<1>2. call'[c] = NoCall /\ pc'[c] = "idle" /\ Moved(c)
  BY <1>0, <1>1 DEF Moved
<1>3. NoCall.usage[1] = Zero /\ NoCall.usage[2] = Zero /\ NoCall.reported[1] = 0
  BY DEF NoCall, Levels
<1>4. /\ k.usage[1] = Zero /\ k.usage[2] = Zero /\ k.reported[1] = 0 /\ n \in Nat
  BY <1>0, <1>1, CallParts DEF Covered, Placed
<1>5. Owed(k, "record") = n /\ Owed(NoCall, "idle") = 0
  <2>. HIDE DEF n
  <2>1. Owed(NoCall, "idle") = 0
    BY <1>3, ZeroOK DEF Owed
  <2>2. Owed(k, "record") = 0 + 0 + n
    BY <1>4, ZeroOK DEF Owed, n
  <2>. QED
    BY <1>4, <2>1, <2>2
<1>6. Placed(NoCall, "idle")
  BY <1>3 DEF Placed
<1>. QED
  BY <1>0, <1>1, <1>2, <1>3, <1>4, <1>5, <1>6 DEF Stands

-----------------------------------------------------------------------------
(* The ledger balances: what was burned under an account is recorded or owed *)
(* by a caller, and what is pending is reported by one or returned to a      *)
(* frame.                                                                    *)

ReturnedIn == [f \in Frames |-> PendingOf(returned[f])]

FramesUnder(a) == {f \in Frames : a \in AccountsAround(f)}

BurnedAt(a) ==
  /\ Finite(CallersUnder(a), OwedBy)
  /\ burned[a] = tokens[a] + SumOf(CallersUnder(a), OwedBy)

PendingAt(a) ==
  /\ Finite(CallersUnder(a), ReportedBy) /\ Finite(FramesUnder(a), ReturnedIn)
  /\ pending[a] = SumOf(CallersUnder(a), ReportedBy) + SumOf(FramesUnder(a), ReturnedIn)

BurnedInv == \A a \in Accounts : BurnedAt(a)

PendingInv == \A a \in Accounts : PendingAt(a)

\* The callers and the frames under an account.
LEMMA UnderAre ==
  ASSUME NEW a
  PROVE  /\ CallersUnder(a) \in SUBSET Callers /\ FramesUnder(a) \in SUBSET Frames
         /\ \A c \in Callers : c \in CallersUnder(a) <=> a \in AccountsAround(FrameOf[c])
         /\ \A f \in Frames : f \in FramesUnder(a) <=> a \in AccountsAround(f)
  BY DEF CallersUnder, FramesUnder

\* Where a caller stands after a step is what it owes and has reported; the others are unmoved.
LEMMA StandsAre ==
  ASSUME TypeOK, NEW c \in Callers, NEW x, NEW y, Stands(c, x, y)
  PROVE  /\ OwedBy'[c] = x /\ ReportedBy'[c] = y
         /\ OwedBy[c] \in Nat /\ ReportedBy[c] \in Nat
         /\ \A d \in Callers : d # c => OwedBy'[d] = OwedBy[d] /\ ReportedBy'[d] = ReportedBy[d]
<1>1. call[c] \in CallType
  BY DEF TypeOK
<1>2. OwedBy[c] \in Nat /\ ReportedBy[c] \in Nat
  BY <1>1, OwedTyped DEF OwedBy, ReportedBy
<1>. QED
  BY <1>2 DEF OwedBy, ReportedBy, Stands, Moved

\* Nothing a step leaves in place changes what callers owe or have reported.
LEMMA Unmoved ==
  ASSUME UNCHANGED <<call, pc>>
  PROVE  UNCHANGED <<OwedBy, ReportedBy>>
  BY DEF OwedBy, ReportedBy

\* A step moves one caller, in one of five ways, or none.
LEMMA Moves ==
  ASSUME UniformUsage, TypeOK, CallsCovered, CallsPlaced, [Next]_vars
  PROVE  \/ \E c \in Callers : Keeping(c) \/ AttemptReturns(c) \/ After(c) \/ Finish(c) \/ Record(c)
         \/ UNCHANGED <<tokens, pending, returned, call, pc, burned>>
<1>1. \A c \in Callers : Admit(c) \/ Top(c) \/ WaitEnds(c) \/ Retry(c) => Keeping(c)
  BY KeepingSteps
<1>2. ASSUME NEW r \in Runs, Expire(r)
      PROVE  UNCHANGED <<tokens, pending, returned, call, pc, burned>>
  BY <1>2 DEF Expire, accounting, callerVars, history
<1>3. ASSUME NEW f \in Frames, DeadlineFires(f) \/ Interrupt(f)
      PROVE  UNCHANGED <<tokens, pending, returned, call, pc, burned>>
  BY <1>3 DEF DeadlineFires, Interrupt, accounting, callerVars, history
<1>. QED
  BY <1>1, <1>2, <1>3 DEF Next, CallerStep, vars, accounting, callerVars, history

\* Every step keeps callers between calls owing only what they have yet to record.
LEMMA PlacedStep ==
  ASSUME UniformUsage, TypeOK, CallsCovered, CallsPlaced, [Next]_vars
  PROVE  CallsPlaced'
<1>a. ASSUME NEW c \in Callers, NEW x, NEW y, Stands(c, x, y)
      PROVE  CallsPlaced'
  BY <1>a DEF CallsPlaced, Stands, Moved
<1>1. CASE \E c \in Callers : Keeping(c)
  BY <1>1, <1>a DEF Keeping
<1>2. CASE \E c \in Callers : AttemptReturns(c)
  <2>1. PICK c \in Callers : AttemptReturns(c)
    BY <1>2
  <2>2. PICK n \in Nat : Stands(c, OwedBy[c] + n, ReportedBy[c])
    BY <2>1, BurningStep
  <2>. QED
    BY <1>a, <2>2
<1>3. CASE \E c \in Callers : After(c)
  <2>1. PICK c \in Callers : After(c)
    BY <1>3
  <2>2. PICK n \in Nat : Stands(c, OwedBy[c], ReportedBy[c] + n)
    BY <2>1, ReportingStep
  <2>. QED
    BY <1>a, <2>2
<1>4. CASE \E c \in Callers : Finish(c)
  <2>1. PICK c \in Callers : Finish(c)
    BY <1>4
  <2>2. Stands(c, OwedBy[c], 0)
    BY <2>1, FinishingStep
  <2>. QED
    BY <1>a, <2>2
<1>5. CASE \E c \in Callers : Record(c)
  <2>1. PICK c \in Callers : Record(c)
    BY <1>5
  <2>2. Stands(c, 0, 0)
    BY <2>1, RecordingStep
  <2>. QED
    BY <1>a, <2>2
<1>6. CASE UNCHANGED <<call, pc>>
  BY <1>6 DEF CallsPlaced
<1>. QED
  BY <1>1, <1>2, <1>3, <1>4, <1>5, <1>6, Moves

\* Every token burned is recorded or owed, after every step.
LEMMA BurnedStep ==
  ASSUME UniformUsage, TypeOK, CallsCovered, CallsPlaced, BurnedInv, [Next]_vars
  PROVE  BurnedInv'
<1>. SUFFICES ASSUME NEW a \in Accounts PROVE BurnedAt(a)'
  BY DEF BurnedInv
<1>. DEFINE S == CallersUnder(a)
<1>0. /\ S \in SUBSET Callers
      /\ \A c \in Callers : c \in S <=> a \in AccountsAround(FrameOf[c])
      /\ Finite(S, OwedBy) /\ burned[a] = tokens[a] + SumOf(S, OwedBy)
      /\ tokens[a] \in Nat /\ SumOf(S, OwedBy) \in Nat
  BY UnderAre, SumInNat DEF BurnedInv, BurnedAt, TypeOK
<1>b. ASSUME Finite(S, OwedBy'), burned'[a] = tokens'[a] + SumOf(S, OwedBy')
      PROVE  BurnedAt(a)'
  BY <1>b DEF BurnedAt, CallersUnder
<1>. HIDE DEF S
<1>a. ASSUME NEW c \in Callers, NEW n, Bumped(Callers, OwedBy, OwedBy', c, n),
             tokens'[a] = tokens[a], burned'[a] = burned[a] + (IF c \in S THEN n ELSE 0)
      PROVE  BurnedAt(a)'
  <2>1. n \in Nat
    BY <1>a DEF Bumped
  <2>2. Finite(S, OwedBy') /\ SumOf(S, OwedBy') = SumOf(S, OwedBy) + (IF c \in S THEN n ELSE 0)
    <3>1. Bumped(S, OwedBy, OwedBy', c, n) /\ Finite(S, OwedBy)
      BY <1>0, <1>a DEF Bumped
    <3>. QED
      BY <3>1, SumFollowsUp
  <2>. QED
    BY <1>0, <1>a, <1>b, <2>1, <2>2
<1>1. ASSUME NEW c \in Callers, Stands(c, OwedBy[c], ReportedBy'[c]), UNCHANGED <<tokens, burned>>
      PROVE  BurnedAt(a)'
  <2>1. Bumped(Callers, OwedBy, OwedBy', c, 0)
    BY <1>1, StandsAre DEF Bumped
  <2>2. burned'[a] = burned[a] + (IF c \in S THEN 0 ELSE 0)
    BY <1>0, <1>1
  <2>. QED
    BY <1>1, <1>a, <2>1, <2>2
<1>2. ASSUME NEW c \in Callers, AttemptReturns(c)
      PROVE  BurnedAt(a)'
  <2>1. PICK n \in Nat :
          /\ Stands(c, OwedBy[c] + n, ReportedBy[c])
          /\ burned' = [b \in Accounts |->
               IF b \in AccountsAround(FrameOf[c]) THEN burned[b] + n ELSE burned[b]]
          /\ UNCHANGED tokens
    BY <1>2, BurningStep
  <2>2. Bumped(Callers, OwedBy, OwedBy', c, n)
    BY <2>1, StandsAre DEF Bumped
  <2>3. burned'[a] = burned[a] + (IF c \in S THEN n ELSE 0)
    BY <1>0, <2>1
  <2>. QED
    BY <1>a, <2>1, <2>2, <2>3
<1>3. ASSUME NEW c \in Callers, Record(c)
      PROVE  BurnedAt(a)'
  <2>. DEFINE n == UsageTokens(call[c].result.usage)
  <2>1. /\ Stands(c, 0, 0) /\ OwedBy[c] = n /\ n \in Nat
        /\ tokens' = [b \in Accounts |->
             IF b \in AccountsAround(FrameOf[c]) THEN tokens[b] + n ELSE tokens[b]]
        /\ UNCHANGED burned
    BY <1>3, RecordingStep
  <2>. HIDE DEF n
  <2>2. Bumped(Callers, OwedBy', OwedBy, c, n)
    BY <2>1, StandsAre DEF Bumped
  <2>3. Finite(S, OwedBy') /\ SumOf(S, OwedBy') = SumOf(S, OwedBy) - (IF c \in S THEN n ELSE 0)
    <3>1. Bumped(S, OwedBy', OwedBy, c, n) /\ Finite(S, OwedBy)
      BY <1>0, <2>2 DEF Bumped
    <3>. QED
      BY <3>1, SumFollowsDown
  <2>4. tokens'[a] = tokens[a] + (IF c \in S THEN n ELSE 0)
    BY <1>0, <2>1
  <2>. QED
    BY <1>0, <1>b, <2>1, <2>3, <2>4
<1>4. CASE \E c \in Callers : Keeping(c)
  <2>1. PICK c \in Callers : Keeping(c)
    BY <1>4
  <2>2. Stands(c, OwedBy[c], ReportedBy'[c])
    BY <2>1, StandsAre DEF Keeping
  <2>. QED
    BY <1>1, <2>1, <2>2 DEF Keeping
<1>5. CASE \E c \in Callers : After(c)
  <2>1. PICK c \in Callers : After(c)
    BY <1>5
  <2>2. PICK n \in Nat : Stands(c, OwedBy[c], ReportedBy[c] + n) /\ UNCHANGED <<tokens, burned>>
    BY <2>1, ReportingStep
  <2>3. Stands(c, OwedBy[c], ReportedBy'[c])
    BY <2>2, StandsAre
  <2>. QED
    BY <1>1, <2>2, <2>3
<1>6. CASE \E c \in Callers : Finish(c)
  <2>1. PICK c \in Callers : Finish(c)
    BY <1>6
  <2>2. Stands(c, OwedBy[c], 0) /\ UNCHANGED <<tokens, burned>>
    BY <2>1, FinishingStep
  <2>3. Stands(c, OwedBy[c], ReportedBy'[c])
    BY <2>2, StandsAre
  <2>. QED
    BY <1>1, <2>2, <2>3
<1>7. CASE UNCHANGED <<tokens, call, pc, burned>>
  <2>1. UNCHANGED OwedBy
    BY <1>7, Unmoved
  <2>. QED
    BY <1>0, <1>7, <1>b, <2>1
<1>. QED
  BY <1>2, <1>3, <1>4, <1>5, <1>6, <1>7, Moves

FiniteReturned(s) == FinitePend(s) /\ \A n \in Nat : FiniteHaving(s, n)

ReturnedFinite == \A f \in Frames : FiniteReturned(returned[f])

\* The returned calls of a frame have a number of pending tokens, and so many have n tokens.
LEMMA ReturnedCounts ==
  ASSUME NEW s, FiniteReturned(s)
  PROVE  PendingOf(s) \in Nat /\ \A n \in Nat : HowMany(s, n) \in Nat
  BY SumInNat DEF FiniteReturned, FinitePend, FiniteHaving, PendingOf, HowMany

\* A finished call leaves its reported tokens with its frame, as one more call of its tokens.
LEMMA FinishReturns ==
  ASSUME TypeOK, ReturnedFinite, NEW c \in Callers, Finish(c)
  PROVE  /\ ReturnedFinite'
         /\ Bumped(Frames, ReturnedIn, ReturnedIn', FrameOf[c], ReportedBy[c])
         /\ \A g \in Frames, n \in Nat :
              HowMany(returned'[g], n) <= HowMany(returned[g], n)
                + (IF g = FrameOf[c] /\ n = UsageTokens(call[c].usage[1]) THEN 1 ELSE 0)
<1>. DEFINE f == FrameOf[c]
            k == call[c]
            e == [tokens |-> UsageTokens(k.usage[1]), pending |-> k.reported[1]]
            s == returned[f]
<1>0. /\ returned \in [Frames -> Seq(ReturnedCall)] /\ f \in Frames /\ s \in Seq(ReturnedCall)
      /\ k \in CallType /\ ReportedBy[c] = k.reported[1]
  BY FramesAssumption DEF TypeOK, ReportedBy
<1>1. k.reported[1] \in Nat /\ UsageTokens(k.usage[1]) \in Nat
  BY <1>0, CallParts DEF Levels
<1>2. e \in ReturnedCall /\ e.pending = k.reported[1] /\ e.tokens = UsageTokens(k.usage[1])
  BY <1>1 DEF ReturnedCall
<1>3. returned' = IF k.reported[1] > 0 THEN [returned EXCEPT ![f] = Append(@, e)] ELSE returned
  BY DEF Finish
<1>4. \A g \in Frames : /\ FiniteReturned(returned[g])
                        /\ PendingOf(returned[g]) \in Nat
                        /\ \A n \in Nat : HowMany(returned[g], n) \in Nat
  BY ReturnedCounts DEF ReturnedFinite
<1>. HIDE DEF e, f, k
<1>5. CASE ~(k.reported[1] > 0)
  <2>1. returned' = returned /\ k.reported[1] = 0
    BY <1>1, <1>3, <1>5
  <2>2. ReturnedFinite'
    BY <2>1 DEF ReturnedFinite
  <2>3. Bumped(Frames, ReturnedIn, ReturnedIn', f, ReportedBy[c])
    BY <1>0, <1>4, <2>1 DEF Bumped, ReturnedIn
  <2>4. \A g \in Frames, n \in Nat :
          HowMany(returned'[g], n) <= HowMany(returned[g], n)
            + (IF g = f /\ n = UsageTokens(k.usage[1]) THEN 1 ELSE 0)
    BY <1>4, <2>1
  <2>. QED
    BY <2>2, <2>3, <2>4 DEF f, k
<1>6. CASE k.reported[1] > 0
  <2>. DEFINE t == Append(s, e)
  <2>1. returned'[f] = t /\ \A g \in Frames : g # f => returned'[g] = returned[g]
    BY <1>0, <1>3, <1>6
  <2>2. FinitePend(s) /\ \A n \in Nat : FiniteHaving(s, n)
    BY <1>0, <1>4 DEF FiniteReturned
  <2>3. ASSUME NEW n \in Nat
        PROVE  /\ FinitePend(t) /\ PendingOf(t) = PendingOf(s) + e.pending
               /\ FiniteHaving(t, n) /\ HowMany(t, n) = HowMany(s, n) + One(e, n)
    <3>. HIDE DEF s
    <3>. QED
      BY <1>0, <1>2, <2>2, AppendAdds
  <2>. HIDE DEF t
  <2>4. FinitePend(t) /\ PendingOf(t) = PendingOf(s) + k.reported[1]
    <3>1. 0 \in Nat
      OBVIOUS
    <3>. QED
      BY <1>2, <2>3, <3>1
  <2>5. ReturnedFinite'
    <3>1. FiniteReturned(t)
      BY <2>3, <2>4 DEF FiniteReturned
    <3>2. \A g \in Frames : FiniteReturned(returned'[g])
      BY <1>4, <2>1, <3>1
    <3>. QED
      BY <3>2 DEF ReturnedFinite, FiniteReturned, FinitePend, FiniteHaving, Pend, Having
  <2>6. Bumped(Frames, ReturnedIn, ReturnedIn', f, ReportedBy[c])
    <3>1. ReturnedIn' = [g \in Frames |-> PendingOf(returned'[g])]
      BY DEF ReturnedIn, PendingOf, Pend
    <3>. QED
      BY <1>0, <1>1, <1>4, <2>1, <2>4, <3>1 DEF Bumped, ReturnedIn
  <2>7. ASSUME NEW g \in Frames, NEW n \in Nat
        PROVE  HowMany(returned'[g], n) <= HowMany(returned[g], n)
                 + (IF g = f /\ n = UsageTokens(k.usage[1]) THEN 1 ELSE 0)
    <3>1. CASE g = f
      BY <1>2, <1>4, <2>1, <2>3, <3>1 DEF One
    <3>2. CASE g # f
      BY <1>4, <2>1, <3>2
    <3>. QED
      BY <3>1, <3>2
  <2>. QED
    BY <2>5, <2>6, <2>7 DEF f, k
<1>. QED
  BY <1>5, <1>6

\* Recording takes the pending tokens of a returned call with the same tokens off its accounts
\* and its frame, if there is such a call.
LEMMA RecordSettles ==
  ASSUME TypeOK, ReturnedFinite, NEW c \in Callers, Record(c)
  PROVE  LET f == FrameOf[c]
             v == UsageTokens(call[c].result.usage)
         IN /\ ReturnedFinite'
            /\ \E m \in Nat :
                 /\ Bumped(Frames, ReturnedIn', ReturnedIn, f, m)
                 /\ pending' = [a \in Accounts |->
                      IF a \in AccountsAround(f) THEN pending[a] - m ELSE pending[a]]
            /\ \A g \in Frames, n \in Nat :
                 IF g = f /\ n = v
                 THEN HowMany(returned'[g], n) \in {0, HowMany(returned[g], n) - 1}
                 ELSE HowMany(returned'[g], n) = HowMany(returned[g], n)
<1>. DEFINE f == FrameOf[c]
            v == UsageTokens(call[c].result.usage)
            s == returned[f]
            match == Settleable(f, v)
            i == Min(match)
            settled == IF match = {} THEN 0 ELSE s[i].pending
<1>0. /\ returned \in [Frames -> Seq(ReturnedCall)] /\ f \in Frames /\ s \in Seq(ReturnedCall)
      /\ v \in Nat /\ pending \in [Accounts -> Int]
  BY FramesAssumption, CallParts DEF TypeOK
<1>1. /\ returned' = IF match = {} THEN returned
                     ELSE [returned EXCEPT ![f] = RemoveAt(@, i)]
      /\ pending' = [a \in Accounts |->
           IF a \in AccountsAround(f) THEN pending[a] - settled ELSE pending[a]]
  BY DEF Record
<1>2. match \subseteq DOMAIN s /\ \A j \in DOMAIN s : j \in match <=> s[j].tokens = v
  BY DEF Settleable
<1>3. match # {} => i \in DOMAIN s /\ s[i].tokens = v
  <2>1. match \in SUBSET Nat
    BY <1>0, <1>2
  <2>2. match # {} => i \in match
    <3>. HIDE DEF match
    <3>. QED
      BY <2>1, MinIn
  <2>. QED
    BY <1>2, <2>2
<1>4. \A g \in Frames : /\ FiniteReturned(returned[g])
                        /\ PendingOf(returned[g]) \in Nat
                        /\ \A n \in Nat : HowMany(returned[g], n) \in Nat
  BY ReturnedCounts DEF ReturnedFinite
<1>. HIDE DEF f, v, match, i
<1>5. CASE match = {}
  <2>1. returned' = returned /\ settled = 0
    BY <1>1, <1>5
  <2>2. ReturnedFinite'
    BY <2>1 DEF ReturnedFinite
  <2>3. Bumped(Frames, ReturnedIn', ReturnedIn, f, settled) /\ settled \in Nat
    <3>1. ReturnedIn' = ReturnedIn /\ ReturnedIn[f] \in Nat
      BY <1>0, <1>4, <2>1 DEF ReturnedIn
    <3>2. settled = 0
      BY <2>1
    <3>. HIDE DEF settled
    <3>. QED
      BY <3>1, <3>2 DEF Bumped
  <2>4. HowMany(s, v) = 0
    <3>1. \A j \in 1..Len(s) : Having(s, v)[j] = 0
      BY <1>0, <1>2, <1>5 DEF Having
    <3>. QED
      BY <3>1, SumOfZeros DEF HowMany
  <2>. HIDE DEF settled
  <2>. QED
    BY <1>1, <1>4, <2>1, <2>2, <2>3, <2>4 DEF f, v
<1>6. CASE match # {}
  <2>. DEFINE t == RemoveAt(s, i)
  <2>1. returned'[f] = t /\ \A g \in Frames : g # f => returned'[g] = returned[g]
    BY <1>0, <1>1, <1>6
  <2>2. FinitePend(s) /\ \A n \in Nat : FiniteHaving(s, n)
    BY <1>0, <1>4 DEF FiniteReturned
  <2>3. s[i] \in ReturnedCall /\ settled = s[i].pending /\ settled \in Nat
    <3>1. s[i] \in ReturnedCall
      BY <1>0, <1>3, <1>6
    <3>. QED
      BY <1>6, <3>1 DEF ReturnedCall
  <2>4. ASSUME NEW n \in Nat
        PROVE  /\ FinitePend(t) /\ PendingOf(t) = PendingOf(s) - s[i].pending
               /\ FiniteHaving(t, n) /\ HowMany(t, n) = HowMany(s, n) - One(s[i], n)
    <3>. HIDE DEF s
    <3>. QED
      BY <1>0, <1>3, <1>6, <2>2, RemoveTakes
  <2>. HIDE DEF t, settled
  <2>5. FinitePend(t) /\ PendingOf(t) = PendingOf(s) - settled
    <3>1. 0 \in Nat
      OBVIOUS
    <3>. QED
      BY <2>3, <2>4, <3>1
  <2>6. ReturnedFinite' /\ \A g \in Frames : FiniteReturned(returned'[g])
    <3>1. FiniteReturned(t)
      BY <2>4, <2>5 DEF FiniteReturned
    <3>2. \A g \in Frames : FiniteReturned(returned'[g])
      BY <1>4, <2>1, <3>1
    <3>. QED
      BY <3>2 DEF ReturnedFinite, FiniteReturned, FinitePend, FiniteHaving, Pend, Having
  <2>7. Bumped(Frames, ReturnedIn', ReturnedIn, f, settled)
    <3>1. ReturnedIn' = [g \in Frames |-> PendingOf(returned'[g])]
      BY DEF ReturnedIn, PendingOf, Pend
    <3>2. PendingOf(t) \in Nat /\ PendingOf(s) = PendingOf(t) + settled
      <4>1. FiniteReturned(t)
        BY <1>0, <2>1, <2>6
      <4>2. PendingOf(t) \in Nat
        BY <4>1, ReturnedCounts
      <4>3. PendingOf(s) \in Nat
        BY <1>0, <1>4
      <4>. HIDE DEF s
      <4>. QED
        BY <2>3, <2>5, <4>2, <4>3
    <3>. QED
      BY <1>0, <2>1, <2>3, <3>1, <3>2 DEF Bumped, ReturnedIn
  <2>8. ASSUME NEW g \in Frames, NEW n \in Nat
        PROVE  IF g = f /\ n = v
               THEN HowMany(returned'[g], n) \in {0, HowMany(returned[g], n) - 1}
               ELSE HowMany(returned'[g], n) = HowMany(returned[g], n)
    <3>1. CASE g = f
      <4>1. HowMany(t, n) = HowMany(s, n) - One(s[i], n)
        BY <2>4
      <4>2. One(s[i], n) = IF n = v THEN 1 ELSE 0
        BY <1>3, <1>6 DEF One
      <4>. QED
        BY <1>4, <2>1, <3>1, <4>1, <4>2
    <3>2. CASE g # f
      BY <2>1, <3>2
    <3>. QED
      BY <3>1, <3>2
  <2>. QED
    BY <1>1, <2>3, <2>6, <2>7, <2>8 DEF f, v
<1>. QED
  BY <1>5, <1>6

\* Every pending token is reported by a caller or returned to a frame, after every step.
LEMMA PendingStep ==
  ASSUME UniformUsage, TypeOK, CallsCovered, CallsPlaced, ReturnedFinite, PendingInv, [Next]_vars
  PROVE  PendingInv'
<1>. SUFFICES ASSUME NEW a \in Accounts PROVE PendingAt(a)'
  BY DEF PendingInv
<1>. DEFINE S == CallersUnder(a)
            F == FramesUnder(a)
<1>0. /\ S \in SUBSET Callers /\ F \in SUBSET Frames
      /\ \A c \in Callers : c \in S <=> a \in AccountsAround(FrameOf[c])
      /\ \A f \in Frames : f \in F <=> a \in AccountsAround(f)
      /\ Finite(S, ReportedBy) /\ Finite(F, ReturnedIn)
      /\ pending[a] = SumOf(S, ReportedBy) + SumOf(F, ReturnedIn)
      /\ SumOf(S, ReportedBy) \in Nat /\ SumOf(F, ReturnedIn) \in Nat
      /\ pending \in [Accounts -> Int] /\ \A c \in Callers : FrameOf[c] \in Frames
  BY UnderAre, SumInNat, FramesAssumption DEF PendingInv, PendingAt, TypeOK
<1>b. ASSUME Finite(S, ReportedBy'), Finite(F, ReturnedIn'),
             pending'[a] = SumOf(S, ReportedBy') + SumOf(F, ReturnedIn')
      PROVE  PendingAt(a)'
  BY <1>b DEF PendingAt, CallersUnder, FramesUnder
<1>. HIDE DEF S, F
<1>a. ASSUME NEW c \in Callers, NEW n, Bumped(Callers, ReportedBy, ReportedBy', c, n),
             UNCHANGED returned, pending'[a] = pending[a] + (IF c \in S THEN n ELSE 0)
      PROVE  PendingAt(a)'
  <2>1. n \in Nat
    BY <1>a DEF Bumped
  <2>2. /\ Finite(S, ReportedBy')
        /\ SumOf(S, ReportedBy') = SumOf(S, ReportedBy) + (IF c \in S THEN n ELSE 0)
    <3>1. Bumped(S, ReportedBy, ReportedBy', c, n) /\ Finite(S, ReportedBy)
      BY <1>0, <1>a DEF Bumped
    <3>. QED
      BY <3>1, SumFollowsUp
  <2>3. ReturnedIn' = ReturnedIn
    BY <1>a DEF ReturnedIn
  <2>. QED
    BY <1>0, <1>a, <1>b, <2>1, <2>2, <2>3
<1>1. CASE \E c \in Callers : Keeping(c)
  <2>1. PICK c \in Callers : Keeping(c)
    BY <1>1
  <2>2. Stands(c, OwedBy[c], ReportedBy[c]) /\ UNCHANGED <<pending, returned>>
    BY <2>1 DEF Keeping
  <2>3. Bumped(Callers, ReportedBy, ReportedBy', c, 0)
    BY <2>2, StandsAre DEF Bumped
  <2>. QED
    BY <1>0, <1>a, <2>2, <2>3
<1>2. CASE \E c \in Callers : AttemptReturns(c)
  <2>1. PICK c \in Callers : AttemptReturns(c)
    BY <1>2
  <2>2. PICK n \in Nat :
          Stands(c, OwedBy[c] + n, ReportedBy[c]) /\ UNCHANGED <<pending, returned>>
    BY <2>1, BurningStep
  <2>3. Bumped(Callers, ReportedBy, ReportedBy', c, 0)
    BY <2>2, StandsAre DEF Bumped
  <2>. QED
    BY <1>0, <1>a, <2>2, <2>3
<1>3. CASE \E c \in Callers : After(c)
  <2>1. PICK c \in Callers : After(c)
    BY <1>3
  <2>2. PICK n \in Nat :
          /\ Stands(c, OwedBy[c], ReportedBy[c] + n)
          /\ pending' = [b \in Accounts |->
               IF b \in AccountsAround(FrameOf[c]) THEN pending[b] + n ELSE pending[b]]
          /\ UNCHANGED returned
    BY <2>1, ReportingStep
  <2>3. Bumped(Callers, ReportedBy, ReportedBy', c, n)
    BY <2>2, StandsAre DEF Bumped
  <2>4. pending'[a] = pending[a] + (IF c \in S THEN n ELSE 0)
    BY <1>0, <2>2
  <2>. QED
    BY <1>a, <2>2, <2>3, <2>4
<1>4. CASE \E c \in Callers : Finish(c)
  <2>1. PICK c \in Callers : Finish(c)
    BY <1>4
  <2>. DEFINE f == FrameOf[c]
  <2>2. Stands(c, OwedBy[c], 0) /\ UNCHANGED pending
    BY <2>1, FinishingStep
  <2>3. PICK n \in Nat : n = ReportedBy[c]
    BY <2>2, StandsAre
  <2>4. Bumped(Callers, ReportedBy', ReportedBy, c, n)
    BY <2>2, <2>3, StandsAre DEF Bumped
  <2>5. Bumped(Frames, ReturnedIn, ReturnedIn', f, n)
    BY <2>1, <2>3, FinishReturns
  <2>. HIDE DEF f
  <2>6. /\ Finite(S, ReportedBy')
        /\ SumOf(S, ReportedBy') = SumOf(S, ReportedBy) - (IF c \in S THEN n ELSE 0)
    <3>1. Bumped(S, ReportedBy', ReportedBy, c, n) /\ Finite(S, ReportedBy)
      BY <1>0, <2>4 DEF Bumped
    <3>. QED
      BY <3>1, SumFollowsDown
  <2>7. /\ Finite(F, ReturnedIn')
        /\ SumOf(F, ReturnedIn') = SumOf(F, ReturnedIn) + (IF f \in F THEN n ELSE 0)
    <3>1. Bumped(F, ReturnedIn, ReturnedIn', f, n) /\ Finite(F, ReturnedIn)
      BY <1>0, <2>5 DEF Bumped
    <3>. QED
      BY <3>1, SumFollowsUp
  <2>8. c \in S <=> f \in F
    BY <1>0 DEF f
  <2>. QED
    BY <1>0, <1>b, <2>2, <2>4, <2>6, <2>7, <2>8
<1>5. CASE \E c \in Callers : Record(c)
  <2>1. PICK c \in Callers : Record(c)
    BY <1>5
  <2>. DEFINE f == FrameOf[c]
  <2>2. Stands(c, 0, 0) /\ ReportedBy[c] = 0
    BY <2>1, RecordingStep
  <2>3. PICK m \in Nat :
          /\ Bumped(Frames, ReturnedIn', ReturnedIn, f, m)
          /\ pending' = [b \in Accounts |->
               IF b \in AccountsAround(f) THEN pending[b] - m ELSE pending[b]]
    BY <2>1, RecordSettles
  <2>4. Bumped(Callers, ReportedBy, ReportedBy', c, 0)
    BY <2>2, StandsAre DEF Bumped
  <2>5. f \in Frames
    BY <1>0
  <2>. HIDE DEF f
  <2>6. Finite(S, ReportedBy') /\ SumOf(S, ReportedBy') = SumOf(S, ReportedBy)
    <3>1. /\ Bumped(S, ReportedBy, ReportedBy', c, 0)
          /\ Finite(S, ReportedBy) /\ SumOf(S, ReportedBy) \in Nat
      BY <1>0, <2>4 DEF Bumped
    <3>2. /\ Finite(S, ReportedBy')
          /\ SumOf(S, ReportedBy') = SumOf(S, ReportedBy) + (IF c \in S THEN 0 ELSE 0)
      BY <3>1, SumFollowsUp
    <3>. QED
      BY <3>1, <3>2
  <2>7. /\ Finite(F, ReturnedIn')
        /\ SumOf(F, ReturnedIn') = SumOf(F, ReturnedIn) - (IF f \in F THEN m ELSE 0)
    <3>1. Bumped(F, ReturnedIn', ReturnedIn, f, m) /\ Finite(F, ReturnedIn)
      BY <1>0, <2>3 DEF Bumped
    <3>. QED
      BY <3>1, SumFollowsDown
  <2>8. pending'[a] = pending[a] - (IF f \in F THEN m ELSE 0)
    BY <1>0, <2>3, <2>5
  <2>. QED
    BY <1>0, <1>b, <2>6, <2>7, <2>8
<1>6. CASE UNCHANGED <<pending, returned, call, pc>>
  <2>1. UNCHANGED <<ReportedBy, ReturnedIn>>
    BY <1>6, Unmoved DEF ReturnedIn
  <2>. QED
    BY <1>0, <1>6, <1>b, <2>1
<1>. QED
  BY <1>1, <1>2, <1>3, <1>4, <1>5, <1>6, Moves

-----------------------------------------------------------------------------
(* No returned call is left behind: a frame has no more returned calls of n  *)
(* tokens than callers about to record n tokens under it.                    *)

RecordingAt(f, n, c) ==
  FrameOf[c] = f /\ pc[c] = "record" /\ UsageTokens(call[c].result.usage) = n

RecordingBy(f, n) == [c \in Callers |-> IF RecordingAt(f, n, c) THEN 1 ELSE 0]

EntriesAt(f, n) ==
  /\ Finite(Callers, RecordingBy(f, n))
  /\ HowMany(returned[f], n) <= SumOf(Callers, RecordingBy(f, n))

EntriesInv == ReturnedFinite /\ \A f \in Frames, n \in Nat : EntriesAt(f, n)

\* Every step leaves a caller to record every returned call.
LEMMA EntriesStep ==
  ASSUME UniformUsage, TypeOK, CallsCovered, CallsPlaced, EntriesInv, [Next]_vars
  PROVE  EntriesInv'
<1>0. ReturnedFinite /\ (\A f \in Frames, n \in Nat : EntriesAt(f, n))
  BY DEF EntriesInv
<1>1. \A f \in Frames, n \in Nat :
        /\ Finite(Callers, RecordingBy(f, n)) /\ SumOf(Callers, RecordingBy(f, n)) \in Nat
        /\ HowMany(returned[f], n) \in Nat
        /\ HowMany(returned[f], n) <= SumOf(Callers, RecordingBy(f, n))
  BY <1>0, SumInNat, ReturnedCounts DEF EntriesAt, ReturnedFinite
<1>b. ASSUME NEW f \in Frames, NEW n \in Nat, Finite(Callers, RecordingBy(f, n)'),
             HowMany(returned'[f], n) <= SumOf(Callers, RecordingBy(f, n)')
      PROVE  EntriesAt(f, n)'
  <2>1. HowMany(returned[f], n)' = HowMany(returned'[f], n)
    BY DEF HowMany, Having
  <2>. QED
    BY <1>b, <2>1 DEF EntriesAt
<1>a. ASSUME UNCHANGED returned, \A f \in Frames, n \in Nat : RecordingBy(f, n)' = RecordingBy(f, n)
      PROVE  EntriesInv'
  <2>1. \A f \in Frames, n \in Nat : EntriesAt(f, n)'
    BY <1>1, <1>a, <1>b
  <2>. QED
    BY <1>0, <1>a, <2>1 DEF EntriesInv, ReturnedFinite
<1>c. ASSUME NEW c \in Callers, Moved(c), pc[c] # "record", pc'[c] # "record", UNCHANGED returned
      PROVE  EntriesInv'
  <2>1. ASSUME NEW f \in Frames, NEW n \in Nat
        PROVE  RecordingBy(f, n)' = RecordingBy(f, n)
    <3>1. \A d \in Callers : RecordingAt(f, n, d)' <=> RecordingAt(f, n, d)
      BY <1>c DEF RecordingAt, Moved
    <3>. QED
      BY <3>1 DEF RecordingBy
  <2>. QED
    BY <1>a, <1>c, <2>1
<1>2. CASE \E c \in Callers : Keeping(c)
  BY <1>2, <1>c DEF Keeping, Stands
<1>3. CASE \E c \in Callers : AttemptReturns(c)
  <2>1. PICK c \in Callers : AttemptReturns(c)
    BY <1>3
  <2>2. PICK n \in Nat :
          /\ Stands(c, OwedBy[c] + n, ReportedBy[c])
          /\ pc[c] # "record" /\ pc'[c] # "record" /\ UNCHANGED returned
    BY <2>1, BurningStep
  <2>. QED
    BY <1>c, <2>2 DEF Stands
<1>4. CASE \E c \in Callers : After(c)
  <2>1. PICK c \in Callers : After(c)
    BY <1>4
  <2>2. PICK n \in Nat :
          /\ Stands(c, OwedBy[c], ReportedBy[c] + n)
          /\ pc[c] # "record" /\ pc'[c] # "record" /\ UNCHANGED returned
    BY <2>1, ReportingStep
  <2>. QED
    BY <1>c, <2>2 DEF Stands
<1>5. CASE \E c \in Callers : Finish(c)
  <2>1. PICK c \in Callers : Finish(c)
    BY <1>5
  <2>. DEFINE v == UsageTokens(call[c].usage[1])
  <2>2. /\ Moved(c) /\ pc[c] = "finish" /\ pc'[c] = "record"
        /\ UsageTokens(call'[c].result.usage) = v
    BY <2>1, FinishingStep DEF Stands
  <2>3. /\ ReturnedFinite'
        /\ \A g \in Frames, n \in Nat :
             HowMany(returned'[g], n) <= HowMany(returned[g], n)
               + (IF g = FrameOf[c] /\ n = v THEN 1 ELSE 0)
    BY <1>0, <2>1, FinishReturns
  <2>. HIDE DEF v
  <2>4. ASSUME NEW g \in Frames, NEW n \in Nat
        PROVE  EntriesAt(g, n)'
    <3>. DEFINE m == IF g = FrameOf[c] /\ n = v THEN 1 ELSE 0
                p == RecordingBy(g, n)
                q == RecordingBy(g, n)'
    <3>1. Bumped(Callers, p, q, c, m)
      <4>1. p[c] = 0 /\ q[c] = m
        BY <2>2 DEF RecordingBy, RecordingAt
      <4>2. \A d \in Callers : d # c => q[d] = p[d]
        BY <2>2 DEF RecordingBy, RecordingAt, Moved
      <4>. HIDE DEF p, q
      <4>. QED
        BY <4>1, <4>2 DEF Bumped
    <3>2. Finite(Callers, p) /\ SumOf(Callers, p) \in Nat
      BY <1>1
    <3>3. HowMany(returned'[g], n) <= HowMany(returned[g], n) + m
      BY <2>3
    <3>4. HowMany(returned[g], n) \in Nat /\ HowMany(returned[g], n) <= SumOf(Callers, p)
      BY <1>1
    <3>5. HowMany(returned'[g], n) \in Nat
      BY <2>3, ReturnedCounts DEF ReturnedFinite, FiniteReturned, FinitePend, FiniteHaving, Pend, Having
    <3>6. m \in Nat
      OBVIOUS
    <3>. HIDE DEF p, q, m
    <3>7. Finite(Callers, q) /\ SumOf(Callers, q) = SumOf(Callers, p) + (IF c \in Callers THEN m ELSE 0)
      BY <3>1, <3>2, SumFollowsUp
    <3>8. HowMany(returned'[g], n) <= SumOf(Callers, q)
      BY <3>2, <3>3, <3>4, <3>5, <3>6, <3>7
    <3>. QED
      BY <1>b, <3>7, <3>8 DEF q
  <2>. QED
    BY <2>3, <2>4 DEF EntriesInv
<1>6. CASE \E c \in Callers : Record(c)
  <2>1. PICK c \in Callers : Record(c)
    BY <1>6
  <2>. DEFINE v == UsageTokens(call[c].result.usage)
  <2>2. Moved(c) /\ pc[c] = "record" /\ pc'[c] = "idle"
    BY <2>1, RecordingStep DEF Stands
  <2>3. /\ ReturnedFinite'
        /\ \A g \in Frames, n \in Nat :
             IF g = FrameOf[c] /\ n = v
             THEN HowMany(returned'[g], n) \in {0, HowMany(returned[g], n) - 1}
             ELSE HowMany(returned'[g], n) = HowMany(returned[g], n)
    BY <1>0, <2>1, RecordSettles
  <2>. HIDE DEF v
  <2>4. ASSUME NEW g \in Frames, NEW n \in Nat
        PROVE  EntriesAt(g, n)'
    <3>. DEFINE m == IF g = FrameOf[c] /\ n = v THEN 1 ELSE 0
                p == RecordingBy(g, n)
                q == RecordingBy(g, n)'
    <3>1. Bumped(Callers, q, p, c, m)
      <4>1. p[c] = m /\ q[c] = 0
        BY <2>2 DEF RecordingBy, RecordingAt, v
      <4>2. \A d \in Callers : d # c => q[d] = p[d]
        BY <2>2 DEF RecordingBy, RecordingAt, Moved
      <4>. HIDE DEF p, q
      <4>. QED
        BY <4>1, <4>2 DEF Bumped
    <3>2. Finite(Callers, p) /\ SumOf(Callers, p) \in Nat
      BY <1>1
    <3>3. HowMany(returned[g], n) \in Nat /\ HowMany(returned[g], n) <= SumOf(Callers, p)
      BY <1>1
    <3>4. IF m = 1 THEN HowMany(returned'[g], n) \in {0, HowMany(returned[g], n) - 1}
          ELSE HowMany(returned'[g], n) = HowMany(returned[g], n)
      BY <2>3
    <3>5. m \in {0, 1}
      OBVIOUS
    <3>. HIDE DEF p, q, m
    <3>6. Finite(Callers, q) /\ SumOf(Callers, q) = SumOf(Callers, p) - (IF c \in Callers THEN m ELSE 0)
      BY <3>1, <3>2, SumFollowsDown
    <3>7. SumOf(Callers, q) \in Nat
      BY <3>6, SumInNat
    <3>8. HowMany(returned'[g], n) <= SumOf(Callers, q)
      BY <3>2, <3>3, <3>4, <3>5, <3>6, <3>7
    <3>. QED
      BY <1>b, <3>6, <3>8 DEF q
  <2>. QED
    BY <2>3, <2>4 DEF EntriesInv
<1>7. CASE UNCHANGED <<returned, call, pc>>
  BY <1>7, <1>a DEF RecordingBy, RecordingAt
<1>. QED
  BY <1>2, <1>3, <1>4, <1>5, <1>6, <1>7, Moves

-----------------------------------------------------------------------------
(* Every attempt is admitted: a caller at the top of the loop has been       *)
(* admitted once more than it has reached the model.                         *)

AtTop == [c \in Callers |-> IF pc[c] = "top" THEN 1 ELSE 0]

TicketsAt(r) ==
  /\ Finite(CallersUnder(r), AtTop)
  /\ attempts[r] + SumOf(CallersUnder(r), AtTop) <= calls[r]

TicketsInv == \A r \in Runs : TicketsAt(r)

\* A caller that moves between places other than the top leaves those at the top as they were.
LEMMA LeavesTop ==
  ASSUME TypeOK, NEW c \in Callers, Moved(c)
  PROVE  /\ pc[c] # "top" /\ pc'[c] = "top" => Bumped(Callers, AtTop, AtTop', c, 1)
         /\ pc[c] = "top" /\ pc'[c] # "top" => Bumped(Callers, AtTop', AtTop, c, 1)
         /\ (pc[c] = "top" <=> pc'[c] = "top") => AtTop' = AtTop
<1>1. \A d \in Callers : d # c => AtTop'[d] = AtTop[d]
  BY DEF AtTop, Moved
<1>2. /\ AtTop[c] = (IF pc[c] = "top" THEN 1 ELSE 0)
      /\ AtTop'[c] = (IF pc'[c] = "top" THEN 1 ELSE 0)
  BY DEF AtTop
<1>3. (pc[c] = "top" <=> pc'[c] = "top") => AtTop' = AtTop
  BY DEF AtTop, Moved
<1>. HIDE DEF AtTop
<1>. QED
  BY <1>1, <1>2, <1>3 DEF Bumped

\* Every attempt stays admitted, after every step.
LEMMA TicketsStep ==
  ASSUME TypeOK, TicketsInv, [Next]_vars
  PROVE  TicketsInv'
<1>. USE DEF accounting, failures, callerVars, history
<1>. SUFFICES ASSUME NEW r \in Runs PROVE TicketsAt(r)'
  BY DEF TicketsInv
<1>. DEFINE S == CallersUnder(r)
<1>0. /\ S \subseteq Callers
      /\ \A c \in Callers : c \in S <=> r \in RunsAround(FrameOf[c])
      /\ Finite(S, AtTop) /\ attempts[r] + SumOf(S, AtTop) <= calls[r]
      /\ attempts[r] \in Nat /\ calls[r] \in Nat /\ SumOf(S, AtTop) \in Nat
      /\ calls \in [Runs -> Nat] /\ attempts \in [Runs -> Nat] /\ pc \in [Callers -> PCs]
      /\ call \in [Callers -> CallType]
  BY SumInNat DEF TicketsInv, TicketsAt, TypeOK, CallersUnder, RunsAround
<1>b. ASSUME Finite(S, AtTop'), attempts'[r] + SumOf(S, AtTop') <= calls'[r]
      PROVE  TicketsAt(r)'
  BY <1>b DEF TicketsAt, CallersUnder
<1>. HIDE DEF S
<1>c. ASSUME AtTop' = AtTop, attempts'[r] = attempts[r],
             calls'[r] = calls[r] \/ calls'[r] = calls[r] + 1
      PROVE  TicketsAt(r)'
  BY <1>0, <1>b, <1>c
<1>1. ASSUME NEW c \in Callers, Moved(c), pc[c] # "top", pc'[c] = "top",
             ReserveCall(FrameOf[c]), UNCHANGED attempts
      PROVE  TicketsAt(r)'
  <2>1. Bumped(Callers, AtTop, AtTop', c, 1)
    BY <1>1, LeavesTop
  <2>2. Bumped(S, AtTop, AtTop', c, 1) /\ Finite(S, AtTop)
    BY <1>0, <2>1 DEF Bumped
  <2>3. Finite(S, AtTop') /\ SumOf(S, AtTop') = SumOf(S, AtTop) + (IF c \in S THEN 1 ELSE 0)
    BY <2>2, SumFollowsUp
  <2>4. calls'[r] = calls[r] + (IF c \in S THEN 1 ELSE 0)
    BY <1>0, <1>1 DEF ReserveCall
  <2>. QED
    BY <1>0, <1>1, <1>b, <2>3, <2>4
<1>2. ASSUME NEW c \in Callers, Moved(c), pc[c] = "top", pc'[c] # "top", UNCHANGED calls,
             attempts'[r] = attempts[r] \/ attempts'[r] = attempts[r] + (IF c \in S THEN 1 ELSE 0)
      PROVE  TicketsAt(r)'
  <2>1. Bumped(Callers, AtTop', AtTop, c, 1)
    BY <1>2, LeavesTop
  <2>2. Bumped(S, AtTop', AtTop, c, 1) /\ Finite(S, AtTop)
    BY <1>0, <2>1 DEF Bumped
  <2>3. Finite(S, AtTop') /\ SumOf(S, AtTop') = SumOf(S, AtTop) - (IF c \in S THEN 1 ELSE 0)
    BY <2>2, SumFollowsDown
  <2>4. SumOf(S, AtTop') \in Nat
    BY <2>3, SumInNat
  <2>. QED
    BY <1>0, <1>2, <1>b, <2>3, <2>4
<1>3. ASSUME NEW c \in Callers, Moved(c), pc[c] = "top" <=> pc'[c] = "top", UNCHANGED <<calls, attempts>>
      PROVE  TicketsAt(r)'
  BY <1>3, <1>c, LeavesTop
<1>4. ASSUME NEW c \in Callers, Admit(c)
      PROVE  TicketsAt(r)'
  <2>1. /\ pc[c] = "idle" /\ UNCHANGED <<call, attempts>>
        /\ \/ pc' = [pc EXCEPT ![c] = "top"] /\ ReserveCall(FrameOf[c])
           \/ pc' = [pc EXCEPT ![c] = "stopped"] /\ UNCHANGED calls
    BY <1>4 DEF Admit, Goto
  <2>2. Moved(c)
    BY <1>0, <2>1 DEF Moved
  <2>. QED
    BY <1>0, <1>1, <1>3, <2>1, <2>2
<1>5. ASSUME NEW c \in Callers, Top(c)
      PROVE  TicketsAt(r)'
  <2>1. /\ pc[c] = "top" /\ UNCHANGED calls
        /\ \/ /\ pc' = [pc EXCEPT ![c] = IF call[c].level = 1 THEN "finish" ELSE "after"]
              /\ UNCHANGED attempts
           \/ pc' = pc /\ UNCHANGED attempts
           \/ /\ pc' = [pc EXCEPT ![c] = "attempt"]
              /\ attempts' = [q \in Runs |->
                   IF q \in RunsAround(FrameOf[c]) THEN attempts[q] + 1 ELSE attempts[q]]
    BY <1>5 DEF Top, EndLevel, Goto
  <2>2. Moved(c)
    BY <1>0, <1>5, <2>1 DEF Moved, Top, EndLevel
  <2>3. attempts'[r] = attempts[r] \/ attempts'[r] = attempts[r] + (IF c \in S THEN 1 ELSE 0)
    BY <1>0, <2>1
  <2>4. CASE pc'[c] = "top"
    BY <1>0, <1>3, <2>1, <2>2, <2>4
  <2>5. CASE pc'[c] # "top"
    BY <1>2, <2>1, <2>2, <2>3, <2>5
  <2>. QED
    BY <2>4, <2>5
<1>6. ASSUME NEW c \in Callers, Retry(c)
      PROVE  TicketsAt(r)'
  <2>1. /\ pc[c] = "retry" /\ UNCHANGED attempts
        /\ \/ pc' = [pc EXCEPT ![c] = "top"] /\ ReserveCall(FrameOf[c])
           \/ /\ pc' = [pc EXCEPT ![c] = IF call[c].level = 1 THEN "finish" ELSE "after"]
              /\ UNCHANGED calls
    BY <1>6 DEF Retry, EndLevel, Goto
  <2>2. Moved(c)
    BY <1>0, <1>6, <2>1 DEF Moved, Retry, EndLevel
  <2>. QED
    BY <1>0, <1>1, <1>3, <2>1, <2>2
<1>7. ASSUME NEW c \in Callers, AttemptReturns(c) \/ After(c) \/ WaitEnds(c) \/ Finish(c) \/ Record(c)
      PROVE  TicketsAt(r)'
  <2>1. /\ pc[c] # "top" /\ UNCHANGED <<calls, attempts>>
        /\ \E p \in {"after", "finish", "wait", "retry", "record", "idle"} : pc' = [pc EXCEPT ![c] = p]
        /\ \E k : call' = [call EXCEPT ![c] = k]
    <3>1. CASE AttemptReturns(c)
      <4>1. PICK u, o : call' = [call EXCEPT ![c].result = Result(u, o)]
        BY <3>1 DEF AttemptReturns
      <4>. QED
        BY <3>1, <4>1 DEF AttemptReturns, Goto
    <3>2. CASE After(c)
      BY <3>2 DEF After, EndLevel, Goto
    <3>3. CASE WaitEnds(c)
      <4>1. UNCHANGED call => call' = [call EXCEPT ![c] = call[c]]
        BY <1>0
      <4>. QED
        BY <3>3, <4>1 DEF WaitEnds, EndLevel, Goto
    <3>4. CASE Finish(c)
      BY <3>4 DEF Finish, Goto
    <3>5. CASE Record(c)
      BY <3>5 DEF Record, Goto
    <3>. QED
      BY <1>7, <3>1, <3>2, <3>3, <3>4, <3>5
  <2>2. Moved(c)
    BY <1>0, <2>1 DEF Moved
  <2>. QED
    BY <1>0, <1>3, <2>1, <2>2
<1>8. ASSUME UNCHANGED <<pc, calls, attempts>>
      PROVE  TicketsAt(r)'
  <2>1. AtTop' = AtTop
    BY <1>8 DEF AtTop
  <2>. QED
    BY <1>8, <1>c, <2>1
<1>9. ASSUME NEW q \in Runs, Expire(q)
      PROVE  TicketsAt(r)'
  BY <1>8, <1>9 DEF Expire
<1>10. ASSUME NEW f \in Frames, DeadlineFires(f) \/ Interrupt(f)
       PROVE  TicketsAt(r)'
  BY <1>8, <1>10 DEF DeadlineFires, Interrupt
<1>11. CASE UNCHANGED vars
  BY <1>8, <1>11 DEF vars
<1>. QED
  BY <1>4, <1>5, <1>6, <1>7, <1>9, <1>10, <1>11 DEF Next, CallerStep

-----------------------------------------------------------------------------
(* A quiet account owes nothing.                                             *)

LedgerInv == CallsPlaced /\ BurnedInv /\ PendingInv /\ EntriesInv /\ TicketsInv

\* No call has been made, so nothing is owed, reported, returned or admitted.
LEMMA LedgerInit == Init => LedgerInv
<1>. SUFFICES ASSUME Init PROVE LedgerInv
  OBVIOUS
<1>1. /\ call = [c \in Callers |-> NoCall] /\ pc = [c \in Callers |-> "idle"]
      /\ returned = [f \in Frames |-> <<>>]
      /\ NoCall.usage[1] = Zero /\ NoCall.usage[2] = Zero /\ NoCall.reported[1] = 0
  BY DEF Init, NoCall, Levels
<1>2. CallsPlaced
  BY <1>1 DEF CallsPlaced, Placed
<1>3. \A c \in Callers : OwedBy[c] = 0 /\ ReportedBy[c] = 0 /\ AtTop[c] = 0
  BY <1>1, ZeroOK DEF OwedBy, Owed, ReportedBy, AtTop
<1>4. \A f \in Frames : returned[f] = <<>>
  BY <1>1
<1>5. /\ FinitePend(<<>>) /\ PendingOf(<<>>) = 0
      /\ \A n \in Nat : FiniteHaving(<<>>, n) /\ HowMany(<<>>, n) = 0
  <2>1. \A j \in 1..Len(<<>>) : FALSE
    OBVIOUS
  <2>2. /\ \A j \in 1..Len(<<>>) : Pend(<<>>)[j] = 0
        /\ \A n \in Nat : \A j \in 1..Len(<<>>) : Having(<<>>, n)[j] = 0
    BY <2>1
  <2>3. Finite(1..Len(<<>>), Pend(<<>>)) /\ SumOf(1..Len(<<>>), Pend(<<>>)) = 0
    BY <2>2, SumOfZeros
  <2>4. ASSUME NEW n \in Nat
        PROVE  Finite(1..Len(<<>>), Having(<<>>, n)) /\ SumOf(1..Len(<<>>), Having(<<>>, n)) = 0
    BY <2>2, SumOfZeros
  <2>. QED
    BY <2>3, <2>4 DEF FinitePend, PendingOf, FiniteHaving, HowMany
<1>6. \A f \in Frames : ReturnedIn[f] = 0
  BY <1>4, <1>5 DEF ReturnedIn
<1>7. ReturnedFinite
  BY <1>4, <1>5 DEF ReturnedFinite, FiniteReturned
<1>8. ASSUME NEW a
      PROVE  /\ Finite(CallersUnder(a), OwedBy) /\ SumOf(CallersUnder(a), OwedBy) = 0
             /\ Finite(CallersUnder(a), ReportedBy) /\ SumOf(CallersUnder(a), ReportedBy) = 0
             /\ Finite(CallersUnder(a), AtTop) /\ SumOf(CallersUnder(a), AtTop) = 0
             /\ Finite(FramesUnder(a), ReturnedIn) /\ SumOf(FramesUnder(a), ReturnedIn) = 0
  <2>1. CallersUnder(a) \subseteq Callers /\ FramesUnder(a) \subseteq Frames
    BY UnderAre
  <2>. QED
    BY <1>3, <1>6, <2>1, SumOfZeros
<1>9. BurnedInv /\ PendingInv /\ TicketsInv
  BY <1>8 DEF Init, BurnedInv, BurnedAt, PendingInv, PendingAt, TicketsInv, TicketsAt
<1>10. ASSUME NEW f \in Frames, NEW n \in Nat
       PROVE  EntriesAt(f, n)
  <2>1. \A c \in Callers : RecordingBy(f, n)[c] = 0
    BY <1>1 DEF RecordingBy, RecordingAt
  <2>2. Finite(Callers, RecordingBy(f, n)) /\ SumOf(Callers, RecordingBy(f, n)) = 0
    BY <2>1, SumOfZeros
  <2>. QED
    BY <1>4, <1>5, <2>2 DEF EntriesAt
<1>. QED
  BY <1>2, <1>7, <1>9, <1>10 DEF LedgerInv, EntriesInv

\* With every caller under an account between calls, what was burned is recorded, nothing is
\* pending, and every attempt was admitted.
LEMMA LedgerExact == TypeOK /\ CallsCovered /\ LedgerInv => QuietLedgerExact
<1>. SUFFICES ASSUME TypeOK, CallsCovered, LedgerInv, NEW a \in Accounts, Quiet(a)
              PROVE  /\ tokens[a] = burned[a] /\ pending[a] = 0
                     /\ a \in Runs => attempts[a] <= calls[a]
  BY DEF QuietLedgerExact
<1>1. \A c \in CallersUnder(a) : OwedBy[c] = 0 /\ ReportedBy[c] = 0
  <2>. SUFFICES ASSUME NEW c \in CallersUnder(a) PROVE OwedBy[c] = 0 /\ ReportedBy[c] = 0
    OBVIOUS
  <2>1. c \in Callers /\ pc[c] \in {"idle", "stopped"}
    BY DEF Quiet, CallersUnder
  <2>2. /\ call[c].usage[1] = Zero /\ call[c].usage[2] = Zero /\ call[c].reported[1] = 0
    BY <2>1 DEF LedgerInv, CallsPlaced, Placed, CallsCovered, Covered
  <2>. QED
    BY <2>1, <2>2, ZeroOK DEF OwedBy, Owed, ReportedBy
<1>2. \A f \in FramesUnder(a) : ReturnedIn[f] = 0
  <2>. SUFFICES ASSUME NEW f \in FramesUnder(a) PROVE ReturnedIn[f] = 0
    OBVIOUS
  <2>. DEFINE s == returned[f]
  <2>1. f \in Frames /\ s \in Seq(ReturnedCall) /\ FiniteReturned(s)
    BY DEF FramesUnder, TypeOK, LedgerInv, EntriesInv, ReturnedFinite
  <2>2. \A n \in Nat : HowMany(s, n) = 0
    <3>. SUFFICES ASSUME NEW n \in Nat PROVE HowMany(s, n) = 0
      OBVIOUS
    <3>1. \A c \in Callers : RecordingBy(f, n)[c] = 0
      <4>1. \A c \in Callers : FrameOf[c] = f => pc[c] # "record"
        BY DEF FramesUnder, CallersUnder, Quiet
      <4>. QED
        BY <4>1 DEF RecordingBy, RecordingAt
    <3>2. SumOf(Callers, RecordingBy(f, n)) = 0
      BY <3>1, SumOfZeros
    <3>3. HowMany(s, n) <= 0 /\ HowMany(s, n) \in Nat
      BY <2>1, <3>2, ReturnedCounts DEF LedgerInv, EntriesInv, EntriesAt
    <3>. QED
      BY <3>3
  <2>3. ASSUME NEW j \in 1..Len(s)
        PROVE  FALSE
    <3>1. s[j] \in ReturnedCall
      BY <2>1
    <3>. DEFINE n == s[j].tokens
    <3>2. n \in Nat /\ Having(s, n)[j] = 1
      BY <2>1, <3>1 DEF ReturnedCall, Having
    <3>. HIDE DEF n
    <3>3. Finite(1..Len(s), Having(s, n))
      BY <2>1, <3>2 DEF FiniteReturned, FiniteHaving
    <3>4. <<j, 1>> \in Dots(1..Len(s), Having(s, n))
      BY <3>2, DotsAre
    <3>5. Cardinality(Dots(1..Len(s), Having(s, n))) # 0
      BY <3>3, <3>4, FS_EmptySet DEF Finite
    <3>. QED
      BY <2>2, <3>2, <3>5 DEF HowMany, SumOf
  <2>4. \A j \in 1..Len(s) : Pend(s)[j] = 0
    BY <2>3
  <2>5. PendingOf(s) = 0
    BY <2>4, SumOfZeros DEF PendingOf
  <2>. QED
    BY <2>1, <2>5 DEF ReturnedIn
<1>3. /\ SumOf(CallersUnder(a), OwedBy) = 0
      /\ SumOf(CallersUnder(a), ReportedBy) = 0
      /\ SumOf(FramesUnder(a), ReturnedIn) = 0
  BY <1>1, <1>2, SumOfZeros
<1>4. burned[a] = tokens[a] + 0 /\ pending[a] = 0 + 0 /\ tokens[a] \in Nat
  BY <1>3 DEF LedgerInv, BurnedInv, BurnedAt, PendingInv, PendingAt, TypeOK
<1>5. ASSUME a \in Runs
      PROVE  attempts[a] <= calls[a]
  <2>1. /\ Finite(CallersUnder(a), AtTop) /\ attempts[a] + SumOf(CallersUnder(a), AtTop) <= calls[a]
        /\ attempts[a] \in Nat /\ calls[a] \in Nat
    BY <1>5 DEF LedgerInv, TicketsInv, TicketsAt, TypeOK
  <2>2. SumOf(CallersUnder(a), AtTop) \in Nat
    BY <2>1, SumInNat
  <2>. QED
    BY <2>1, <2>2
<1>. QED
  BY <1>4, <1>5

(* Whatever callers do at once, an account whose callers are between calls has counted every
   token of every attempt exactly once and holds nothing pending, and its run has admitted every
   attempt made. *)
THEOREM LedgerIsExact == ASSUME UniformUsage PROVE Spec => []QuietLedgerExact
<1>1. TypeOK /\ CallsCovered /\ LedgerInv /\ [Next]_vars => LedgerInv'
  <2>. SUFFICES ASSUME TypeOK, CallsCovered, LedgerInv, [Next]_vars PROVE LedgerInv'
    OBVIOUS
  <2>. USE DEF LedgerInv
  <2>1. CallsPlaced' /\ BurnedInv' /\ EntriesInv' /\ TicketsInv'
    BY PlacedStep, BurnedStep, EntriesStep, TicketsStep
  <2>2. PendingInv'
    BY PendingStep DEF EntriesInv
  <2>. QED
    BY <2>1, <2>2
<1>2. Spec => [](TypeOK /\ IInv)
  BY CoveredAlways
<1>3. IInv => CallsCovered
  BY DEF IInv
<1>. QED
  BY <1>1, <1>2, <1>3, LedgerInit, LedgerExact, PTL DEF Spec
=============================================================================
