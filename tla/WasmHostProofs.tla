---------------------------- MODULE WasmHostProofs ----------------------------
(***************************************************************************)
(* Proofs about WasmHost and PredictJobs: whatever the host answers, the   *)
(* answers of a predict job are counted once, and however a cancel meets a *)
(* job, it is honoured: at most one job can go on at a time, and none      *)
(* while host code runs, so a cancel finds a job in a call or waiting.     *)
(***************************************************************************)
EXTENDS WasmHost, ProofLemmas

-----------------------------------------------------------------------------
(* Predict jobs.  The tokens of the answers taken for a job are a sum, in    *)
(* the sense of ProofLemmas.                                                 *)

Answer == [job : PredictIds, request : Nat, usage : AnswerUsages]

Tokens == [a \in Answer |-> a.usage]

Job == [pending : Nat, retries : 0..MaxParseRetries, usage : Nat]

\* What is known of a job that has handed out the requests reqs, of which the answers taken are in.
Counted(job, told, reqs, taken) ==
  /\ taken \subseteq Answer /\ IsFiniteSet(taken) /\ Finite(taken, Tokens)
  /\ IsFiniteSet(reqs) /\ Cardinality(reqs) <= MaxParseRetries + 1
  /\ \A a, b \in taken : a.request = b.request => a = b
  /\ \A a \in taken : a.request \in reqs
  /\ reqs = {} => told.as # "complete"
  /\ job # NoJob =>
       /\ told.as # "complete"
       /\ job.pending \in reqs
       /\ \A a \in taken : a.request # job.pending
       /\ Cardinality(reqs) = job.retries + 1
       /\ Cardinality(taken) = job.retries
       /\ job.usage = SumOf(taken, Tokens)
  /\ told.as = "complete" =>
       /\ Cardinality(taken) = Cardinality(reqs)
       /\ told.usage = SumOf(taken, Tokens)

Taken(p) == {a \in answers : a.job = p}

AnswersInv == \A p \in PredictIds : Counted(predictJobs[p], predictTold[p], requests[p], Taken(p))

\* Tokens are naturals.
LEMMA TokensAre ==
  ASSUME NEW a \in Answer
  PROVE  Tokens[a] = a.usage /\ Tokens[a] \in Nat
  BY PredictAssumption DEF Tokens, Answer

\* No job is a job too.
LEMMA NoJobIs ==
  NoJob \in [pending : Nat, retries : 0..MaxParseRetries, usage : Nat]
  BY PredictAssumption DEF NoJob

\* The usage of a job and of an answer is a number.
LEMMA UsageIs ==
  ASSUME NEW job \in Job, NEW used \in AnswerUsages
  PROVE  job.usage + used \in Nat
  BY PredictAssumption DEF Job

\* What becomes of a job that asks for a repair.
LEMMA RepairedIs ==
  ASSUME NEW job \in Job, NEW used, NEW q
  PROVE  [[[job EXCEPT !.usage = @ + used] EXCEPT !.retries = @ + 1] EXCEPT !.pending = q]
           = [pending |-> q, retries |-> job.retries + 1, usage |-> job.usage + used]
<1>. DEFINE w == job.usage + used
            r == job.retries + 1
            one == [job EXCEPT !.usage = w]
<1>1. job = [pending |-> job.pending, retries |-> job.retries, usage |-> job.usage]
  BY DEF Job
<1>2. [job EXCEPT !.usage = w] = [pending |-> job.pending, retries |-> job.retries, usage |-> w]
  <2>. HIDE DEF w
  <2>. QED
    BY <1>1
<1>3. one.retries + 1 = r
  <2>. HIDE DEF w
  <2>. QED
    BY <1>2
<1>4. [[one EXCEPT !.retries = r] EXCEPT !.pending = q] = [pending |-> q, retries |-> r, usage |-> w]
  <2>1. one = [pending |-> job.pending, retries |-> job.retries, usage |-> w]
    BY <1>2
  <2>. HIDE DEF w, r, one
  <2>2. [one EXCEPT !.retries = r] = [pending |-> job.pending, retries |-> r, usage |-> w]
    BY <2>1
  <2>. DEFINE two == [one EXCEPT !.retries = r]
  <2>3. two = [pending |-> job.pending, retries |-> r, usage |-> w]
    BY <2>2
  <2>. HIDE DEF two
  <2>4. [two EXCEPT !.pending = q] = [pending |-> q, retries |-> r, usage |-> w]
    BY <2>3
  <2>. QED
    BY <2>4 DEF two
<1>5. [one EXCEPT !.retries = @ + 1] = [one EXCEPT !.retries = r]
  <2>. HIDE DEF one, r
  <2>. QED
    BY <1>3
<1>. QED
  BY <1>4, <1>5

\* The first request of a job.
LEMMA CountedStarts ==
  ASSUME NEW told, NEW taken, NEW q \in Nat, Counted(NoJob, told, {}, taken)
  PROVE  Counted([NoJob EXCEPT !.pending = q], told, {q}, taken)
<1>1. taken = {}
  BY DEF Counted
<1>2. IsFiniteSet({q}) /\ Cardinality({q}) = 1 /\ Cardinality(taken) = 0
  BY <1>1, FS_Singleton, FS_EmptySet
<1>3. SumOf(taken, Tokens) = 0
  BY <1>1, SumOfZeros
<1>4. [NoJob EXCEPT !.pending = q] = [pending |-> q, retries |-> 0, usage |-> 0]
  BY DEF NoJob
<1>. QED
  BY <1>1, <1>2, <1>3, <1>4, PredictAssumption DEF Counted

\* A job that is dropped without a completion.
LEMMA CountedDrops ==
  ASSUME NEW job, NEW told, NEW reqs, NEW taken, Counted(job, told, reqs, taken),
         NEW as, NEW usage, as # "complete"
  PROVE  Counted(NoJob, [as |-> as, usage |-> usage], reqs, taken)
  BY DEF Counted

\* The answers more are all that the requests of a job wait for, and their usage is the job's and used.
AllIn(job, reqs, more, used) ==
  /\ more \subseteq Answer /\ IsFiniteSet(more) /\ Finite(more, Tokens)
  /\ \A b, c \in more : b.request = c.request => b = c
  /\ \A b \in more : b.request \in reqs
  /\ Cardinality(more) = Cardinality(reqs) /\ Cardinality(more) = job.retries + 1
  /\ SumOf(more, Tokens) = job.usage + used

\* The answer to the request a job waits for is the last it lacked.
LEMMA CountedTakes ==
  ASSUME NEW job \in Job, NEW told, NEW reqs, NEW taken, Counted(job, told, reqs, taken),
         job # NoJob, NEW a \in Answer, a.request = job.pending
  PROVE  AllIn(job, reqs, taken \union {a}, a.usage)
<1>. DEFINE more == taken \union {a}
<1>0. Finite(taken, Tokens) /\ SumOf(taken, Tokens) = job.usage /\ taken \subseteq Answer
  BY DEF Counted
<1>1. a \notin taken
  BY DEF Counted
<1>2. IsFiniteSet(more) /\ Cardinality(more) = Cardinality(taken) + 1
  BY <1>1, FS_AddElement DEF Counted
<1>3. Finite(more, Tokens) /\ SumOf(more, Tokens) = job.usage + a.usage
  <2>1. Tokens[a] = a.usage /\ Tokens[a] \in Nat
    BY TokensAre
  <2>. HIDE DEF Tokens
  <2>2. Finite(more, Tokens) /\ SumOf(more, Tokens) = SumOf(taken, Tokens) + Tokens[a]
    BY <1>0, <1>1, <2>1, SumTakes
  <2>. QED
    BY <1>0, <2>1, <2>2
<1>4. /\ \A b, c \in more : b.request = c.request => b = c
      /\ \A b \in more : b.request \in reqs
  BY DEF Counted
<1>5. Cardinality(taken) = job.retries /\ Cardinality(reqs) = job.retries + 1
  BY DEF Counted
<1>. HIDE DEF more
<1>. QED
  BY <1>0, <1>2, <1>3, <1>4, <1>5 DEF AllIn, more

\* A job that completes tells the usage of the answers taken.
LEMMA CountedCompletes ==
  ASSUME NEW job \in Job, NEW told, NEW reqs, NEW taken, Counted(job, told, reqs, taken),
         job # NoJob, NEW a \in Answer, a.request = job.pending
  PROVE  Counted(NoJob, [as |-> "complete", usage |-> job.usage + a.usage], reqs, taken \union {a})
<1>. DEFINE more == taken \union {a}
<1>1. AllIn(job, reqs, more, a.usage)
  BY CountedTakes
<1>2. reqs # {} /\ IsFiniteSet(reqs) /\ Cardinality(reqs) <= MaxParseRetries + 1
  BY DEF Counted
<1>. HIDE DEF more
<1>. QED
  BY <1>1, <1>2 DEF Counted, AllIn, more

\* A job that fails after an answer.
LEMMA CountedFails ==
  ASSUME NEW job \in Job, NEW told, NEW reqs, NEW taken, Counted(job, told, reqs, taken),
         job # NoJob, NEW a \in Answer, a.request = job.pending, NEW as, NEW usage, as # "complete"
  PROVE  Counted(NoJob, [as |-> as, usage |-> usage], reqs, taken \union {a})
<1>. DEFINE more == taken \union {a}
<1>1. AllIn(job, reqs, more, a.usage)
  BY CountedTakes
<1>2. reqs # {} /\ IsFiniteSet(reqs) /\ Cardinality(reqs) <= MaxParseRetries + 1
  BY DEF Counted
<1>. HIDE DEF more
<1>. QED
  BY <1>1, <1>2 DEF Counted, AllIn, more

\* A job that asks for a repair hands out a new request.
LEMMA CountedRepairs ==
  ASSUME NEW job \in Job, NEW told, NEW reqs, NEW taken, Counted(job, told, reqs, taken),
         job # NoJob, NEW a \in Answer, a.request = job.pending,
         NEW q \in Nat, q \notin reqs, job.retries < MaxParseRetries, NEW next \in Job,
         next = [pending |-> q, retries |-> job.retries + 1, usage |-> job.usage + a.usage]
  PROVE  Counted(next, told, reqs \union {q}, taken \union {a})
<1>. DEFINE more == taken \union {a}
<1>1. AllIn(job, reqs, more, a.usage)
  BY CountedTakes
<1>2. IsFiniteSet(reqs \union {q}) /\ Cardinality(reqs \union {q}) = Cardinality(reqs) + 1
  BY FS_AddElement DEF Counted
<1>3. Cardinality(reqs) = job.retries + 1 /\ told.as # "complete" /\ job.retries \in Nat
  BY DEF Counted, Job
<1>4. next.pending = q /\ next.retries = job.retries + 1 /\ next.usage = job.usage + a.usage
  OBVIOUS
<1>. HIDE DEF more
<1>5. Cardinality(reqs \union {q}) = next.retries + 1 /\ next.retries + 1 <= MaxParseRetries + 1
  BY <1>2, <1>3, <1>4, PredictAssumption
<1>6. \A b \in more : b.request # q /\ b.request \in reqs \union {q}
  BY <1>1 DEF AllIn
<1>. QED
  BY <1>1, <1>2, <1>3, <1>4, <1>5, <1>6 DEF Counted, AllIn, more

-----------------------------------------------------------------------------
(* The steps of the predict jobs. *)

PredictInv == PredictTypeOK /\ AnswersInv

\* Initially nothing was asked.
LEMMA PredictInvInit ==
  ASSUME PredictInit
  PROVE  PredictInv
<1>1. PredictTypeOK
  <2>1. NoJob \in [pending : Nat, retries : 0..MaxParseRetries, usage : Nat]
    BY NoJobIs
  <2>2. Untold \in [as : {"", "finish reason", "complete", "unparsable", "cancelled"}, usage : Nat]
    BY DEF Untold
  <2>3. requests \in [PredictIds -> SUBSET (1..nextRequestID)]
    BY DEF PredictInit
  <2>. QED
    BY <2>1, <2>2, <2>3 DEF PredictInit, PredictTypeOK
<1>2. ASSUME NEW p \in PredictIds
      PROVE  Counted(predictJobs[p], predictTold[p], requests[p], Taken(p))
  <2>1. predictJobs[p] = NoJob /\ predictTold[p].as # "complete" /\ requests[p] = {} /\ Taken(p) = {}
    BY DEF PredictInit, Untold, Taken
  <2>2. IsFiniteSet({}) /\ Cardinality({}) = 0 /\ Finite({}, Tokens)
    BY FS_EmptySet, SumOfZeros
  <2>. QED
    BY <2>1, <2>2, PredictAssumption DEF Counted
<1>. QED
  BY <1>1, <1>2 DEF PredictInv, AnswersInv

\* What a step does to the jobs but p.
OthersKept(p) ==
  \A r \in PredictIds \ {p} :
    /\ predictJobs'[r] = predictJobs[r] /\ predictTold'[r] = predictTold[r]
    /\ requests'[r] = requests[r] /\ Taken(r)' = Taken(r)

\* A step of one job keeps the counts if it keeps that job's.
LEMMA CountsKept ==
  ASSUME AnswersInv, NEW p \in PredictIds, OthersKept(p),
         Counted(predictJobs'[p], predictTold'[p], requests'[p], Taken(p)')
  PROVE  AnswersInv'
<1>1. ASSUME NEW r \in PredictIds
      PROVE  Counted(predictJobs'[r], predictTold'[r], requests'[r], Taken(r)')
  <2>1. CASE r = p
    BY <2>1
  <2>2. CASE r # p
    <3>1. Counted(predictJobs[r], predictTold[r], requests[r], Taken(r))
      BY DEF AnswersInv
    <3>. QED
      BY <2>2, <3>1 DEF OthersKept
  <2>. QED
    BY <2>1, <2>2
<1>. QED
  BY <1>1 DEF AnswersInv, Counted

\* A job is created.
LEMMA StartCounts ==
  ASSUME PredictInv, NEW p \in PredictIds, PredictStart(p)
  PROVE  PredictInv'
<1>. DEFINE q == nextRequestID + 1
            job == [NoJob EXCEPT !.pending = q]
<1>. USE DEF PredictInv
<1>0. q \in Nat /\ q >= 1 /\ nextRequestID \in Nat
  <2>1. nextRequestID \in Nat
    BY DEF PredictTypeOK
  <2>. QED
    BY <2>1
<1>1. /\ requests[p] = {} /\ nextRequestID' = q
      /\ predictJobs' = [predictJobs EXCEPT ![p] = job]
      /\ requests' = [requests EXCEPT ![p] = @ \union {q}]
      /\ predictTold' = predictTold /\ answers' = answers
  BY DEF PredictStart, HandOut
<1>2. job = [pending |-> q, retries |-> 0, usage |-> 0] /\ job \in Job
  BY <1>0, PredictAssumption DEF NoJob, Job
<1>. HIDE DEF job, q
<1>3. predictJobs \in [PredictIds -> Job] /\ requests \in [PredictIds -> SUBSET (1..nextRequestID)]
  BY DEF PredictTypeOK, Job
<1>4. predictJobs' \in [PredictIds -> Job] /\ predictJobs'[p] = job
  BY <1>1, <1>2, <1>3
<1>5. /\ requests' \in [PredictIds -> SUBSET (1..q)] /\ requests'[p] = {q}
      /\ \A a : a \in 1..nextRequestID => a \in 1..q
  <2>1. 1..nextRequestID \subseteq 1..q /\ q \in 1..q
    BY <1>0 DEF q
  <2>. QED
    BY <1>1, <1>3, <2>1
<1>6. PredictTypeOK'
  <2>1. answers \subseteq [job : PredictIds, request : 1..q, usage : AnswerUsages]
    BY <1>5 DEF PredictTypeOK
  <2>. QED
    BY <1>0, <1>1, <1>4, <1>5, <2>1 DEF PredictTypeOK, Job
<1>7. OthersKept(p)
  BY <1>1, <1>3 DEF OthersKept, Taken
<1>8. Counted(NoJob, predictTold[p], {}, Taken(p))
  <2>1. Counted(predictJobs[p], predictTold[p], {}, Taken(p))
    BY <1>1 DEF AnswersInv
  <2>2. predictJobs[p] = NoJob
    BY <2>1 DEF Counted
  <2>. QED
    BY <2>1, <2>2
<1>9. Counted(job, predictTold[p], {q}, Taken(p))
  BY <1>0, <1>8, CountedStarts DEF job
<1>10. Counted(predictJobs'[p], predictTold'[p], requests'[p], Taken(p)')
  <2>1. Taken(p)' = Taken(p)
    BY <1>1 DEF Taken
  <2>. QED
    BY <1>1, <1>4, <1>5, <1>9, <2>1
<1>. QED
  BY <1>6, <1>7, <1>10, CountsKept

\* A job is cancelled.
LEMMA CancelCounts ==
  ASSUME PredictInv, NEW p \in PredictIds, PredictCancel(p)
  PROVE  PredictInv'
<1>. DEFINE told == [as |-> "cancelled", usage |-> 0]
<1>. USE DEF PredictInv
<1>1. /\ predictJobs' = [predictJobs EXCEPT ![p] = NoJob]
      /\ predictTold' = [predictTold EXCEPT ![p] = told]
      /\ requests' = requests /\ nextRequestID' = nextRequestID /\ answers' = answers
  BY DEF PredictCancel, Drop
<1>2. NoJob \in [pending : Nat, retries : 0..MaxParseRetries, usage : Nat]
  BY NoJobIs
<1>3. PredictTypeOK'
  BY <1>1, <1>2 DEF PredictTypeOK
<1>4. OthersKept(p) /\ Taken(p)' = Taken(p)
  BY <1>1 DEF OthersKept, Taken, PredictTypeOK
<1>5. predictJobs'[p] = NoJob /\ predictTold'[p] = told /\ requests'[p] = requests[p]
  BY <1>1 DEF PredictTypeOK
<1>6. Counted(NoJob, told, requests[p], Taken(p))
  BY CountedDrops DEF AnswersInv
<1>. QED
  BY <1>3, <1>4, <1>5, <1>6, CountsKept

\* An answer for the request a job waits for is one of that job's, and of no other's.
LEMMA AnswerTaken ==
  ASSUME PredictInv, NEW p \in PredictIds, NEW used \in AnswerUsages, Known(p),
         NEW a, a = [job |-> p, request |-> predictJobs[p].pending, usage |-> used],
         answers' = answers \union {a}
  PROVE  /\ a \in Answer /\ a.request \in requests[p] /\ a.request \in 1..nextRequestID
         /\ predictJobs[p] \in Job
         /\ Counted(predictJobs[p], predictTold[p], requests[p], Taken(p))
         /\ Taken(p)' = Taken(p) \union {a}
         /\ \A r \in PredictIds \ {p} : Taken(r)' = Taken(r)
<1>1. Counted(predictJobs[p], predictTold[p], requests[p], Taken(p)) /\ predictJobs[p] \in Job
  BY DEF PredictInv, PredictTypeOK, AnswersInv, Job
<1>2. predictJobs[p].pending \in requests[p] /\ requests[p] \subseteq 1..nextRequestID
  BY <1>1 DEF Counted, Known, PredictInv, PredictTypeOK
<1>3. a \in Answer
  BY <1>1 DEF Answer, Job
<1>. QED
  BY <1>1, <1>2, <1>3 DEF Taken

\* A job that an answer ends.
LEMMA EndingCounts ==
  ASSUME PredictInv, NEW p \in PredictIds, NEW used \in AnswerUsages, Known(p),
         NEW as \in {"finish reason", "complete", "unparsable"}, NEW usage,
         usage = IF as = "complete" THEN predictJobs[p].usage + used ELSE 0,
         answers' = answers \union {[job |-> p, request |-> predictJobs[p].pending, usage |-> used]},
         Drop(p, as, usage)
  PROVE  PredictInv'
<1>. DEFINE told == [as |-> as, usage |-> usage]
            a == [job |-> p, request |-> predictJobs[p].pending, usage |-> used]
<1>. USE DEF PredictInv
<1>1. /\ predictJobs' = [predictJobs EXCEPT ![p] = NoJob]
      /\ predictTold' = [predictTold EXCEPT ![p] = told]
      /\ requests' = requests /\ nextRequestID' = nextRequestID /\ answers' = answers \union {a}
  BY DEF Drop
<1>2. a.request = predictJobs[p].pending /\ a.usage = used /\ a.job = p
  OBVIOUS
<1>. HIDE DEF a
<1>3. /\ a \in Answer /\ a.request \in requests[p] /\ a.request \in 1..nextRequestID
      /\ predictJobs[p] \in Job
      /\ Counted(predictJobs[p], predictTold[p], requests[p], Taken(p))
      /\ Taken(p)' = Taken(p) \union {a}
      /\ \A r \in PredictIds \ {p} : Taken(r)' = Taken(r)
  BY <1>1, AnswerTaken DEF a
<1>4. usage \in Nat
  <2>1. predictJobs[p].usage + used \in Nat
    BY <1>3, UsageIs
  <2>. QED
    BY <2>1
<1>5. NoJob \in [pending : Nat, retries : 0..MaxParseRetries, usage : Nat]
  BY NoJobIs
<1>6. PredictTypeOK'
  <2>1. a \in [job : PredictIds, request : 1..nextRequestID, usage : AnswerUsages]
    BY <1>2, <1>3 DEF Answer
  <2>2. told \in [as : {"", "finish reason", "complete", "unparsable", "cancelled"}, usage : Nat]
    BY <1>4
  <2>. HIDE DEF told
  <2>. QED
    BY <1>1, <1>5, <2>1, <2>2 DEF PredictTypeOK
<1>7. OthersKept(p)
  BY <1>1, <1>3 DEF OthersKept, PredictTypeOK
<1>8. predictJobs'[p] = NoJob /\ predictTold'[p] = told /\ requests'[p] = requests[p]
  BY <1>1 DEF PredictTypeOK
<1>9. Counted(NoJob, told, requests[p], Taken(p) \union {a})
  <2>1. CASE as = "complete"
    BY <1>2, <1>3, <2>1, CountedCompletes DEF Known
  <2>2. CASE as # "complete"
    BY <1>2, <1>3, <2>2, CountedFails DEF Known
  <2>. QED
    BY <2>1, <2>2
<1>10. Counted(predictJobs'[p], predictTold'[p], requests'[p], Taken(p)')
  BY <1>3, <1>8, <1>9
<1>. QED
  BY <1>6, <1>7, <1>10, CountsKept

\* A job that asks for a repair.
LEMMA RepairCounts ==
  ASSUME PredictInv, NEW p \in PredictIds, NEW used \in AnswerUsages, Known(p),
         answers' = answers \union {[job |-> p, request |-> predictJobs[p].pending, usage |-> used]},
         predictJobs[p].retries < MaxParseRetries,
         HandOut(p, [[predictJobs[p] EXCEPT !.usage = @ + used] EXCEPT !.retries = @ + 1]),
         predictTold' = predictTold
  PROVE  PredictInv'
<1>. DEFINE job == predictJobs[p]
            q == nextRequestID + 1
            next == [pending |-> q, retries |-> job.retries + 1, usage |-> job.usage + used]
            a == [job |-> p, request |-> job.pending, usage |-> used]
<1>. USE DEF PredictInv
<1>1. q \in Nat /\ nextRequestID \in Nat /\ q \notin 1..nextRequestID /\ q \in 1..q
  <2>1. nextRequestID \in Nat
    BY DEF PredictTypeOK
  <2>. QED
    BY <2>1
<1>2. a.request = job.pending /\ a.usage = used /\ a.job = p
  OBVIOUS
<1>3. /\ a \in Answer /\ a.request \in requests[p] /\ a.request \in 1..nextRequestID
      /\ job \in Job
      /\ Counted(job, predictTold[p], requests[p], Taken(p))
      /\ Taken(p)' = Taken(p) \union {a}
      /\ \A r \in PredictIds \ {p} : Taken(r)' = Taken(r)
  BY AnswerTaken
<1>4. [[[job EXCEPT !.usage = @ + used] EXCEPT !.retries = @ + 1] EXCEPT !.pending = q] = next
  BY <1>3, RepairedIs
<1>5. /\ predictJobs' = [predictJobs EXCEPT ![p] = next]
      /\ requests' = [requests EXCEPT ![p] = @ \union {q}]
      /\ nextRequestID' = q /\ answers' = answers \union {a}
  BY <1>4 DEF HandOut
<1>6. next \in Job
  <2>1. /\ job.retries \in 0..MaxParseRetries /\ job.usage \in Nat /\ used \in Nat
        /\ job.retries < MaxParseRetries
    BY <1>3, PredictAssumption DEF Job
  <2>2. job.retries + 1 \in 0..MaxParseRetries /\ job.usage + used \in Nat
    BY <2>1, PredictAssumption
  <2>. HIDE DEF job, q
  <2>. QED
    BY <1>1, <2>2 DEF Job
<1>7. 1..nextRequestID \subseteq 1..q
  BY <1>1
<1>8. next = [pending |-> q, retries |-> job.retries + 1, usage |-> job.usage + used]
  OBVIOUS
<1>9. predictJobs \in [PredictIds -> Job] /\ requests \in [PredictIds -> SUBSET (1..nextRequestID)]
  BY DEF PredictTypeOK, Job
<1>10. job = predictJobs[p] /\ job.retries < MaxParseRetries
  OBVIOUS
<1>. HIDE DEF next, a, q, job
<1>11. predictJobs' \in [PredictIds -> Job] /\ predictJobs'[p] = next
  BY <1>5, <1>6, <1>9
<1>12. requests' \in [PredictIds -> SUBSET (1..q)] /\ requests'[p] = requests[p] \union {q}
  BY <1>1, <1>5, <1>7, <1>9
<1>13. PredictTypeOK'
  <2>1. a \in [job : PredictIds, request : 1..q, usage : AnswerUsages]
    BY <1>2, <1>3, <1>7 DEF Answer
  <2>2. answers \subseteq [job : PredictIds, request : 1..q, usage : AnswerUsages]
    BY <1>7 DEF PredictTypeOK
  <2>3. predictTold \in [PredictIds -> [as : {"", "finish reason", "complete", "unparsable", "cancelled"},
                                      usage : Nat]]
    BY DEF PredictTypeOK
  <2>. QED
    BY <1>1, <1>5, <1>11, <1>12, <2>1, <2>2, <2>3 DEF PredictTypeOK, Job
<1>14. OthersKept(p)
  BY <1>3, <1>5, <1>9 DEF OthersKept
<1>15. Counted(next, predictTold[p], requests[p] \union {q}, Taken(p) \union {a})
  <2>1. q \notin requests[p]
    BY <1>1, <1>9
  <2>2. next = [pending |-> q, retries |-> job.retries + 1, usage |-> job.usage + a.usage]
    BY <1>2, <1>8
  <2>3. job # NoJob /\ job.retries < MaxParseRetries
    BY <1>10 DEF Known
  <2>. QED
    BY <1>1, <1>2, <1>3, <1>6, <2>1, <2>2, <2>3, CountedRepairs
<1>16. Counted(predictJobs'[p], predictTold'[p], requests'[p], Taken(p)')
  BY <1>3, <1>11, <1>12, <1>15
<1>. QED
  BY <1>13, <1>14, <1>16, CountsKept

\* An answer is taken.
LEMMA ResumeCounts ==
  ASSUME PredictInv, NEW p \in PredictIds, NEW q, NEW used \in AnswerUsages,
         PredictResume(p, q, used)
  PROVE  PredictInv'
<1>. DEFINE job == [predictJobs[p] EXCEPT !.usage = @ + used]
<1>1. Known(p) /\ q = predictJobs[p].pending
  BY DEF PredictResume, FindPredictJob
<1>2. answers' = answers \union {[job |-> p, request |-> predictJobs[p].pending, usage |-> used]}
  BY <1>1 DEF PredictResume
<1>3. \/ Drop(p, "finish reason", 0)
      \/ Drop(p, "complete", job.usage)
      \/ job.retries >= MaxParseRetries /\ Drop(p, "unparsable", 0)
      \/ /\ job.retries < MaxParseRetries
         /\ HandOut(p, [job EXCEPT !.retries = @ + 1])
         /\ predictTold' = predictTold
  BY DEF PredictResume
<1>4. job.usage = predictJobs[p].usage + used /\ job.retries = predictJobs[p].retries
  BY DEF PredictInv, PredictTypeOK
<1>5. CASE Drop(p, "finish reason", 0)
  BY <1>1, <1>2, <1>5, EndingCounts
<1>6. CASE Drop(p, "complete", job.usage)
  BY <1>1, <1>2, <1>4, <1>6, EndingCounts
<1>7. CASE job.retries >= MaxParseRetries /\ Drop(p, "unparsable", 0)
  BY <1>1, <1>2, <1>7, EndingCounts
<1>8. CASE /\ job.retries < MaxParseRetries
           /\ HandOut(p, [job EXCEPT !.retries = @ + 1])
           /\ predictTold' = predictTold
  BY <1>1, <1>2, <1>4, <1>8, RepairCounts
<1>. QED
  BY <1>3, <1>5, <1>6, <1>7, <1>8

\* A step of the predict jobs keeps their invariant.
LEMMA PredictStepCounts ==
  ASSUME PredictInv, PredictStep
  PROVE  PredictInv'
<1>1. PICK p \in PredictIds :
        \/ PredictStart(p)
        \/ PredictCancel(p)
        \/ \E q \in UNION {requests[other] : other \in PredictIds}, used \in AnswerUsages :
             PredictResume(p, q, used)
  BY DEF PredictStep
<1>. QED
  BY <1>1, StartCounts, CancelCounts, ResumeCounts

\* A step that leaves the jobs alone keeps it, also one that takes a number for another request.
LEMMA PredictKept ==
  ASSUME PredictInv, UNCHANGED <<predictJobs, predictTold, requests, answers>>,
         nextRequestID' \in {nextRequestID, nextRequestID + 1}
  PROVE  PredictInv'
<1>1. 1..nextRequestID \subseteq 1..nextRequestID' /\ nextRequestID' \in Nat
  <2>1. nextRequestID \in Nat
    BY DEF PredictInv, PredictTypeOK
  <2>. QED
    BY <2>1
<1>2. PredictTypeOK'
  <2>1. requests \in [PredictIds -> SUBSET (1..nextRequestID')]
    BY <1>1 DEF PredictInv, PredictTypeOK
  <2>2. answers \subseteq [job : PredictIds, request : 1..nextRequestID', usage : AnswerUsages]
    BY <1>1 DEF PredictInv, PredictTypeOK
  <2>. QED
    BY <1>1, <2>1, <2>2 DEF PredictInv, PredictTypeOK
<1>3. AnswersInv'
  BY DEF PredictInv, AnswersInv, Counted, Taken
<1>. QED
  BY <1>2, <1>3 DEF PredictInv

\* The usages of some answers, added up one by one, are their sum.
LEMMA UsagesAddUp ==
  ASSUME NEW taken, taken \subseteq Answer, IsFiniteSet(taken)
  PROVE  MapThenSumSet(LAMBDA a : a.usage, taken) = SumOf(taken, Tokens)
<1>. DEFINE g == [a \in taken |-> a.usage]
            Step(f) == [s \in SUBSET taken |->
                          IF s = {} THEN 0 ELSE Some(s).usage + f[s \ {Some(s)}]]
            iter == CHOOSE f : f = Step(f)
<1>1. g \in [taken -> Nat] /\ \A a \in taken : g[a] = Tokens[a]
  BY TokensAre
<1>2. \A f : f = Step(f) <=> IsFold(taken, g, f)
  <2>1. ASSUME NEW f, NEW s \in SUBSET taken
        PROVE  FoldBody(g, f, s) = IF s = {} THEN 0 ELSE Some(s).usage + f[s \ {Some(s)}]
    <3>1. s # {} => Some(s) \in taken
      BY DEF Some
    <3>2. s # {} => g[Some(s)] = Some(s).usage
      BY <3>1
    <3>. HIDE DEF g
    <3>. QED
      BY <3>2 DEF FoldBody
  <2>. HIDE DEF g
  <2>. QED
    BY <2>1 DEF IsFold
<1>3. IsFold(taken, g, iter)
  <2>1. g \in [taken -> Int]
    BY <1>1
  <2>2. \E f : IsFold(taken, g, f)
    <3>. HIDE DEF g
    <3>. QED
      BY <2>1, FoldExists
  <2>3. \E f : f = Step(f)
    <3>. HIDE DEF g, Step
    <3>. QED
      BY <1>2, <2>2
  <2>4. iter = Step(iter)
    <3>. HIDE DEF g, Step
    <3>. QED
      BY <2>3
  <2>. HIDE DEF g, Step, iter
  <2>. QED
    BY <1>2, <2>4
<1>4. iter[taken] = SumOf(taken, g)
  <2>. HIDE DEF g, iter
  <2>. QED
    BY <1>1, <1>3, FoldIsSum
<1>5. SumOf(taken, g) = SumOf(taken, Tokens)
  <2>. HIDE DEF g
  <2>1. Dots(taken, g) = Dots(taken, Tokens)
    BY <1>1, SumSame
  <2>. QED
    BY <2>1 DEF SumOf
<1>6. MapThenSumSet(LAMBDA a : a.usage, taken) = iter[taken]
  BY DEF MapThenSumSet, MapThenFoldSet, Some
<1>. QED
  BY <1>4, <1>5, <1>6

\* The invariant counts the answers.
LEMMA InvCountsAnswers ==
  ASSUME PredictInv
  PROVE  AnswersCounted
<1>1. ASSUME NEW p \in PredictIds
      PROVE  /\ \A a, b \in Taken(p) : a.request = b.request => a = b
             /\ \A a \in Taken(p) : a.request \in requests[p]
             /\ Cardinality(requests[p]) <= MaxParseRetries + 1
             /\ predictTold[p].as = "complete" =>
                  /\ Cardinality(Taken(p)) = Cardinality(requests[p])
                  /\ predictTold[p].usage = MapThenSumSet(LAMBDA a : a.usage, Taken(p))
  <2>1. Counted(predictJobs[p], predictTold[p], requests[p], Taken(p))
    BY DEF PredictInv, AnswersInv
  <2>2. MapThenSumSet(LAMBDA a : a.usage, Taken(p)) = SumOf(Taken(p), Tokens)
    BY <2>1, UsagesAddUp DEF Counted
  <2>. QED
    BY <2>1, <2>2 DEF Counted
<1>. QED
  BY <1>1 DEF AnswersCounted, Taken

-----------------------------------------------------------------------------
(* The stack of calls. *)

Frames == [kind : {"go"}, job : {""}] \union [kind : {"start", "call", "complete"}, job : Jobs]

\* A job in a call of the host, or of the "then" of what the call returned.
Calling(at) == at \in {"calling", "attaching"}

\* On the stack s a job whose call of the host has not returned is calling, and calls once.
CallsFit(s, at) ==
  \A i \in 1..Len(s) :
    s[i].kind = "call" =>
      /\ Calling(at[s[i].job])
      /\ \A k \in 1..Len(s) : s[k].kind = "call" /\ s[k].job = s[i].job => k = i

\* The call that started job j has not returned.
Starting(s, j) == \E i \in 1..Len(s) : s[i].kind = "start" /\ s[i].job = j

-----------------------------------------------------------------------------
(* The invariant of the jobs. *)

PcValues == {"none", "ready", "calling", "attaching", "waiting", "ended", "delivered"}

CallKinds == {"chat", "tool", "json", "observer", "dataset", "model"}

LastKinds == CallKinds \union {""}

Completions == {"", "value", "error"}

Outcomes == {"", "ok", "error", "cancelled"}

HostType ==
  /\ stack \in Seq(Frames) /\ Len(stack) <= MaxDepth
  /\ pc \in [Jobs -> PcValues]
  /\ current \subseteq Jobs /\ cancelled \subseteq Jobs /\ known \subseteq Jobs
  /\ calls \in [Jobs -> Nat] /\ last \in [Jobs -> LastKinds]
  /\ after \in [Jobs -> Nat] /\ delivered \in [Jobs -> Nat]
  /\ promise \in [Jobs -> {"none", "pending", "settled"}]
  /\ callbacks \in [Jobs -> {"none", "held", "released"}]
  /\ completion \in [Jobs -> Completions]
  /\ failed \in [Jobs -> BOOLEAN] /\ failure \in [Jobs -> BOOLEAN]
  /\ outcome \in [Jobs -> Outcomes]

\* What the host knows of the jobs, and what still runs.
KnownInv ==
  /\ CallsFit(stack, pc)
  /\ cancelled \subseteq known
  /\ \A j \in Jobs :
       /\ pc[j] # "none" => j \in known \/ Starting(stack, j)
       /\ pc[j] = "delivered" => j \in known
       /\ j \in current => pc[j] \notin {"none", "ended", "delivered"}

\* How a job that ended, ended.
Ended(at, told, out, bad, cut) ==
  /\ told = IF at = "delivered" THEN 1 ELSE 0
  /\ out # "" <=> at \in {"ended", "delivered"}
  /\ out = "ok" => ~bad
  /\ out # "" => (out = "cancelled" <=> cut)

\* How a job ended, that it made no call after it was cancelled, and that its callbacks fit.
JobsInv ==
  \A j \in Jobs :
    /\ Ended(pc[j], delivered[j], outcome[j], failed[j] \/ failure[j], j \in cancelled)
    /\ after[j] = 0
    /\ promise[j] = "pending" <=> callbacks[j] = "held"

HostInv == HostType /\ KnownInv /\ JobsInv

\* Each call of the host was made by a goroutine of the Go call below it.
Rests(s) == \A i \in 1..Len(s) : s[i].kind = "call" => i > 1 /\ s[i - 1].kind \in {"start", "go"}

\* At most one job can go on, and none while host code runs: when a cancel comes, its job is in a
\* call or waits.  One that goes on, cancelled and not failed, has made a call, and not a tool's.
RunsInv ==
  /\ Rests(stack)
  /\ \A i, j \in Jobs : Runnable(i) /\ Runnable(j) => i = j
  /\ HostRuns => \A j \in Jobs : ~Runnable(j)
  /\ \A j \in Jobs :
       /\ calls[j] = 0 => pc[j] \in {"none", "ready", "ended", "delivered"}
       /\ j \in known \/ Starting(stack, j) => pc[j] # "none"
       /\ calls[j] = 0 => j \notin cancelled /\ (j \in known => pc[j] # "ready")
       /\ pc[j] = "ready" /\ j \in cancelled /\ ~failed[j] => last[j] # "tool"

\* A sequence without its last element.
LEMMA FrontIs ==
  ASSUME NEW T, NEW s \in Seq(T), s # <<>>
  PROVE  /\ Front(s) \in Seq(T) /\ Len(Front(s)) = Len(s) - 1 /\ Len(s) \in Nat /\ Len(s) >= 1
         /\ \A i \in 1..(Len(s) - 1) : Front(s)[i] = s[i]
         /\ Last(s) = s[Len(s)] /\ Last(s) \in T
<1>1. Len(s) \in Nat /\ Len(s) >= 1
  OBVIOUS
<1>2. 1 \in Int /\ Len(s) - 1 \in Int /\ Front(s) = SubSeq(s, 1, Len(s) - 1)
  BY <1>1 DEF Front
<1>. DEFINE t == SubSeq(s, 1, Len(s) - 1)
<1>3. t \in Seq(T) /\ Len(t) = Len(s) - 1 /\ \A i \in 1..(Len(s) - 1) : t[i] = s[i]
  BY <1>1
<1>4. Last(s) = s[Len(s)] /\ s[Len(s)] \in T
  BY <1>1 DEF Last
<1>. QED
  BY <1>1, <1>2, <1>3, <1>4

\* A frame is put on the stack: only a call of a job that now is calling, and was not.
LEMMA CallsPush ==
  ASSUME NEW s \in Seq(Frames), NEW frame \in Frames, NEW at, CallsFit(s, at),
         frame.kind = "call" =>
           /\ Calling(at[frame.job])
           /\ \A k \in 1..Len(s) : s[k].kind = "call" => s[k].job # frame.job
  PROVE  CallsFit(Append(s, frame), at)
<1>. DEFINE t == Append(s, frame)
            n == Len(s)
<1>1. n \in Nat /\ Len(t) = n + 1 /\ t[n + 1] = frame /\ \A i \in 1..n : t[i] = s[i]
  OBVIOUS
<1>2. \A i \in 1..(n + 1) : i \in 1..n \/ i = n + 1
  BY <1>1
<1>3. CallsFit(s, at)
  OBVIOUS
<1>4. \A i \in 1..n : s[i].kind = "call" =>
        /\ Calling(at[s[i].job])
        /\ \A k \in 1..n : s[k].kind = "call" /\ s[k].job = s[i].job => k = i
  BY <1>3 DEF CallsFit
<1>. HIDE DEF t
<1>5. ASSUME NEW i \in 1..(n + 1), t[i].kind = "call"
      PROVE  /\ Calling(at[t[i].job])
             /\ \A k \in 1..(n + 1) : t[k].kind = "call" /\ t[k].job = t[i].job => k = i
  <2>1. CASE i \in 1..n
    BY <1>1, <1>2, <1>4, <1>5, <2>1
  <2>2. CASE i = n + 1
    BY <1>1, <1>2, <1>5, <2>2
  <2>. QED
    BY <1>2, <2>1, <2>2
<1>. QED
  BY <1>1, <1>5 DEF CallsFit, t

\* A frame is taken off the stack: of the job of a call that returns no other call is left.
LEMMA CallsPop ==
  ASSUME NEW s \in Seq(Frames), s # <<>>, NEW at, CallsFit(s, at)
  PROVE  /\ CallsFit(Front(s), at)
         /\ Last(s).kind = "call" =>
              /\ Calling(at[Last(s).job])
              /\ \A k \in 1..Len(Front(s)) :
                   Front(s)[k].kind = "call" => Front(s)[k].job # Last(s).job
<1>. DEFINE n == Len(s)
            t == Front(s)
            e == Last(s)
<1>1. n \in Nat /\ n >= 1 /\ Len(t) = n - 1 /\ e = s[n] /\ \A i \in 1..(n - 1) : t[i] = s[i]
  BY FrontIs
<1>2. \A i \in 1..n : s[i].kind = "call" =>
        /\ Calling(at[s[i].job])
        /\ \A k \in 1..n : s[k].kind = "call" /\ s[k].job = s[i].job => k = i
  BY DEF CallsFit
<1>3. (1..(n - 1)) \subseteq 1..n /\ n \in 1..n /\ \A i \in 1..(n - 1) : i # n
  BY <1>1
<1>. HIDE DEF t, n, e
<1>4. CallsFit(t, at)
  BY <1>1, <1>2, <1>3 DEF CallsFit
<1>5. ASSUME e.kind = "call"
      PROVE  Calling(at[e.job]) /\ \A k \in 1..Len(t) : t[k].kind = "call" => t[k].job # e.job
  BY <1>1, <1>2, <1>3, <1>5
<1>. QED
  BY <1>4, <1>5 DEF t, e

\* What a job does while no call of it is on the stack.
LEMMA CallsMove ==
  ASSUME NEW s, NEW at, NEW to, CallsFit(s, at),
         \A i \in 1..Len(s) : s[i].kind = "call" => to[s[i].job] = at[s[i].job]
  PROVE  CallsFit(s, to)
  BY DEF CallsFit

\* A job that is not calling has no call on the stack.
LEMMA NoCall ==
  ASSUME NEW s, NEW at, CallsFit(s, at), NEW j, ~Calling(at[j])
  PROVE  \A i \in 1..Len(s) : s[i].kind = "call" => s[i].job # j
  BY DEF CallsFit

\* A job still starts when a frame is put on the stack.
LEMMA StartingPush ==
  ASSUME NEW s \in Seq(Frames), NEW frame \in Frames, NEW j,
         Starting(s, j) \/ (frame.kind = "start" /\ frame.job = j)
  PROVE  Starting(Append(s, frame), j)
<1>. DEFINE t == Append(s, frame)
            n == Len(s)
<1>1. n \in Nat /\ Len(t) = n + 1 /\ t[n + 1] = frame /\ \A i \in 1..n : t[i] = s[i]
  OBVIOUS
<1>2. \A i \in 1..n : i \in 1..(n + 1)
  BY <1>1
<1>3. n + 1 \in 1..(n + 1)
  BY <1>1
<1>. HIDE DEF t
<1>. QED
  BY <1>1, <1>2, <1>3 DEF Starting, t

\* A job still starts when a frame is taken off it, or that frame started it.
LEMMA StartingPop ==
  ASSUME NEW s \in Seq(Frames), s # <<>>, NEW j, Starting(s, j)
  PROVE  Starting(Front(s), j) \/ (Last(s).kind = "start" /\ Last(s).job = j)
<1>. DEFINE n == Len(s)
            t == Front(s)
<1>1. n \in Nat /\ Len(t) = n - 1 /\ Last(s) = s[n] /\ \A i \in 1..(n - 1) : t[i] = s[i]
  BY FrontIs
<1>2. PICK i \in 1..n : s[i].kind = "start" /\ s[i].job = j
  BY DEF Starting
<1>3. i \in 1..(n - 1) \/ i = n
  BY <1>1
<1>. HIDE DEF t
<1>. QED
  BY <1>1, <1>2, <1>3 DEF Starting, t

\* The innermost call, when there is one.
LEMMA TopIs ==
  ASSUME stack \in Seq(Frames)
  PROVE  /\ Top.kind # "loop" => stack # <<>> /\ Top = Last(stack) /\ Top \in Frames
         /\ Top.kind \in {"call", "start", "complete"} => Top.job \in Jobs
<1>1. CASE stack = <<>>
  BY <1>1 DEF Top, Frame
<1>2. CASE stack # <<>>
  <2>1. Top = Last(stack) /\ Last(stack) \in Frames
    BY <1>2, FrontIs DEF Top
  <2>. QED
    BY <1>2, <2>1 DEF Frames
<1>. QED
  BY <1>1, <1>2

\* The frames that are put on the stack.
LEMMA FramesAre ==
  /\ Go \in Frames /\ Go.kind = "go"
  /\ \A j \in Jobs, kind \in {"start", "call", "complete"} :
       /\ Frame(kind, j) \in Frames /\ Frame(kind, j).kind = kind /\ Frame(kind, j).job = j
  BY DEF Go, Frame, Frames

-----------------------------------------------------------------------------
(* The steps of the host and of the jobs. *)

\* Types of a step that puts a frame on the stack.
LEMMA PushedType ==
  ASSUME HostType, NEW frame \in Frames, Enter(frame), Len(stack) < MaxDepth
  PROVE  stack' = Append(stack, frame) /\ stack' \in Seq(Frames) /\ Len(stack') <= MaxDepth
<1>0. stack \in Seq(Frames) /\ stack' = Append(stack, frame)
  BY DEF HostType, Enter
<1>1. stack \in Seq(Frames) /\ Len(stack) \in Nat /\ stack' = Append(stack, frame)
  BY <1>0
<1>2. stack' \in Seq(Frames) /\ Len(stack') = Len(stack) + 1
  BY <1>1
<1>. QED
  BY <1>1, <1>2, WasmAssumption

\* Types of a step that takes one off.
LEMMA PoppedType ==
  ASSUME HostType, Top.kind # "loop", stack' = Front(stack)
  PROVE  /\ stack # <<>> /\ Top = Last(stack) /\ stack \in Seq(Frames)
         /\ stack' \in Seq(Frames) /\ Len(stack') <= MaxDepth
<1>1. stack \in Seq(Frames) /\ Len(stack) <= MaxDepth
  BY DEF HostType
<1>2. stack # <<>> /\ Top = Last(stack)
  BY <1>1, TopIs
<1>3. Front(stack) \in Seq(Frames) /\ Len(Front(stack)) = Len(stack) - 1 /\ Len(stack) \in Nat
  BY <1>1, <1>2, FrontIs
<1>. QED
  BY <1>1, <1>2, <1>3, WasmAssumption

\* The host learns of no job, and a frame is put on the stack.
LEMMA PushKnows ==
  ASSUME HostType, KnownInv, NEW frame \in Frames, stack' = Append(stack, frame),
         CallsFit(stack, pc'),
         frame.kind = "call" =>
           /\ Calling(pc'[frame.job])
           /\ \A k \in 1..Len(stack) : stack[k].kind = "call" => stack[k].job # frame.job,
         known' = known, cancelled' \subseteq known,
         \A j \in Jobs :
           /\ pc'[j] # "none" => pc[j] # "none" \/ (frame.kind = "start" /\ frame.job = j)
           /\ pc'[j] = "delivered" => j \in known
           /\ j \in current' => pc'[j] \notin {"none", "ended", "delivered"}
  PROVE  KnownInv'
<1>1. stack \in Seq(Frames)
  BY DEF HostType
<1>2. CallsFit(stack', pc')
  BY <1>1, CallsPush
<1>3. ASSUME NEW j \in Jobs, pc'[j] # "none"
      PROVE  j \in known \/ Starting(stack', j)
  <2>1. j \in known \/ Starting(stack, j) \/ (frame.kind = "start" /\ frame.job = j)
    BY <1>3 DEF KnownInv
  <2>. QED
    BY <1>1, <2>1, StartingPush
<1>. QED
  BY <1>2, <1>3 DEF KnownInv, CallsFit, Starting

\* The stack stays, and a job that calls or called nothing goes on.
LEMMA StayKnows ==
  ASSUME HostType, KnownInv, stack' = stack, CallsFit(stack, pc'),
         known' = known, cancelled' = cancelled,
         \A j \in Jobs :
           /\ pc'[j] # "none" => pc[j] # "none"
           /\ pc'[j] = "delivered" => j \in known
           /\ j \in current' => pc'[j] \notin {"none", "ended", "delivered"}
  PROVE  KnownInv'
  BY DEF KnownInv, CallsFit, Starting

\* While a job has no call on the stack, it goes on.
LEMMA CallsStay ==
  ASSUME HostType, CallsFit(stack, pc), NEW j \in Jobs, ~Calling(pc[j]),
         \A i \in Jobs : i # j => pc'[i] = pc[i]
  PROVE  CallsFit(stack, pc')
<1>1. ASSUME NEW i \in 1..Len(stack), stack[i].kind = "call"
      PROVE  stack[i].job \in Jobs
  <2>1. stack \in Seq(Frames)
    BY DEF HostType
  <2>2. stack[i] \in Frames
    BY <2>1
  <2>. QED
    BY <1>1, <2>2 DEF Frames
<1>2. \A i \in 1..Len(stack) : stack[i].kind = "call" => stack[i].job # j
  BY NoCall
<1>. QED
  BY <1>1, <1>2, CallsMove

\* The host starts a job.
LEMMA StartJobKeeps ==
  ASSUME HostInv, NEW j \in Jobs, StartJob(j)
  PROVE  HostInv'
<1>. USE DEF HostInv
<1>. DEFINE frame == Frame("start", j)
<1>1. /\ Len(stack) < MaxDepth /\ pc[j] = "none" /\ Enter(frame)
      /\ pc' = [pc EXCEPT ![j] = "ready"]
      /\ current' = current \union {j}
      /\ UNCHANGED <<predictVars, cancelled, known, calls, last, after, promise, callbacks,
                     completion, failed, failure, outcome, delivered>>
  BY DEF StartJob
<1>2. frame \in Frames /\ frame.kind = "start" /\ frame.job = j
  BY FramesAre
<1>. HIDE DEF frame
<1>3. stack' = Append(stack, frame) /\ stack' \in Seq(Frames) /\ Len(stack') <= MaxDepth
  BY <1>1, <1>2, PushedType
<1>4. pc' \in [Jobs -> PcValues] /\ pc'[j] = "ready" /\ \A i \in Jobs : i # j => pc'[i] = pc[i]
  BY <1>1 DEF HostType, PcValues
<1>5. HostType'
  BY <1>1, <1>3, <1>4 DEF HostType
<1>6. CallsFit(stack, pc')
  BY <1>1, <1>4, CallsStay DEF KnownInv, Calling
<1>7. KnownInv'
  BY <1>1, <1>2, <1>3, <1>4, <1>6, PushKnows DEF KnownInv
<1>8. JobsInv'
  BY <1>1, <1>4 DEF JobsInv, Ended
<1>. QED
  BY <1>5, <1>7, <1>8

\* The host cancels a job.
LEMMA CancelKeeps ==
  ASSUME HostInv, NEW j \in Jobs, Cancel(j)
  PROVE  HostInv'
<1>. USE DEF HostInv
<1>1. /\ Len(stack) < MaxDepth /\ Enter(Go)
      /\ j \in known /\ j \in current /\ j \notin cancelled
      /\ cancelled' = cancelled \union {j}
      /\ UNCHANGED <<predictVars, pc, current, known, calls, last, after, promise, callbacks,
                     completion, failed, failure, outcome, delivered>>
  BY DEF Cancel
<1>2. stack' = Append(stack, Go) /\ stack' \in Seq(Frames) /\ Len(stack') <= MaxDepth
  BY <1>1, FramesAre, PushedType
<1>3. HostType'
  BY <1>1, <1>2 DEF HostType
<1>4. Go \in Frames /\ Go.kind # "call" /\ Go.kind # "start"
  BY FramesAre
<1>5. CallsFit(stack, pc')
  BY <1>1 DEF KnownInv
<1>6. KnownInv'
  <2>1. cancelled' \subseteq known /\ known' = known
    BY <1>1 DEF KnownInv
  <2>2. \A i \in Jobs : /\ pc'[i] # "none" => pc[i] # "none"
                        /\ pc'[i] = "delivered" => i \in known
                        /\ i \in current' => pc'[i] \notin {"none", "ended", "delivered"}
    BY <1>1 DEF KnownInv
  <2>. QED
    BY <1>2, <1>4, <1>5, <2>1, <2>2, PushKnows
<1>7. JobsInv'
  <2>1. ASSUME NEW i \in Jobs
        PROVE  /\ Ended(pc[i], delivered[i], outcome[i], failed[i] \/ failure[i], i \in cancelled')
               /\ promise[i] = "pending" <=> callbacks[i] = "held"
    <3>1. /\ Ended(pc[i], delivered[i], outcome[i], failed[i] \/ failure[i], i \in cancelled)
          /\ promise[i] = "pending" <=> callbacks[i] = "held"
      BY DEF JobsInv
    <3>2. outcome[i] # "" => (i \in cancelled' <=> i \in cancelled)
      <4>1. i = j => outcome[i] = ""
        BY <1>1, <3>1 DEF KnownInv, Ended
      <4>. QED
        BY <1>1, <4>1
    <3>. QED
      BY <3>1, <3>2 DEF Ended
  <2>. QED
    BY <1>1, <2>1 DEF JobsInv
<1>. QED
  BY <1>3, <1>6, <1>7

\* The host calls a predict operation.
LEMMA InvokeKeeps ==
  ASSUME HostInv, Invoke
  PROVE  HostInv'
<1>. USE DEF HostInv
<1>1. Len(stack) < MaxDepth /\ Enter(Go) /\ UNCHANGED jobVars
  BY DEF Invoke
<1>2. stack' = Append(stack, Go) /\ stack' \in Seq(Frames) /\ Len(stack') <= MaxDepth
  BY <1>1, FramesAre, PushedType
<1>3. HostType'
  BY <1>1, <1>2 DEF HostType, jobVars
<1>4. Go \in Frames /\ Go.kind # "call" /\ Go.kind # "start"
  BY FramesAre
<1>5. KnownInv'
  <2>1. CallsFit(stack, pc') /\ cancelled' \subseteq known /\ known' = known
    BY <1>1 DEF KnownInv, jobVars
  <2>2. \A i \in Jobs : /\ pc'[i] # "none" => pc[i] # "none"
                        /\ pc'[i] = "delivered" => i \in known
                        /\ i \in current' => pc'[i] \notin {"none", "ended", "delivered"}
    BY <1>1 DEF KnownInv, jobVars
  <2>. QED
    BY <1>2, <1>4, <2>1, <2>2, PushKnows
<1>6. JobsInv'
  BY <1>1 DEF JobsInv, jobVars, Ended
<1>. QED
  BY <1>3, <1>5, <1>6

\* A frame is taken off the stack: the host knows the job it started.
LEMMA PopKnows ==
  ASSUME HostType, KnownInv, Top.kind # "loop", stack' = Front(stack), CallsFit(stack', pc'),
         known \subseteq known', Top.kind = "start" => Top.job \in known',
         cancelled' = cancelled, current' = current,
         \A j \in Jobs :
           /\ pc'[j] # "none" => pc[j] # "none"
           /\ pc'[j] = "delivered" => pc[j] = "delivered"
           /\ pc'[j] \in {"none", "ended", "delivered"} => pc[j] = pc'[j]
  PROVE  KnownInv'
<1>1. stack \in Seq(Frames) /\ stack # <<>> /\ Top = Last(stack)
  BY PoppedType
<1>2. ASSUME NEW j \in Jobs, pc'[j] # "none"
      PROVE  j \in known' \/ Starting(stack', j)
  <2>1. j \in known \/ Starting(stack, j)
    BY <1>2 DEF KnownInv
  <2>2. CASE j \in known
    BY <2>2
  <2>3. CASE Starting(stack, j)
    BY <1>1, <2>3, StartingPop
  <2>. QED
    BY <2>1, <2>2, <2>3
<1>3. cancelled' \subseteq known'
  BY DEF KnownInv
<1>4. ASSUME NEW j \in Jobs
      PROVE  /\ pc'[j] = "delivered" => j \in known'
             /\ j \in current' => pc'[j] \notin {"none", "ended", "delivered"}
  BY DEF KnownInv
<1>. QED
  BY <1>2, <1>3, <1>4 DEF KnownInv, CallsFit, Starting

\* A call into Go returns.
LEMMA GoReturnsKeeps ==
  ASSUME HostInv, GoReturns
  PROVE  HostInv'
<1>. USE DEF HostInv
<1>1. /\ Top.kind \in {"start", "go"} /\ stack' = Front(stack)
      /\ known' = IF Top.kind = "start" THEN known \union {Top.job} ELSE known
      /\ UNCHANGED <<predictVars, pc, current, cancelled, calls, last, after, promise, callbacks,
                     completion, failed, failure, outcome, delivered>>
  BY DEF GoReturns, GoRuns
<1>2. Top.kind # "loop"
  BY <1>1
<1>3. /\ stack # <<>> /\ Top = Last(stack) /\ stack \in Seq(Frames)
      /\ stack' \in Seq(Frames) /\ Len(stack') <= MaxDepth
  BY <1>1, <1>2, PoppedType
<1>4. known' \subseteq Jobs /\ known \subseteq known' /\ (Top.kind = "start" => Top.job \in known')
  BY <1>1, <1>3, TopIs DEF HostType
<1>5. HostType'
  BY <1>1, <1>3, <1>4 DEF HostType
<1>6. CallsFit(stack', pc')
  BY <1>1, <1>3, CallsPop DEF KnownInv
<1>7. KnownInv'
  BY <1>1, <1>2, <1>4, <1>6, PopKnows
<1>8. JobsInv'
  BY <1>1 DEF JobsInv, Ended
<1>. QED
  BY <1>5, <1>7, <1>8

\* The host's onComplete returns.
LEMMA OnCompleteReturnsKeeps ==
  ASSUME HostInv, OnCompleteReturns
  PROVE  HostInv'
<1>. USE DEF HostInv
<1>1. Top.kind = "complete" /\ stack' = Front(stack) /\ UNCHANGED jobVars
  BY DEF OnCompleteReturns
<1>2. Top.kind # "loop"
  BY <1>1
<1>3. /\ stack # <<>> /\ Top = Last(stack) /\ stack \in Seq(Frames)
      /\ stack' \in Seq(Frames) /\ Len(stack') <= MaxDepth
  BY <1>1, <1>2, PoppedType
<1>4. HostType'
  BY <1>1, <1>3 DEF HostType, jobVars
<1>5. CallsFit(stack', pc')
  BY <1>1, <1>3, CallsPop DEF KnownInv, jobVars
<1>6. KnownInv'
  BY <1>1, <1>2, <1>5, PopKnows DEF jobVars
<1>7. JobsInv'
  BY <1>1 DEF JobsInv, jobVars, Ended
<1>. QED
  BY <1>4, <1>6, <1>7

\* What a job calls is one of the kinds of calls, and chats an agent's first or after a tool's.
LEMMA KindsAre ==
  ASSUME NEW j \in Jobs, NEW kind \in Kinds(j)
  PROVE  /\ kind \in CallKinds
         /\ kind = "chat" => calls[j] = 0 \/ last[j] = "tool"
<1>1. Operation[j] \in {"compile", "pipeline.run", "optimize", "agent.run"}
  BY WasmAssumption
<1>2. CASE Operation[j] = "optimize"
  BY <1>2 DEF Kinds, CallKinds
<1>3. CASE Operation[j] = "agent.run"
  BY <1>3 DEF Kinds, CallKinds
<1>4. CASE Operation[j] \in {"compile", "pipeline.run"}
  BY <1>4 DEF Kinds, CallKinds
<1>. QED
  BY <1>1, <1>2, <1>3, <1>4

\* A function of the jobs, with another value for one of them.
LEMMA Updated ==
  ASSUME NEW T, NEW f \in [Jobs -> T], NEW g, NEW j \in Jobs, NEW x \in T, g = [f EXCEPT ![j] = x]
  PROVE  g \in [Jobs -> T] /\ g[j] = x /\ \A i \in Jobs : i # j => g[i] = f[i]
  OBVIOUS

\* A job that calls the host was not cancelled: of one that was, the call before was no tool's.
LEMMA NeverAgain ==
  ASSUME RunsInv, NEW j \in Jobs, pc[j] = "ready", NEW kind \in Kinds(j), MayCall(j, kind)
  PROVE  j \notin cancelled
<1>1. SUFFICES ASSUME j \in cancelled PROVE FALSE
  OBVIOUS
<1>2. kind = "chat" /\ ~failed[j]
  BY <1>1 DEF MayCall
<1>3. calls[j] # 0 /\ last[j] # "tool"
  BY <1>1, <1>2 DEF RunsInv
<1>. QED
  BY <1>2, <1>3, KindsAre

\* A job calls the host.
LEMMA CallHostKeeps ==
  ASSUME HostInv, RunsInv, NEW j \in Jobs, CallHost(j)
  PROVE  HostInv'
<1>. USE DEF HostInv
<1>. DEFINE frame == Frame("call", j)
<1>1. /\ pc[j] = "ready" /\ Len(stack) < MaxDepth /\ Enter(frame)
      /\ after' = [after EXCEPT ![j] = IF j \in cancelled THEN @ + 1 ELSE @]
      /\ pc' = [pc EXCEPT ![j] = "calling"]
      /\ calls' = [calls EXCEPT ![j] = @ + 1]
      /\ UNCHANGED <<current, cancelled, known, promise, callbacks, completion, failed, failure,
                     outcome, delivered>>
  BY DEF CallHost
<1>2. PICK kind \in Kinds(j) : MayCall(j, kind) /\ last' = [last EXCEPT ![j] = kind]
  BY DEF CallHost
<1>3. frame \in Frames /\ frame.kind = "call" /\ frame.job = j
  BY FramesAre
<1>. HIDE DEF frame
<1>4. stack' = Append(stack, frame) /\ stack' \in Seq(Frames) /\ Len(stack') <= MaxDepth
  BY <1>1, <1>3, PushedType
<1>5. pc' \in [Jobs -> PcValues] /\ pc'[j] = "calling" /\ \A i \in Jobs : i # j => pc'[i] = pc[i]
  BY <1>1 DEF HostType, PcValues
<1>6. last' \in [Jobs -> LastKinds]
  <2>1. kind \in LastKinds /\ last \in [Jobs -> LastKinds]
    BY KindsAre DEF HostType, LastKinds
  <2>. QED
    BY <1>2, <2>1
<1>7. calls' \in [Jobs -> Nat]
  <2>. DEFINE more == calls[j] + 1
  <2>1. more \in Nat /\ calls \in [Jobs -> Nat] /\ calls' = [calls EXCEPT ![j] = more]
    BY <1>1 DEF HostType
  <2>. HIDE DEF more
  <2>. QED
    BY <2>1
<1>8. after' = after
  <2>1. j \notin cancelled
    BY <1>1, <1>2, NeverAgain
  <2>2. after' = [after EXCEPT ![j] = after[j]] /\ after \in [Jobs -> Nat]
    BY <1>1, <2>1 DEF HostType
  <2>. QED
    BY <2>2
<1>9. HostType'
  BY <1>1, <1>4, <1>5, <1>6, <1>7, <1>8 DEF HostType
<1>10. ~Calling(pc[j])
  BY <1>1 DEF Calling
<1>11. CallsFit(stack, pc')
  BY <1>5, <1>10, CallsStay DEF KnownInv
<1>12. Calling(pc'[j]) /\ \A k \in 1..Len(stack) : stack[k].kind = "call" => stack[k].job # j
  <2>1. CallsFit(stack, pc) /\ Calling(pc'[j])
    BY <1>5 DEF KnownInv, Calling
  <2>. QED
    BY <1>10, <2>1, NoCall
<1>13. KnownInv'
  BY <1>1, <1>3, <1>4, <1>5, <1>11, <1>12, PushKnows DEF KnownInv
<1>14. JobsInv'
  <2>1. \A i \in Jobs : pc'[i] # pc[i] => pc[i] = "ready" /\ pc'[i] = "calling"
    BY <1>1, <1>5
  <2>2. ASSUME NEW i \in Jobs
        PROVE  Ended(pc'[i], delivered[i], outcome[i], failed[i] \/ failure[i], i \in cancelled)
    <3>1. Ended(pc[i], delivered[i], outcome[i], failed[i] \/ failure[i], i \in cancelled)
      BY DEF JobsInv
    <3>. QED
      BY <2>1, <3>1 DEF Ended
  <2>. QED
    BY <1>1, <1>8, <2>2 DEF JobsInv
<1>. QED
  BY <1>9, <1>13, <1>14

\* What is kept of a failed call: nothing but that job's marks change, and a tool whose answer comes
\* after its job was cancelled fails it.
Marks(j) ==
  /\ failed' \in [Jobs -> BOOLEAN] /\ failure' \in [Jobs -> BOOLEAN]
  /\ \A i \in Jobs : i # j => failed'[i] = failed[i] /\ failure'[i] = failure[i]
  /\ last[j] = "tool" /\ j \in cancelled => failed'[j]

\* The end of a call marks its job.
LEMMA FailMarks ==
  ASSUME HostType, NEW j \in Jobs, Fail(j, last[j]) \/ Answered(j)
  PROVE  Marks(j)
<1>. DEFINE marked(f) == [f EXCEPT ![j] = TRUE]
<1>1. /\ failed \in [Jobs -> BOOLEAN] /\ failure \in [Jobs -> BOOLEAN]
      /\ \A f \in [Jobs -> BOOLEAN] :
           marked(f) \in [Jobs -> BOOLEAN] /\ marked(f)[j] /\ \A i \in Jobs : i # j => marked(f)[i] = f[i]
  BY DEF HostType
<1>2. ASSUME NEW kind, Fail(j, kind), kind = last[j] PROVE Marks(j)
  <2>1. CASE kind \in {"observer", "dataset"}
    BY <1>1, <1>2, <2>1 DEF Fail, Marks
  <2>2. CASE kind \notin {"observer", "dataset"}
    BY <1>1, <1>2, <2>2 DEF Fail, Marks
  <2>. QED
    BY <2>1, <2>2
<1>3. CASE Answered(j)
  <2>1. CASE last[j] = "tool" /\ j \in cancelled
    BY <1>2, <1>3, <2>1 DEF Answered
  <2>2. CASE ~(last[j] = "tool" /\ j \in cancelled)
    BY <1>1, <1>3, <2>2 DEF Answered, Marks
  <2>. QED
    BY <2>1, <2>2
<1>. QED
  BY <1>2, <1>3

\* A job that goes on, whatever it met, has not ended; its promise and its callbacks fit.
LEMMA GoesOnKeeps ==
  ASSUME HostInv, NEW j \in Jobs, pc[j] \in {"calling", "attaching", "waiting"},
         pc'[j] \in {"ready", "attaching", "waiting"},
         \A i \in Jobs : i # j => pc'[i] = pc[i],
         \A i \in Jobs : i # j => failed'[i] = failed[i] /\ failure'[i] = failure[i],
         UNCHANGED <<cancelled, after, outcome, delivered>>,
         \A i \in Jobs : promise'[i] = "pending" <=> callbacks'[i] = "held"
  PROVE  JobsInv'
<1>1. ASSUME NEW i \in Jobs
      PROVE  Ended(pc'[i], delivered[i], outcome[i], failed'[i] \/ failure'[i], i \in cancelled)
  <2>1. Ended(pc[i], delivered[i], outcome[i], failed[i] \/ failure[i], i \in cancelled)
    BY DEF HostInv, JobsInv
  <2>2. CASE i = j
    BY <2>1, <2>2 DEF Ended
  <2>3. CASE i # j
    <3>1. pc'[i] = pc[i] /\ failed'[i] = failed[i] /\ failure'[i] = failure[i]
      BY <2>3
    <3>. QED
      BY <2>1, <3>1
  <2>. QED
    BY <2>2, <2>3
<1>2. \A i \in Jobs : after[i] = 0
  BY DEF HostInv, JobsInv
<1>. QED
  BY <1>1, <1>2 DEF JobsInv

\* What a channel holds.
LEMMA CompletionsAre ==
  "" \in Completions /\ "value" \in Completions /\ "error" \in Completions
  BY DEF Completions

\* A job's promise changes, and its callbacks with it.
LEMMA PromisesFit ==
  ASSUME HostInv, NEW j \in Jobs,
         NEW x \in {"none", "pending", "settled"}, NEW y \in {"none", "held", "released"},
         NEW z \in Completions, x = "pending" <=> y = "held",
         promise' = [promise EXCEPT ![j] = x], callbacks' = [callbacks EXCEPT ![j] = y],
         completion' = [completion EXCEPT ![j] = z]
  PROVE  /\ promise' \in [Jobs -> {"none", "pending", "settled"}]
         /\ callbacks' \in [Jobs -> {"none", "held", "released"}]
         /\ completion' \in [Jobs -> Completions]
         /\ \A i \in Jobs : promise'[i] = "pending" <=> callbacks'[i] = "held"
         /\ completion'[j] = z /\ \A i \in Jobs : i # j => completion'[i] = completion[i]
<1>. USE DEF HostInv
<1>1. /\ promise' \in [Jobs -> {"none", "pending", "settled"}] /\ promise'[j] = x
      /\ \A i \in Jobs : i # j => promise'[i] = promise[i]
  BY Updated DEF HostType
<1>2. /\ callbacks' \in [Jobs -> {"none", "held", "released"}] /\ callbacks'[j] = y
      /\ \A i \in Jobs : i # j => callbacks'[i] = callbacks[i]
  BY Updated DEF HostType
<1>3. /\ completion' \in [Jobs -> Completions] /\ completion'[j] = z
      /\ \A i \in Jobs : i # j => completion'[i] = completion[i]
  BY Updated DEF HostType
<1>. QED
  BY <1>1, <1>2, <1>3 DEF JobsInv

\* A call of the host leaves the stack, and its job goes on or waits.
LEMMA LeavesKeeps ==
  ASSUME HostInv, NEW j \in Jobs, j = Top.job, Top.kind = "call", stack' = Front(stack),
         NEW to \in {"ready", "waiting"}, pc' = [pc EXCEPT ![j] = to],
         failed' \in [Jobs -> BOOLEAN], failure' \in [Jobs -> BOOLEAN],
         \A i \in Jobs : i # j => failed'[i] = failed[i] /\ failure'[i] = failure[i],
         UNCHANGED <<current, cancelled, known, calls, last, after, outcome, delivered>>,
         promise' \in [Jobs -> {"none", "pending", "settled"}],
         callbacks' \in [Jobs -> {"none", "held", "released"}],
         completion' \in [Jobs -> Completions],
         \A i \in Jobs : promise'[i] = "pending" <=> callbacks'[i] = "held"
  PROVE  HostInv'
<1>. USE DEF HostInv
<1>1. Top.kind # "loop" /\ Top.kind # "start"
  OBVIOUS
<1>2. /\ stack # <<>> /\ Top = Last(stack) /\ stack \in Seq(Frames)
      /\ stack' \in Seq(Frames) /\ Len(stack') <= MaxDepth
  BY <1>1, PoppedType
<1>3. /\ CallsFit(stack', pc) /\ Calling(pc[j])
      /\ \A k \in 1..Len(stack') : stack'[k].kind = "call" => stack'[k].job # j
  BY <1>2, CallsPop DEF KnownInv
<1>4. /\ pc' \in [Jobs -> PcValues] /\ pc'[j] = to
      /\ \A i \in Jobs : i # j => pc'[i] = pc[i]
  BY DEF HostType, PcValues
<1>5. HostType'
  BY <1>2, <1>4 DEF HostType
<1>6. CallsFit(stack', pc')
  <2>1. ASSUME NEW i \in 1..Len(stack'), stack'[i].kind = "call"
        PROVE  stack'[i].job \in Jobs
    <3>1. stack'[i] \in Frames
      BY <1>2
    <3>. QED
      BY <2>1, <3>1 DEF Frames
  <2>2. ASSUME NEW i \in 1..Len(stack'), stack'[i].kind = "call"
        PROVE  pc'[stack'[i].job] = pc[stack'[i].job]
    <3>1. stack'[i].job \in Jobs /\ stack'[i].job # j
      BY <1>3, <2>1, <2>2
    <3>. QED
      BY <1>4, <3>1
  <2>. QED
    BY <1>3, <2>2 DEF CallsFit
<1>7. KnownInv'
  <2>1. \A i \in Jobs :
          /\ pc'[i] # "none" => pc[i] # "none"
          /\ pc'[i] = "delivered" => pc[i] = "delivered"
          /\ pc'[i] \in {"none", "ended", "delivered"} => pc[i] = pc'[i]
    BY <1>3, <1>4 DEF Calling
  <2>. QED
    BY <1>1, <1>6, <2>1, PopKnows
<1>8. JobsInv'
  <2>1. pc[j] \in {"calling", "attaching", "waiting"}
    BY <1>3 DEF Calling
  <2>. QED
    BY <1>4, <2>1, GoesOnKeeps
<1>. QED
  BY <1>5, <1>7, <1>8

\* A host function returns.
LEMMA HostReturnsKeeps ==
  ASSUME HostInv, HostReturns
  PROVE  HostInv'
<1>. USE DEF HostInv
<1>1. PICK j : j = Top.job
  OBVIOUS
<1>2. /\ Top.kind = "call" /\ pc[j] = "calling"
      /\ UNCHANGED <<predictVars, current, cancelled, known, calls, last, after, outcome, delivered>>
  BY <1>1 DEF HostReturns
<1>3. j \in Jobs
  <2>1. stack \in Seq(Frames)
    BY DEF HostType
  <2>. QED
    BY <1>1, <1>2, <2>1, TopIs
<1>4. CASE /\ pc' = [pc EXCEPT ![j] = "ready"]
           /\ Answered(j) \/ Fail(j, last[j])
           /\ stack' = Front(stack)
           /\ UNCHANGED <<promise, callbacks, completion>>
  <2>1. Marks(j)
    BY <1>3, <1>4, FailMarks
  <2>2. /\ promise' \in [Jobs -> {"none", "pending", "settled"}]
        /\ callbacks' \in [Jobs -> {"none", "held", "released"}]
        /\ completion' \in [Jobs -> Completions]
        /\ \A i \in Jobs : promise'[i] = "pending" <=> callbacks'[i] = "held"
    BY <1>4 DEF HostType, JobsInv
  <2>. QED
    BY <1>1, <1>2, <1>3, <1>4, <2>1, <2>2, LeavesKeeps DEF Marks
<1>5. CASE /\ pc' = [pc EXCEPT ![j] = "attaching"]
           /\ promise' = [promise EXCEPT ![j] = "pending"]
           /\ callbacks' = [callbacks EXCEPT ![j] = "held"]
           /\ completion' = [completion EXCEPT ![j] = ""]
           /\ UNCHANGED <<stack, failed, failure>>
  <2>1. /\ pc' \in [Jobs -> PcValues] /\ pc'[j] = "attaching"
        /\ \A i \in Jobs : i # j => pc'[i] = pc[i]
    BY <1>3, <1>5 DEF HostType, PcValues
  <2>2. /\ promise' \in [Jobs -> {"none", "pending", "settled"}]
        /\ callbacks' \in [Jobs -> {"none", "held", "released"}]
        /\ completion' \in [Jobs -> Completions]
        /\ \A i \in Jobs : promise'[i] = "pending" <=> callbacks'[i] = "held"
    BY <1>3, <1>5, PromisesFit, CompletionsAre
  <2>3. HostType'
    BY <1>2, <1>5, <2>1, <2>2 DEF HostType
  <2>4. CallsFit(stack, pc')
    <3>1. CallsFit(stack, pc) /\ \A i \in Jobs : Calling(pc'[i]) <=> Calling(pc[i])
      BY <1>2, <2>1 DEF Calling, KnownInv
    <3>2. ASSUME NEW i \in 1..Len(stack), stack[i].kind = "call" PROVE stack[i].job \in Jobs
      <4>1. stack[i] \in Frames
        BY DEF HostType
      <4>. QED
        BY <3>2, <4>1 DEF Frames
    <3>. QED
      BY <3>1, <3>2 DEF CallsFit
  <2>5. KnownInv'
    BY <1>2, <1>5, <2>1, <2>4, StayKnows DEF KnownInv
  <2>6. JobsInv'
    BY <1>2, <1>3, <1>5, <2>1, <2>2, GoesOnKeeps
  <2>. QED
    BY <2>3, <2>5, <2>6
<1>. QED
  BY <1>1, <1>4, <1>5 DEF HostReturns

\* Go's callbacks were attached to a promise, or the host's "then" threw.
LEMMA AttachedKeeps ==
  ASSUME HostInv, Attached
  PROVE  HostInv'
<1>. USE DEF HostInv
<1>1. PICK j : j = Top.job
  OBVIOUS
<1>2. /\ Top.kind = "call" /\ pc[j] = "attaching" /\ stack' = Front(stack)
      /\ UNCHANGED <<predictVars, current, cancelled, known, calls, last, after, outcome, delivered>>
  BY <1>1 DEF Attached
<1>3. j \in Jobs
  <2>1. stack \in Seq(Frames)
    BY DEF HostType
  <2>. QED
    BY <1>1, <1>2, <2>1, TopIs
<1>4. CASE /\ pc' = [pc EXCEPT ![j] = "waiting"]
           /\ UNCHANGED <<promise, callbacks, completion, failed, failure>>
  <2>1. /\ promise' \in [Jobs -> {"none", "pending", "settled"}]
        /\ callbacks' \in [Jobs -> {"none", "held", "released"}]
        /\ completion' \in [Jobs -> Completions]
        /\ failed' \in [Jobs -> BOOLEAN] /\ failure' \in [Jobs -> BOOLEAN]
        /\ \A i \in Jobs : promise'[i] = "pending" <=> callbacks'[i] = "held"
    BY <1>4 DEF HostType, JobsInv
  <2>2. \A i \in Jobs : failed'[i] = failed[i] /\ failure'[i] = failure[i]
    BY <1>4
  <2>. QED
    BY <1>1, <1>2, <1>3, <1>4, <2>1, <2>2, LeavesKeeps
<1>5. CASE /\ pc' = [pc EXCEPT ![j] = "ready"]
           /\ Fail(j, last[j])
           /\ promise' = [promise EXCEPT ![j] = "none"]
           /\ callbacks' = [callbacks EXCEPT ![j] = "released"]
           /\ completion' = [completion EXCEPT ![j] = ""]
  <2>1. Marks(j)
    BY <1>3, <1>5, FailMarks
  <2>2. /\ promise' \in [Jobs -> {"none", "pending", "settled"}]
        /\ callbacks' \in [Jobs -> {"none", "held", "released"}]
        /\ completion' \in [Jobs -> Completions]
        /\ \A i \in Jobs : promise'[i] = "pending" <=> callbacks'[i] = "held"
    BY <1>3, <1>5, PromisesFit, CompletionsAre
  <2>. QED
    BY <1>1, <1>2, <1>3, <1>5, <2>1, <2>2, LeavesKeeps DEF Marks
<1>. QED
  BY <1>1, <1>4, <1>5 DEF Attached

\* A job's wait for a promise ends, with the promise's answer or with the context.
LEMMA WakeKeeps ==
  ASSUME HostInv, NEW j \in Jobs, Wake(j)
  PROVE  HostInv'
<1>. USE DEF HostInv
<1>1. /\ pc[j] = "waiting" /\ pc' = [pc EXCEPT ![j] = "ready"]
      /\ UNCHANGED <<predictVars, stack, current, cancelled, known, calls, last, after, promise, outcome,
                     delivered, callbacks>>
  BY DEF Wake, Received, StopsWaiting
<1>2. /\ Fail(j, last[j]) \/ Answered(j)
      /\ completion' = completion \/ completion' = [completion EXCEPT ![j] = ""]
  BY DEF Wake, Received, StopsWaiting
<1>3. Marks(j)
  BY <1>2, FailMarks
<1>4. /\ pc' \in [Jobs -> PcValues] /\ pc'[j] = "ready"
      /\ \A i \in Jobs : i # j => pc'[i] = pc[i]
  BY <1>1 DEF HostType, PcValues
<1>5. completion' \in [Jobs -> Completions]
  <2>1. CASE completion' = completion
    BY <2>1 DEF HostType
  <2>2. CASE completion' = [completion EXCEPT ![j] = ""]
    BY <2>2, CompletionsAre, Zenon DEF HostType
  <2>. QED
    BY <1>2, <2>1, <2>2
<1>6. HostType'
  BY <1>1, <1>3, <1>4, <1>5 DEF HostType, Marks
<1>7. CallsFit(stack, pc')
  BY <1>1, <1>4, CallsStay DEF KnownInv, Calling
<1>8. KnownInv'
  BY <1>1, <1>4, <1>7, StayKnows DEF KnownInv
<1>9. JobsInv'
  <2>1. \A i \in Jobs : promise'[i] = "pending" <=> callbacks'[i] = "held"
    BY <1>1 DEF JobsInv
  <2>. QED
    BY <1>1, <1>3, <1>4, <2>1, GoesOnKeeps DEF Marks
<1>. QED
  BY <1>6, <1>8, <1>9

\* A promise settles.
LEMMA SettleKeeps ==
  ASSUME HostInv, NEW j \in Jobs, Settle(j)
  PROVE  HostInv'
<1>. USE DEF HostInv
<1>1. /\ Len(stack) < MaxDepth /\ Enter(Go)
      /\ promise' = [promise EXCEPT ![j] = "settled"]
      /\ callbacks' = [callbacks EXCEPT ![j] = "released"]
      /\ UNCHANGED <<predictVars, pc, current, cancelled, known, calls, last, after, failed, failure,
                     outcome, delivered>>
  BY DEF Settle
<1>2. PICK answer \in {"value", "error"} : completion' = [completion EXCEPT ![j] = answer]
  BY DEF Settle
<1>3. stack' = Append(stack, Go) /\ stack' \in Seq(Frames) /\ Len(stack') <= MaxDepth
  BY <1>1, FramesAre, PushedType
<1>4. /\ promise' \in [Jobs -> {"none", "pending", "settled"}]
      /\ callbacks' \in [Jobs -> {"none", "held", "released"}]
      /\ completion' \in [Jobs -> Completions]
      /\ \A i \in Jobs : promise'[i] = "pending" <=> callbacks'[i] = "held"
  BY <1>1, <1>2, PromisesFit, CompletionsAre
<1>5. HostType'
  BY <1>1, <1>3, <1>4 DEF HostType
<1>6. Go \in Frames /\ Go.kind # "call" /\ Go.kind # "start"
  BY FramesAre
<1>7. KnownInv'
  <2>1. CallsFit(stack, pc') /\ cancelled' \subseteq known /\ known' = known
    BY <1>1 DEF KnownInv
  <2>2. \A i \in Jobs : /\ pc'[i] # "none" => pc[i] # "none"
                        /\ pc'[i] = "delivered" => i \in known
                        /\ i \in current' => pc'[i] \notin {"none", "ended", "delivered"}
    BY <1>1 DEF KnownInv
  <2>. QED
    BY <1>3, <1>6, <2>1, <2>2, PushKnows
<1>8. JobsInv'
  BY <1>1, <1>4, ZenonT(40) DEF JobsInv, Ended
<1>. QED
  BY <1>5, <1>7, <1>8

\* A job ends.
LEMMA EndJobKeeps ==
  ASSUME HostInv, NEW j \in Jobs, EndJob(j)
  PROVE  HostInv'
<1>. USE DEF HostInv
<1>1. /\ pc[j] = "ready" /\ pc' = [pc EXCEPT ![j] = "ended"] /\ current' = current \ {j}
      /\ UNCHANGED <<predictVars, stack, cancelled, known, calls, last, after, promise, callbacks,
                     completion, failed, failure, delivered>>
  BY DEF EndJob
<1>2. PICK out \in {"ok", "error", "cancelled"} :
        /\ outcome' = [outcome EXCEPT ![j] = out]
        /\ out = "cancelled" <=> j \in cancelled
        /\ out = "ok" => ~(failed[j] \/ failure[j])
  <2>1. PICK as \in {"ok", "error"} :
          /\ failed[j] \/ failure[j] => as = "error"
          /\ outcome' = [outcome EXCEPT ![j] = IF j \in cancelled THEN "cancelled" ELSE as]
    BY DEF EndJob
  <2>2. CASE j \in cancelled
    BY <2>1, <2>2
  <2>3. CASE j \notin cancelled
    BY <2>1, <2>3
  <2>. QED
    BY <2>2, <2>3
<1>3. /\ pc' \in [Jobs -> PcValues] /\ pc'[j] = "ended"
      /\ \A i \in Jobs : i # j => pc'[i] = pc[i]
  BY <1>1 DEF HostType, PcValues
<1>4. /\ outcome' \in [Jobs -> Outcomes] /\ outcome'[j] = out
      /\ \A i \in Jobs : i # j => outcome'[i] = outcome[i]
  <2>1. out \in Outcomes
    BY <1>2, Zenon DEF Outcomes
  <2>. QED
    BY <1>2, <2>1 DEF HostType
<1>5. HostType'
  BY <1>1, <1>3, <1>4 DEF HostType
<1>6. CallsFit(stack, pc')
  BY <1>1, <1>3, CallsStay DEF KnownInv, Calling
<1>7. KnownInv'
  BY <1>1, <1>3, <1>6, StayKnows DEF KnownInv
<1>8. JobsInv'
  <2>1. ASSUME NEW i \in Jobs
        PROVE  Ended(pc'[i], delivered[i], outcome'[i], failed[i] \/ failure[i], i \in cancelled)
    <3>1. Ended(pc[i], delivered[i], outcome[i], failed[i] \/ failure[i], i \in cancelled)
      BY DEF JobsInv
    <3>2. CASE i = j
      BY <1>1, <1>2, <1>3, <1>4, <3>1, <3>2 DEF Ended
    <3>3. CASE i # j
      BY <1>3, <1>4, <3>1, <3>3
    <3>. QED
      BY <3>2, <3>3
  <2>. QED
    BY <1>1, <2>1 DEF JobsInv
<1>. QED
  BY <1>5, <1>7, <1>8

\* A job's result is delivered, when no call is on the stack: its id was given to the host.
LEMMA DeliverKeeps ==
  ASSUME HostInv, NEW j \in Jobs, Deliver(j)
  PROVE  HostInv'
<1>. USE DEF HostInv
<1>. DEFINE frame == Frame("complete", j)
<1>1. /\ stack = <<>> /\ pc[j] = "ended" /\ pc' = [pc EXCEPT ![j] = "delivered"]
      /\ delivered' = [delivered EXCEPT ![j] = @ + 1]
      /\ stack' = <<Go, frame>>
      /\ UNCHANGED <<predictVars, current, cancelled, known, calls, last, after, promise, callbacks,
                     completion, failed, failure, outcome>>
  BY DEF Deliver
<1>2. /\ frame \in Frames /\ frame.kind = "complete" /\ Go \in Frames /\ Go.kind = "go"
  BY FramesAre
<1>. HIDE DEF frame
<1>3. stack' \in Seq(Frames) /\ Len(stack') = 2 /\ stack'[1] = Go /\ stack'[2] = frame
  BY <1>1, <1>2
<1>4. Len(stack') <= MaxDepth
  BY <1>3, WasmAssumption
<1>5. /\ pc' \in [Jobs -> PcValues] /\ pc'[j] = "delivered"
      /\ \A i \in Jobs : i # j => pc'[i] = pc[i]
  BY <1>1 DEF HostType, PcValues
<1>6. delivered[j] = 0
  <2>1. Ended(pc[j], delivered[j], outcome[j], failed[j] \/ failure[j], j \in cancelled)
    BY DEF JobsInv
  <2>. QED
    BY <1>1, <2>1 DEF Ended
<1>7. /\ delivered' \in [Jobs -> Nat] /\ delivered'[j] = 1
      /\ \A i \in Jobs : i # j => delivered'[i] = delivered[i]
  <2>. DEFINE n == delivered[j] + 1
  <2>1. delivered' = [delivered EXCEPT ![j] = n] /\ delivered \in [Jobs -> Nat]
    BY <1>1 DEF HostType
  <2>2. n = 1
    BY <1>6
  <2>. HIDE DEF n
  <2>. QED
    BY <2>1, <2>2
<1>8. HostType'
  BY <1>1, <1>3, <1>4, <1>5, <1>7 DEF HostType
<1>9. CallsFit(stack', pc')
  <2>1. \A i \in 1..Len(stack') : stack'[i].kind # "call"
    <3>1. \A i \in 1..2 : i = 1 \/ i = 2
      OBVIOUS
    <3>. QED
      BY <1>2, <1>3, <3>1
  <2>. QED
    BY <2>1 DEF CallsFit
<1>10. \A i \in Jobs : pc[i] # "none" => i \in known
  <2>1. ASSUME NEW i \in Jobs, Starting(stack, i) PROVE FALSE
    BY <1>1, <2>1 DEF Starting
  <2>. QED
    BY <2>1 DEF KnownInv
<1>11. KnownInv'
  <2>1. cancelled' \subseteq known'
    BY <1>1 DEF KnownInv
  <2>2. ASSUME NEW i \in Jobs
        PROVE  /\ pc'[i] # "none" => i \in known'
               /\ pc'[i] = "delivered" => i \in known'
               /\ i \in current' => pc'[i] \notin {"none", "ended", "delivered"}
    BY <1>1, <1>5, <1>10 DEF KnownInv
  <2>. QED
    BY <1>9, <2>1, <2>2 DEF KnownInv, CallsFit, Starting
<1>12. JobsInv'
  <2>1. ASSUME NEW i \in Jobs
        PROVE  Ended(pc'[i], delivered'[i], outcome[i], failed[i] \/ failure[i], i \in cancelled)
    <3>1. Ended(pc[i], delivered[i], outcome[i], failed[i] \/ failure[i], i \in cancelled)
      BY DEF JobsInv
    <3>2. CASE i = j
      BY <1>1, <1>5, <1>7, <3>1, <3>2 DEF Ended
    <3>3. CASE i # j
      BY <1>5, <1>7, <3>1, <3>3
    <3>. QED
      BY <3>2, <3>3
  <2>. QED
    BY <1>1, <2>1 DEF JobsInv
<1>. QED
  BY <1>8, <1>11, <1>12

-----------------------------------------------------------------------------
(* One job at a time.                                                        *)

\* What RunsInv says of a job: n calls made, the last one kind, at is where it is, bad that it
\* failed, cut that it was cancelled, seen that the host knows its id.
Made(n, kind, at, bad, cut, seen) ==
  /\ n = 0 => at \in {"none", "ready", "ended", "delivered"} /\ ~cut /\ (seen => at # "ready")
  /\ at = "ready" /\ cut /\ ~bad => kind # "tool"

AllMade == \A j \in Jobs : Made(calls[j], last[j], pc[j], failed[j], j \in cancelled, j \in known)

NoneAgain == \A j \in Jobs : j \in known \/ Starting(stack, j) => pc[j] # "none"

\* The parts of RunsInv.
LEMMA RunsParts ==
  RunsInv <=> /\ Rests(stack) /\ NoneAgain /\ AllMade
              /\ \A i, j \in Jobs : Runnable(i) /\ Runnable(j) => i = j
              /\ HostRuns => \A j \in Jobs : ~Runnable(j)
  BY DEF RunsInv, NoneAgain, AllMade, Made

\* A frame is put on the stack.
LEMMA Pushed ==
  ASSUME stack \in Seq(Frames), Rests(stack), NEW frame \in Frames, stack' = Append(stack, frame),
         frame.kind = "call" => GoRuns
  PROVE  /\ Rests(stack') /\ Top' = frame
         /\ \A j : Starting(stack', j) => Starting(stack, j) \/ (frame.kind = "start" /\ frame.job = j)
<1>. DEFINE s == stack
            t == Append(s, frame)
            n == Len(s)
<1>1. n \in Nat /\ Len(t) = n + 1 /\ t[n + 1] = frame /\ \A i \in 1..n : t[i] = s[i]
  OBVIOUS
<1>2. t # <<>> /\ Last(t) = frame
  BY <1>1 DEF Last
<1>3. frame.kind = "call" => n >= 1 /\ s[n].kind \in {"start", "go"}
  <2>1. ASSUME GoRuns PROVE s # <<>> /\ Last(s).kind \in {"start", "go"}
    BY <2>1 DEF GoRuns, Top, Frame
  <2>2. s # <<>> => n >= 1 /\ Last(s) = s[n]
    BY <1>1, FrontIs
  <2>. QED
    BY <2>1, <2>2
<1>4. \A i \in 1..(n + 1) : i \in 1..n \/ i = n + 1
  BY <1>1
<1>5. \A i \in 1..n : i > 1 => i - 1 \in 1..n /\ t[i - 1] = s[i - 1]
  BY <1>1
<1>6. n >= 1 => n + 1 > 1 /\ t[(n + 1) - 1] = s[n]
  BY <1>1
<1>7. \A i \in 1..n : s[i].kind = "call" => i > 1 /\ s[i - 1].kind \in {"start", "go"}
  BY DEF Rests
<1>8. stack' = t
  OBVIOUS
<1>. HIDE DEF t, s, n
<1>9. \A i \in 1..(n + 1) : t[i].kind = "call" => i > 1 /\ t[i - 1].kind \in {"start", "go"}
  <2>1. ASSUME NEW i \in 1..n, t[i].kind = "call" PROVE i > 1 /\ t[i - 1].kind \in {"start", "go"}
    BY <1>1, <1>5, <1>7, <2>1
  <2>. QED
    BY <1>1, <1>3, <1>4, <1>6, <2>1
<1>10. Rests(t)
  BY <1>1, <1>9 DEF Rests
<1>11. ASSUME NEW j, Starting(t, j) PROVE Starting(s, j) \/ (frame.kind = "start" /\ frame.job = j)
  <2>1. PICK i \in 1..(n + 1) : t[i].kind = "start" /\ t[i].job = j
    BY <1>1, <1>11 DEF Starting
  <2>. QED
    BY <1>1, <1>4, <2>1 DEF Starting, n
<1>. QED
  BY <1>2, <1>8, <1>10, <1>11 DEF Top, s

\* A frame is taken off the stack.
LEMMA Popped ==
  ASSUME stack \in Seq(Frames), stack # <<>>, Rests(stack), stack' = Front(stack)
  PROVE  /\ Rests(stack') /\ (Top.kind = "call" => GoRuns')
         /\ \A j : Starting(stack', j) => Starting(stack, j)
<1>. DEFINE s == stack
            t == Front(s)
            n == Len(s)
<1>1. /\ n \in Nat /\ n >= 1 /\ Len(t) = n - 1 /\ t \in Seq(Frames) /\ Last(s) = s[n]
      /\ \A i \in 1..(n - 1) : t[i] = s[i]
  BY FrontIs
<1>2. \A i \in 1..n : s[i].kind = "call" => i > 1 /\ s[i - 1].kind \in {"start", "go"}
  BY DEF Rests
<1>3. t # <<>> => n - 1 >= 1 /\ Last(t) = t[n - 1]
  BY <1>1, FrontIs
<1>4. n > 1 => t # <<>>
  BY <1>1
<1>5. Top = Last(s) /\ stack' = t
  BY DEF Top
<1>. HIDE DEF t, s, n
<1>6. \A i \in 1..(n - 1) : i \in 1..n /\ (i > 1 => i - 1 \in 1..(n - 1))
  BY <1>1
<1>7. Rests(t)
  <2>1. ASSUME NEW i \in 1..(n - 1), t[i].kind = "call"
        PROVE  i > 1 /\ t[i - 1].kind \in {"start", "go"}
    BY <1>1, <1>2, <1>6, <2>1
  <2>. QED
    BY <1>1, <2>1 DEF Rests
<1>8. ASSUME Top.kind = "call" PROVE GoRuns'
  <2>1. n > 1 /\ s[n - 1].kind \in {"start", "go"}
    BY <1>1, <1>2, <1>5, <1>8
  <2>2. t # <<>> /\ Last(t) = s[n - 1]
    <3>1. n - 1 \in 1..(n - 1)
      BY <1>1, <2>1
    <3>. QED
      BY <1>1, <1>3, <1>4, <2>1, <3>1
  <2>3. GoRuns' <=> (IF t = <<>> THEN Frame("loop", "") ELSE Last(t)).kind \in {"start", "go"}
    BY <1>5 DEF GoRuns, Top
  <2>. QED
    BY <2>1, <2>2, <2>3
<1>9. \A j : Starting(t, j) => Starting(s, j)
  BY <1>1, <1>6 DEF Starting, n
<1>. QED
  BY <1>5, <1>7, <1>8, <1>9 DEF s

\* No job but j moved.
Others(j) ==
  \A i \in Jobs : i # j =>
    /\ pc'[i] = pc[i] /\ completion'[i] = completion[i] /\ failed'[i] = failed[i]
    /\ calls'[i] = calls[i] /\ last'[i] = last[i]
    /\ i \in cancelled' <=> i \in cancelled

\* The others can go on as before.
LEMMA OthersRun ==
  ASSUME NEW j \in Jobs, Others(j)
  PROVE  \A i \in Jobs : i # j => (Runnable(i)' <=> Runnable(i))
<1>1. ASSUME NEW i \in Jobs, i # j PROVE Runnable(i)' <=> Runnable(i)
  <2>1. pc'[i] = pc[i] /\ completion'[i] = completion[i] /\ (i \in cancelled' <=> i \in cancelled)
    BY <1>1 DEF Others
  <2>. QED
    BY <2>1 DEF Runnable
<1>. QED
  BY <1>1

\* Host code calls into Go, and at most job j can go on after it.
LEMMA EntersRuns ==
  ASSUME HostInv, RunsInv, HostRuns, NEW j \in Jobs, Others(j), known' = known,
         NEW frame \in Frames, frame.kind \in {"start", "go"}, stack' = Append(stack, frame),
         frame.kind = "start" => frame.job = j, pc[j] # "none" => pc'[j] # "none",
         frame.kind = "start" => pc'[j] # "none",
         Made(calls'[j], last'[j], pc'[j], failed'[j], j \in cancelled', j \in known)
  PROVE  RunsInv'
<1>1. stack \in Seq(Frames)
  BY DEF HostInv, HostType
<1>2. /\ Rests(stack) /\ NoneAgain /\ AllMade
      /\ \A i \in Jobs : ~Runnable(i)
  BY RunsParts
<1>3. /\ Rests(stack') /\ Top' = frame
      /\ \A i : Starting(stack', i) => Starting(stack, i) \/ (frame.kind = "start" /\ frame.job = i)
  BY <1>1, <1>2, Pushed
<1>4. \A i, k \in Jobs : Runnable(i)' /\ Runnable(k)' => i = k
  BY <1>2, OthersRun
<1>5. ~HostRuns'
  BY <1>3 DEF HostRuns
<1>6. NoneAgain'
  BY <1>2, <1>3 DEF NoneAgain, Others
<1>7. AllMade'
  <2>1. ASSUME NEW i \in Jobs, i # j
        PROVE  Made(calls'[i], last'[i], pc'[i], failed'[i], i \in cancelled', i \in known')
    <3>1. Made(calls[i], last[i], pc[i], failed[i], i \in cancelled, i \in known)
      BY <1>2 DEF AllMade
    <3>. QED
      BY <2>1, <3>1 DEF Others, Made
  <2>2. \A i \in Jobs : Made(calls'[i], last'[i], pc'[i], failed'[i], i \in cancelled', i \in known')
    BY <2>1
  <2>. QED
    BY <2>2 DEF AllMade, Made
<1>. QED
  BY <1>3, <1>4, <1>5, <1>6, <1>7 DEF RunsInv, NoneAgain, AllMade, Made

\* The host starts a job.
LEMMA StartJobRuns ==
  ASSUME HostInv, RunsInv, NEW j \in Jobs, StartJob(j)
  PROVE  RunsInv'
<1>. DEFINE frame == Frame("start", j)
<1>1. /\ HostRuns /\ pc[j] = "none" /\ stack' = Append(stack, frame)
      /\ pc' = [pc EXCEPT ![j] = "ready"]
      /\ UNCHANGED <<known, calls, last, cancelled, completion, failed>>
  BY DEF StartJob, Enter
<1>2. frame \in Frames /\ frame.kind = "start" /\ frame.job = j
  BY FramesAre
<1>. HIDE DEF frame
<1>3. pc'[j] = "ready" /\ \A i \in Jobs : i # j => pc'[i] = pc[i]
  BY <1>1 DEF HostInv, HostType
<1>4. Others(j)
  BY <1>1, <1>3 DEF Others
<1>5. j \notin known /\ j \notin cancelled
  <2>1. j \notin known /\ cancelled \subseteq known
    BY <1>1 DEF HostInv, KnownInv, RunsInv
  <2>. QED
    BY <2>1
<1>6. Made(calls'[j], last'[j], pc'[j], failed'[j], j \in cancelled', j \in known)
  BY <1>1, <1>3, <1>5 DEF Made
<1>7. pc[j] # "none" => pc'[j] # "none"
  BY <1>3
<1>. QED
  BY <1>1, <1>2, <1>3, <1>4, <1>6, <1>7, EntersRuns

\* The host cancels a job: one in a call, or waiting.
LEMMA CancelRuns ==
  ASSUME HostInv, RunsInv, NEW j \in Jobs, Cancel(j)
  PROVE  RunsInv'
<1>1. /\ HostRuns /\ j \in current /\ cancelled' = cancelled \union {j} /\ stack' = Append(stack, Go)
      /\ UNCHANGED <<pc, known, calls, last, completion, failed>>
  BY DEF Cancel, Enter
<1>2. Go \in Frames /\ Go.kind = "go"
  BY FramesAre
<1>3. Others(j)
  BY <1>1 DEF Others
<1>4. pc[j] \notin {"none", "ready", "ended", "delivered"}
  <2>1. ~Runnable(j) /\ pc[j] \notin {"none", "ended", "delivered"}
    BY <1>1 DEF HostInv, KnownInv, RunsInv
  <2>. QED
    BY <2>1 DEF Runnable
<1>5. Made(calls'[j], last'[j], pc'[j], failed'[j], j \in cancelled', j \in known)
  <2>1. calls[j] # 0 /\ pc[j] # "ready"
    BY <1>4 DEF RunsInv
  <2>. QED
    BY <1>1, <2>1 DEF Made
<1>6. pc[j] # "none" => pc'[j] # "none"
  BY <1>1
<1>. QED
  BY <1>1, <1>2, <1>3, <1>5, <1>6, EntersRuns

\* A promise settles.
LEMMA SettleRuns ==
  ASSUME HostInv, RunsInv, NEW j \in Jobs, Settle(j)
  PROVE  RunsInv'
<1>1. /\ HostRuns /\ stack' = Append(stack, Go)
      /\ UNCHANGED <<pc, known, calls, last, cancelled, failed>>
  BY DEF Settle, Enter
<1>2. \A i \in Jobs : i # j => completion'[i] = completion[i]
  BY DEF Settle, HostInv, HostType
<1>3. Go \in Frames /\ Go.kind = "go"
  BY FramesAre
<1>4. Others(j)
  BY <1>1, <1>2 DEF Others
<1>5. Made(calls'[j], last'[j], pc'[j], failed'[j], j \in cancelled', j \in known)
  BY <1>1 DEF RunsInv, Made
<1>6. pc[j] # "none" => pc'[j] # "none"
  BY <1>1
<1>. QED
  BY <1>1, <1>3, <1>4, <1>5, <1>6, EntersRuns

\* The jobs do not move, and the stack changes.
LEMMA StackRuns ==
  ASSUME HostInv, RunsInv, UNCHANGED <<pc, known, calls, last, cancelled, completion, failed>>,
         Rests(stack'), \A j : Starting(stack', j) => Starting(stack, j),
         \A j \in Jobs : ~Runnable(j)
  PROVE  RunsInv'
<1>1. NoneAgain /\ AllMade
  BY RunsParts
<1>2. \A j \in Jobs : ~Runnable(j)'
  BY DEF Runnable
<1>3. NoneAgain' /\ AllMade'
  BY <1>1 DEF NoneAgain, AllMade, Made
<1>. QED
  BY <1>2, <1>3 DEF RunsInv, NoneAgain, AllMade, Made

\* The host calls a predict operation.
LEMMA InvokeRuns ==
  ASSUME HostInv, RunsInv, Invoke
  PROVE  RunsInv'
<1>1. /\ HostRuns /\ stack' = Append(stack, Go)
      /\ UNCHANGED <<pc, known, calls, last, cancelled, completion, failed>>
  BY DEF Invoke, Enter, jobVars
<1>2. stack \in Seq(Frames) /\ Go \in Frames /\ Go.kind = "go"
  BY FramesAre DEF HostInv, HostType
<1>3. Rests(stack') /\ \A j : Starting(stack', j) => Starting(stack, j)
  BY <1>1, <1>2, Pushed DEF RunsInv
<1>4. \A j \in Jobs : ~Runnable(j)
  BY <1>1 DEF RunsInv
<1>. QED
  BY <1>1, <1>3, <1>4, StackRuns

\* The host's onComplete returns.
LEMMA OnCompleteReturnsRuns ==
  ASSUME HostInv, RunsInv, OnCompleteReturns
  PROVE  RunsInv'
<1>1. /\ Top.kind = "complete" /\ stack' = Front(stack)
      /\ UNCHANGED <<pc, known, calls, last, cancelled, completion, failed>>
  BY DEF OnCompleteReturns, jobVars
<1>2. stack \in Seq(Frames) /\ stack # <<>>
  BY <1>1, TopIs DEF HostInv, HostType
<1>3. Rests(stack') /\ \A j : Starting(stack', j) => Starting(stack, j)
  BY <1>1, <1>2, Popped DEF RunsInv
<1>4. \A j \in Jobs : ~Runnable(j)
  BY <1>1 DEF RunsInv, HostRuns
<1>. QED
  BY <1>1, <1>3, <1>4, StackRuns

\* A call into Go returns: none can go on.
LEMMA GoReturnsRuns ==
  ASSUME HostInv, RunsInv, GoReturns
  PROVE  RunsInv'
<1>1. /\ Top.kind \in {"start", "go"} /\ stack' = Front(stack)
      /\ known' = IF Top.kind = "start" THEN known \union {Top.job} ELSE known
      /\ \A j \in Jobs : ~Runnable(j)
      /\ UNCHANGED <<pc, calls, last, cancelled, completion, failed>>
  BY DEF GoReturns, GoRuns
<1>2. stack \in Seq(Frames) /\ stack # <<>> /\ Top = Last(stack)
  BY <1>1, TopIs DEF HostInv, HostType
<1>3. Rests(stack') /\ \A j : Starting(stack', j) => Starting(stack, j)
  BY <1>1, <1>2, Popped DEF RunsInv
<1>4. NoneAgain /\ AllMade
  BY RunsParts
<1>5. \A j \in Jobs : ~Runnable(j)'
  BY <1>1 DEF Runnable
<1>6. Top.kind = "start" => Starting(stack, Top.job)
  <2>1. Len(stack) \in Nat /\ Len(stack) >= 1 /\ stack[Len(stack)] = Top
    BY <1>2, FrontIs
  <2>. QED
    BY <2>1 DEF Starting
<1>7. NoneAgain'
  <2>1. ASSUME NEW j \in Jobs, j \in known' \/ Starting(stack', j) PROVE pc[j] # "none"
    BY <1>1, <1>3, <1>4, <1>6, <2>1 DEF NoneAgain
  <2>. QED
    BY <1>1, <2>1 DEF NoneAgain, Starting
<1>8. AllMade'
  <2>1. \A j \in Jobs : pc[j] # "ready"
    BY <1>1 DEF Runnable
  <2>. QED
    BY <1>1, <1>4, <2>1 DEF AllMade, Made
<1>. QED
  BY <1>3, <1>5, <1>7, <1>8 DEF RunsInv, NoneAgain, AllMade, Made

\* A job calls the host: it was the one to go on.
LEMMA CallHostRuns ==
  ASSUME HostInv, RunsInv, NEW j \in Jobs, CallHost(j)
  PROVE  RunsInv'
<1>. DEFINE frame == Frame("call", j)
<1>1. /\ GoRuns /\ pc[j] = "ready" /\ stack' = Append(stack, frame)
      /\ pc' = [pc EXCEPT ![j] = "calling"] /\ calls' = [calls EXCEPT ![j] = @ + 1]
      /\ UNCHANGED <<known, cancelled, completion, failed>>
  BY DEF CallHost, Enter
<1>2. \A i \in Jobs : i # j => last'[i] = last[i]
  BY DEF CallHost, HostInv, HostType
<1>3. frame \in Frames /\ frame.kind = "call" /\ stack \in Seq(Frames)
  BY FramesAre DEF HostInv, HostType
<1>. HIDE DEF frame
<1>4. pc'[j] = "calling" /\ \A i \in Jobs : i # j => pc'[i] = pc[i]
  BY <1>1 DEF HostInv, HostType
<1>5. calls'[j] # 0 /\ \A i \in Jobs : i # j => calls'[i] = calls[i]
  <2>. DEFINE more == calls[j] + 1
  <2>1. more # 0 /\ calls \in [Jobs -> Nat] /\ calls' = [calls EXCEPT ![j] = more]
    BY <1>1 DEF HostInv, HostType
  <2>. HIDE DEF more
  <2>. QED
    BY <2>1
<1>6. NoneAgain /\ AllMade
  BY RunsParts
<1>7. Rests(stack') /\ \A i : Starting(stack', i) => Starting(stack, i)
  BY <1>1, <1>3, Pushed DEF RunsInv
<1>8. \A i \in Jobs : ~Runnable(i)'
  <2>1. \A i \in Jobs : i # j => (Runnable(i)' <=> Runnable(i))
    BY <1>1, <1>2, <1>4, <1>5, OthersRun DEF Others
  <2>2. Runnable(j) /\ ~Runnable(j)'
    BY <1>1, <1>4 DEF Runnable
  <2>. QED
    BY <2>1, <2>2 DEF RunsInv
<1>9. NoneAgain'
  BY <1>1, <1>4, <1>6, <1>7 DEF NoneAgain
<1>10. AllMade'
  <2>1. ASSUME NEW i \in Jobs
        PROVE  Made(calls'[i], last'[i], pc'[i], failed'[i], i \in cancelled', i \in known')
    <3>1. Made(calls[i], last[i], pc[i], failed[i], i \in cancelled, i \in known)
      BY <1>6 DEF AllMade
    <3>2. CASE i = j
      BY <1>4, <1>5, <3>2 DEF Made
    <3>3. CASE i # j
      BY <1>1, <1>2, <1>4, <1>5, <3>1, <3>3
    <3>. QED
      BY <3>2, <3>3
  <2>. QED
    BY <2>1 DEF AllMade, Made
<1>. QED
  BY <1>7, <1>8, <1>9, <1>10 DEF RunsInv, NoneAgain, AllMade, Made

\* A job goes on or waits, in a call of Go: no other could go on.
LEMMA GoesOnRuns ==
  ASSUME HostInv, RunsInv, NEW j \in Jobs, Others(j), UNCHANGED <<known, calls, last, cancelled>>,
         pc[j] \in {"calling", "attaching", "waiting"}, pc'[j] \in {"ready", "attaching", "waiting"},
         last[j] = "tool" /\ j \in cancelled /\ pc'[j] = "ready" => failed'[j],
         Rests(stack'), \A i : Starting(stack', i) => Starting(stack, i),
         \A i \in Jobs : i # j => ~Runnable(i), HostRuns' => ~Runnable(j)'
  PROVE  RunsInv'
<1>1. NoneAgain /\ AllMade
  BY RunsParts
<1>2. \A i \in Jobs : i # j => ~Runnable(i)'
  BY OthersRun
<1>3. NoneAgain'
  BY <1>1 DEF NoneAgain, Others
<1>4. AllMade'
  <2>1. ASSUME NEW i \in Jobs
        PROVE  Made(calls'[i], last'[i], pc'[i], failed'[i], i \in cancelled', i \in known')
    <3>1. Made(calls[i], last[i], pc[i], failed[i], i \in cancelled, i \in known)
      BY <1>1 DEF AllMade
    <3>2. CASE i = j
      <4>1. calls[j] # 0
        BY <3>1, <3>2 DEF Made
      <4>. QED
        BY <3>2, <4>1 DEF Made
    <3>3. CASE i # j
      BY <3>1, <3>3 DEF Others
    <3>. QED
      BY <3>2, <3>3
  <2>. QED
    BY <2>1 DEF AllMade, Made
<1>. QED
  BY <1>2, <1>3, <1>4 DEF RunsInv, NoneAgain, AllMade, Made

\* A host function returns, or the "then" of what it returned is called.
LEMMA HostReturnsRuns ==
  ASSUME HostInv, RunsInv, HostReturns
  PROVE  RunsInv'
<1>1. PICK j : j = Top.job
  OBVIOUS
<1>2. /\ Top.kind = "call" /\ pc[j] = "calling"
      /\ UNCHANGED <<known, calls, last, cancelled>>
  BY <1>1 DEF HostReturns
<1>3. /\ stack \in Seq(Frames) /\ stack # <<>> /\ j \in Jobs
  BY <1>1, <1>2, TopIs DEF HostInv, HostType
<1>4. Rests(stack) /\ \A i \in Jobs : ~Runnable(i)
  BY <1>2 DEF RunsInv, HostRuns
<1>5. CASE /\ pc' = [pc EXCEPT ![j] = "ready"]
           /\ Answered(j) \/ Fail(j, last[j])
           /\ stack' = Front(stack)
           /\ UNCHANGED <<promise, callbacks, completion>>
  <2>1. pc'[j] = "ready" /\ \A i \in Jobs : i # j => pc'[i] = pc[i]
    BY <1>3, <1>5 DEF HostInv, HostType
  <2>2. Marks(j)
    BY <1>3, <1>5, FailMarks DEF HostInv
  <2>3. Others(j)
    BY <1>2, <1>5, <2>1, <2>2 DEF Others, Marks
  <2>4. Rests(stack') /\ GoRuns' /\ \A i : Starting(stack', i) => Starting(stack, i)
    BY <1>2, <1>3, <1>4, <1>5, Popped
  <2>5. ~HostRuns'
    BY <2>4 DEF HostRuns, GoRuns
  <2>. QED
    BY <1>2, <1>3, <1>4, <2>1, <2>2, <2>3, <2>4, <2>5, GoesOnRuns DEF Marks
<1>6. CASE /\ pc' = [pc EXCEPT ![j] = "attaching"]
           /\ promise' = [promise EXCEPT ![j] = "pending"]
           /\ callbacks' = [callbacks EXCEPT ![j] = "held"]
           /\ completion' = [completion EXCEPT ![j] = ""]
           /\ UNCHANGED <<stack, failed, failure>>
  <2>1. pc'[j] = "attaching" /\ \A i \in Jobs : i # j => pc'[i] = pc[i]
    BY <1>3, <1>6 DEF HostInv, HostType
  <2>2. \A i \in Jobs : i # j => completion'[i] = completion[i]
    BY <1>3, <1>6, PromisesFit, CompletionsAre
  <2>3. Others(j)
    BY <1>2, <1>6, <2>1, <2>2 DEF Others
  <2>4. Rests(stack') /\ \A i : Starting(stack', i) => Starting(stack, i)
    BY <1>4, <1>6
  <2>5. ~Runnable(j)'
    BY <2>1 DEF Runnable
  <2>. QED
    BY <1>2, <1>3, <1>4, <2>1, <2>3, <2>4, <2>5, GoesOnRuns
<1>. QED
  BY <1>1, <1>5, <1>6 DEF HostReturns

\* Go's callbacks were attached to a promise, or the host's "then" threw.
LEMMA AttachedRuns ==
  ASSUME HostInv, RunsInv, Attached
  PROVE  RunsInv'
<1>1. PICK j : j = Top.job
  OBVIOUS
<1>2. /\ Top.kind = "call" /\ pc[j] = "attaching" /\ stack' = Front(stack)
      /\ UNCHANGED <<known, calls, last, cancelled>>
  BY <1>1 DEF Attached
<1>3. /\ stack \in Seq(Frames) /\ stack # <<>> /\ j \in Jobs
  BY <1>1, <1>2, TopIs DEF HostInv, HostType
<1>4. Rests(stack) /\ \A i \in Jobs : ~Runnable(i)
  BY <1>2 DEF RunsInv, HostRuns
<1>5. Rests(stack') /\ GoRuns' /\ \A i : Starting(stack', i) => Starting(stack, i)
  BY <1>2, <1>3, <1>4, Popped
<1>6. ~HostRuns'
  BY <1>5 DEF HostRuns, GoRuns
<1>7. CASE /\ pc' = [pc EXCEPT ![j] = "waiting"]
           /\ UNCHANGED <<promise, callbacks, completion, failed, failure>>
  <2>1. pc'[j] = "waiting" /\ \A i \in Jobs : i # j => pc'[i] = pc[i]
    BY <1>3, <1>7 DEF HostInv, HostType
  <2>2. Others(j)
    BY <1>2, <1>7, <2>1 DEF Others
  <2>. QED
    BY <1>2, <1>3, <1>4, <1>5, <1>6, <2>1, <2>2, GoesOnRuns
<1>8. CASE /\ pc' = [pc EXCEPT ![j] = "ready"]
           /\ Fail(j, last[j])
           /\ promise' = [promise EXCEPT ![j] = "none"]
           /\ callbacks' = [callbacks EXCEPT ![j] = "released"]
           /\ completion' = [completion EXCEPT ![j] = ""]
  <2>1. pc'[j] = "ready" /\ \A i \in Jobs : i # j => pc'[i] = pc[i]
    BY <1>3, <1>8 DEF HostInv, HostType
  <2>2. Marks(j)
    BY <1>3, <1>8, FailMarks DEF HostInv
  <2>3. \A i \in Jobs : i # j => completion'[i] = completion[i]
    BY <1>3, <1>8, PromisesFit, CompletionsAre
  <2>4. Others(j)
    BY <1>2, <2>1, <2>2, <2>3 DEF Others, Marks
  <2>. QED
    BY <1>2, <1>3, <1>4, <1>5, <1>6, <2>1, <2>2, <2>4, GoesOnRuns DEF Marks
<1>. QED
  BY <1>1, <1>7, <1>8 DEF Attached

\* A job's wait ends: it is still the one to go on.
LEMMA WakeRuns ==
  ASSUME HostInv, RunsInv, NEW j \in Jobs, Wake(j)
  PROVE  RunsInv'
<1>1. /\ GoRuns /\ pc[j] = "waiting" /\ pc' = [pc EXCEPT ![j] = "ready"]
      /\ UNCHANGED <<stack, known, calls, last, cancelled>>
  BY DEF Wake
<1>2. /\ Received(j) \/ StopsWaiting(j)
      /\ Fail(j, last[j]) \/ Answered(j)
  BY DEF Wake, Received, StopsWaiting
<1>3. Runnable(j)
  BY <1>1, <1>2 DEF Runnable, Received, StopsWaiting
<1>4. \A i \in Jobs : i # j => completion'[i] = completion[i]
  BY <1>2 DEF Received, StopsWaiting, HostInv, HostType
<1>5. Marks(j)
  BY <1>2, FailMarks DEF HostInv
<1>6. pc'[j] = "ready" /\ \A i \in Jobs : i # j => pc'[i] = pc[i]
  BY <1>1 DEF HostInv, HostType
<1>7. Others(j)
  BY <1>1, <1>4, <1>5, <1>6 DEF Others, Marks
<1>8. ~HostRuns' /\ Rests(stack') /\ \A i : Starting(stack', i) => Starting(stack, i)
  BY <1>1 DEF HostRuns, GoRuns, Top, RunsInv
<1>9. \A i \in Jobs : i # j => ~Runnable(i)
  BY <1>3 DEF RunsInv
<1>. QED
  BY <1>1, <1>5, <1>6, <1>7, <1>8, <1>9, GoesOnRuns DEF Marks

\* A job that ended, or was delivered, cannot go on; no other moved.
LEMMA EndsRuns ==
  ASSUME HostInv, RunsInv, NEW j \in Jobs, Others(j), UNCHANGED <<known, calls, last, cancelled>>,
         pc[j] \in {"ready", "ended"}, pc'[j] \in {"ended", "delivered"},
         Rests(stack'), \A i : Starting(stack', i) => Starting(stack, i),
         \A i \in Jobs : i # j => ~Runnable(i)
  PROVE  RunsInv'
<1>1. NoneAgain /\ AllMade
  BY RunsParts
<1>2. \A i \in Jobs : ~Runnable(i)'
  <2>1. \A i \in Jobs : i # j => ~Runnable(i)'
    BY OthersRun
  <2>2. ~Runnable(j)'
    BY DEF Runnable
  <2>. QED
    BY <2>1, <2>2
<1>3. NoneAgain'
  BY <1>1 DEF NoneAgain, Others
<1>4. AllMade'
  <2>1. ASSUME NEW i \in Jobs
        PROVE  Made(calls'[i], last'[i], pc'[i], failed'[i], i \in cancelled', i \in known')
    <3>1. Made(calls[i], last[i], pc[i], failed[i], i \in cancelled, i \in known)
      BY <1>1 DEF AllMade
    <3>2. CASE i = j
      BY <3>1, <3>2 DEF Made
    <3>3. CASE i # j
      BY <3>1, <3>3 DEF Others
    <3>. QED
      BY <3>2, <3>3
  <2>. QED
    BY <2>1 DEF AllMade, Made
<1>. QED
  BY <1>2, <1>3, <1>4 DEF RunsInv, NoneAgain, AllMade, Made

\* A job ends.
LEMMA EndJobRuns ==
  ASSUME HostInv, RunsInv, NEW j \in Jobs, EndJob(j)
  PROVE  RunsInv'
<1>1. /\ pc[j] = "ready" /\ pc' = [pc EXCEPT ![j] = "ended"]
      /\ UNCHANGED <<stack, known, calls, last, cancelled, completion, failed>>
  BY DEF EndJob
<1>2. pc'[j] = "ended" /\ \A i \in Jobs : i # j => pc'[i] = pc[i]
  BY <1>1 DEF HostInv, HostType
<1>3. Others(j)
  BY <1>1, <1>2 DEF Others
<1>4. \A i \in Jobs : i # j => ~Runnable(i)
  <2>1. Runnable(j)
    BY <1>1 DEF Runnable
  <2>. QED
    BY <2>1 DEF RunsInv
<1>5. Rests(stack') /\ \A i : Starting(stack', i) => Starting(stack, i)
  BY <1>1 DEF RunsInv
<1>. QED
  BY <1>1, <1>2, <1>3, <1>4, <1>5, EndsRuns

\* A job's result is delivered.
LEMMA DeliverRuns ==
  ASSUME HostInv, RunsInv, NEW j \in Jobs, Deliver(j)
  PROVE  RunsInv'
<1>. DEFINE frame == Frame("complete", j)
<1>1. /\ stack = <<>> /\ pc[j] = "ended" /\ pc' = [pc EXCEPT ![j] = "delivered"]
      /\ stack' = <<Go, frame>>
      /\ UNCHANGED <<known, calls, last, cancelled, completion, failed>>
  BY DEF Deliver
<1>2. frame.kind = "complete" /\ Go.kind = "go"
  BY FramesAre
<1>. HIDE DEF frame
<1>3. pc'[j] = "delivered" /\ \A i \in Jobs : i # j => pc'[i] = pc[i]
  BY <1>1 DEF HostInv, HostType
<1>4. Others(j)
  BY <1>1, <1>3 DEF Others
<1>5. \A i \in Jobs : ~Runnable(i)
  <2>1. HostRuns
    BY <1>1 DEF HostRuns, Top, Frame
  <2>. QED
    BY <2>1 DEF RunsInv
<1>6. \A i \in 1..Len(stack') : stack'[i].kind \in {"go", "complete"}
  <2>1. Len(stack') = 2 /\ stack'[1] = Go /\ stack'[2] = frame /\ \A i \in 1..2 : i = 1 \/ i = 2
    BY <1>1
  <2>. QED
    BY <1>2, <2>1
<1>7. Rests(stack') /\ \A i : Starting(stack', i) => Starting(stack, i)
  BY <1>6 DEF Rests, Starting
<1>. QED
  BY <1>1, <1>3, <1>4, <1>5, <1>7, EndsRuns

\* At the start no job can go on.
LEMMA RunsInvInit ==
  ASSUME Init
  PROVE  RunsInv
<1>1. /\ stack = <<>> /\ pc = [j \in Jobs |-> "none"] /\ cancelled = {} /\ known = {}
  BY DEF Init
<1>2. \A j \in Jobs : pc[j] = "none" /\ ~Runnable(j)
  BY <1>1 DEF Runnable
<1>3. Rests(stack) /\ \A j : ~Starting(stack, j)
  <2>1. Len(stack) = 0
    BY <1>1
  <2>. QED
    BY <2>1 DEF Rests, Starting
<1>. QED
  BY <1>1, <1>2, <1>3 DEF RunsInv

\* Every step lets at most one job go on.
LEMMA RunsInvNext ==
  ASSUME HostInv, RunsInv, [Next]_vars
  PROVE  RunsInv'
<1>1. CASE \E j \in Jobs : StartJob(j) \/ Cancel(j) \/ JobStep(j) \/ Settle(j) \/ Deliver(j)
  BY <1>1, StartJobRuns, CancelRuns, CallHostRuns, WakeRuns, EndJobRuns, SettleRuns, DeliverRuns
     DEF JobStep
<1>2. CASE Invoke \/ GoReturns \/ HostReturns \/ Attached \/ OnCompleteReturns
  BY <1>2, InvokeRuns, GoReturnsRuns, HostReturnsRuns, AttachedRuns, OnCompleteReturnsRuns
<1>3. CASE UNCHANGED vars
  BY <1>3 DEF vars, jobVars, RunsInv, Rests, Starting, Runnable, HostRuns, Top
<1>. QED
  BY <1>1, <1>2, <1>3 DEF Next

-----------------------------------------------------------------------------
(* The theorems. *)

\* The invariant holds at the start.
LEMMA HostInvInit ==
  ASSUME Init
  PROVE  HostInv
<1>1. /\ stack = <<>> /\ pc = [j \in Jobs |-> "none"]
      /\ current = {} /\ cancelled = {} /\ known = {}
      /\ promise = [j \in Jobs |-> "none"] /\ callbacks = [j \in Jobs |-> "none"]
      /\ completion = [j \in Jobs |-> ""] /\ outcome = [j \in Jobs |-> ""]
      /\ failed = [j \in Jobs |-> FALSE] /\ failure = [j \in Jobs |-> FALSE]
  BY DEF Init
<1>2. /\ calls = [j \in Jobs |-> 0] /\ last = [j \in Jobs |-> ""] /\ after = [j \in Jobs |-> 0]
      /\ delivered = [j \in Jobs |-> 0]
  BY DEF Init
<1>3. stack \in Seq(Frames) /\ Len(stack) = 0 /\ Len(stack) <= MaxDepth
  <2>1. <<>> \in Seq(Frames) /\ Len(<<>>) = 0
    OBVIOUS
  <2>2. 0 <= MaxDepth
    BY WasmAssumption
  <2>. QED
    BY <1>1, <2>1, <2>2
<1>4. /\ calls \in [Jobs -> Nat] /\ last \in [Jobs -> LastKinds]
      /\ completion \in [Jobs -> Completions] /\ outcome \in [Jobs -> Outcomes]
  <2>1. calls \in [Jobs -> Nat]
    BY <1>2
  <2>2. "" \in LastKinds /\ "" \in Completions /\ "" \in Outcomes
    BY Zenon DEF LastKinds, Completions, Outcomes
  <2>. QED
    BY <1>1, <1>2, <2>1, <2>2, Zenon
<1>5. HostType
  <2>1. /\ pc \in [Jobs -> PcValues]
        /\ current \subseteq Jobs /\ cancelled \subseteq Jobs /\ known \subseteq Jobs
        /\ promise \in [Jobs -> {"none", "pending", "settled"}]
        /\ callbacks \in [Jobs -> {"none", "held", "released"}]
        /\ failed \in [Jobs -> BOOLEAN] /\ failure \in [Jobs -> BOOLEAN]
    BY <1>1, Zenon DEF PcValues
  <2>2. after \in [Jobs -> Nat] /\ delivered \in [Jobs -> Nat]
    BY <1>2
  <2>. QED
    BY <1>3, <1>4, <2>1, <2>2 DEF HostType
<1>6. \A j \in Jobs : /\ pc[j] = "none" /\ promise[j] = "none" /\ callbacks[j] = "none"
                      /\ outcome[j] = "" /\ j \notin current
  BY <1>1
<1>7. \A j \in Jobs : after[j] = 0 /\ delivered[j] = 0
  BY <1>2
<1>8. KnownInv
  <2>1. CallsFit(stack, pc)
    BY <1>3 DEF CallsFit
  <2>2. cancelled \subseteq known
    BY <1>1
  <2>. QED
    BY <1>6, <2>1, <2>2 DEF KnownInv
<1>9. JobsInv
  <2>1. ASSUME NEW j \in Jobs
        PROVE  Ended(pc[j], delivered[j], outcome[j], failed[j] \/ failure[j], j \in cancelled)
    BY <1>6, <1>7 DEF Ended
  <2>2. ASSUME NEW j \in Jobs
        PROVE  promise[j] = "pending" <=> callbacks[j] = "held"
    BY <1>6
  <2>. QED
    BY <1>7, <2>1, <2>2 DEF JobsInv
<1>. QED
  BY <1>5, <1>8, <1>9 DEF HostInv

\* Every step keeps it.
LEMMA HostInvNext ==
  ASSUME HostInv, RunsInv, [Next]_vars
  PROVE  HostInv'
<1>1. CASE \E j \in Jobs : StartJob(j) \/ Cancel(j) \/ JobStep(j) \/ Settle(j) \/ Deliver(j)
  BY <1>1, StartJobKeeps, CancelKeeps, CallHostKeeps, WakeKeeps, EndJobKeeps, SettleKeeps, DeliverKeeps
     DEF JobStep
<1>2. CASE Invoke \/ GoReturns \/ HostReturns \/ Attached \/ OnCompleteReturns
  BY <1>2, InvokeKeeps, GoReturnsKeeps, HostReturnsKeeps, AttachedKeeps, OnCompleteReturnsKeeps
<1>3. CASE UNCHANGED vars
  <2>1. stack' = stack /\ UNCHANGED jobVars
    BY <1>3 DEF vars
  <2>2. HostType'
    BY <2>1 DEF HostInv, HostType, jobVars
  <2>3. KnownInv'
    BY <2>1 DEF HostInv, KnownInv, CallsFit, Starting, jobVars
  <2>4. JobsInv'
    BY <2>1 DEF HostInv, JobsInv, Ended, jobVars
  <2>. QED
    BY <2>2, <2>3, <2>4 DEF HostInv
<1>. QED
  BY <1>1, <1>2, <1>3 DEF Next

\* Every step keeps the counts of the predict jobs.
LEMMA PredictInvNext ==
  ASSUME PredictInv, [Next]_vars
  PROVE  PredictInv'
<1>1. nextRequestID \in Nat
  BY DEF PredictInv, PredictTypeOK
<1>2. CASE Invoke
  BY <1>2, PredictStepCounts DEF Invoke
<1>3. CASE \E j \in Jobs : CallHost(j)
  BY <1>3, PredictKept DEF CallHost
<1>4. CASE UNCHANGED predictVars
  BY <1>4, PredictKept DEF predictVars
<1>5. ASSUME NEW j \in Jobs,
             StartJob(j) \/ Cancel(j) \/ Wake(j) \/ EndJob(j) \/ Settle(j) \/ Deliver(j)
      PROVE  UNCHANGED predictVars
  BY <1>5 DEF StartJob, Cancel, Wake, EndJob, Settle, Deliver
<1>6. ASSUME GoReturns \/ HostReturns \/ Attached \/ OnCompleteReturns
      PROVE  UNCHANGED predictVars
  BY <1>6 DEF GoReturns, HostReturns, Attached, OnCompleteReturns
<1>7. ASSUME UNCHANGED vars PROVE UNCHANGED predictVars
  BY <1>7 DEF vars
<1>. QED
  BY <1>2, <1>3, <1>4, <1>5, <1>6, <1>7 DEF Next, JobStep

\* The invariants are those of every run.
THEOREM HostInvariant == Spec => [](HostInv /\ RunsInv /\ PredictInv)
<1>1. Init => HostInv /\ RunsInv /\ PredictInv
  BY HostInvInit, RunsInvInit, PredictInvInit DEF Init
<1>2. HostInv /\ RunsInv /\ PredictInv /\ [Next]_vars => (HostInv /\ RunsInv /\ PredictInv)'
  BY HostInvNext, RunsInvNext, PredictInvNext
<1>. QED
  BY <1>1, <1>2, PTL DEF Spec

\* Every variable of the host's model keeps its type.
THEOREM TypeCorrect == Spec => []TypeOK
<1>1. HostInv /\ PredictInv => TypeOK
  <2>1. SUFFICES ASSUME HostInv, PredictInv PROVE TypeOK
    OBVIOUS
  <2>2. \A i \in DOMAIN stack : stack[i] \in Frames
    <3>1. stack \in Seq(Frames)
      BY <2>1 DEF HostInv, HostType
    <3>. QED
      BY <3>1
  <2>3. last \in [Jobs -> {"", "chat", "tool", "json", "observer", "dataset", "model"}]
    <3>1. LastKinds = {"", "chat", "tool", "json", "observer", "dataset", "model"}
      BY Zenon DEF CallKinds, LastKinds
    <3>. QED
      BY <2>1, <3>1, Zenon DEF HostInv, HostType
  <2>4. current \subseteq known \union {j \in Jobs : pc[j] # "none"} /\ cancelled \subseteq known
    BY <2>1 DEF HostInv, HostType, KnownInv
  <2>5. /\ completion \in [Jobs -> {"", "value", "error"}]
        /\ outcome \in [Jobs -> {"", "ok", "error", "cancelled"}]
    BY <2>1, Zenon DEF HostInv, HostType, Completions, Outcomes
  <2>. QED
    BY <2>1, <2>2, <2>3, <2>4, <2>5, Zenon DEF TypeOK, HostInv, HostType, PcValues, Frames, PredictInv
<1>. QED
  BY <1>1, HostInvariant, PTL

\* A cancel that was accepted is honoured, however it meets the job's calls, promises and end.
THEOREM CancelsAreHonoured == Spec => []CancelHonoured
<1>1. HostInv => CancelHonoured
  <2>1. ASSUME HostInv, NEW j \in Jobs
        PROVE  /\ Completed(j)
               /\ outcome[j] # "" => (outcome[j] = "cancelled" <=> j \in cancelled)
               /\ after[j] = 0
               /\ (promise[j] = "pending") = (callbacks[j] = "held")
    <3>1. /\ Ended(pc[j], delivered[j], outcome[j], failed[j] \/ failure[j], j \in cancelled)
          /\ after[j] = 0
          /\ promise[j] = "pending" <=> callbacks[j] = "held"
          /\ pc[j] = "delivered" => j \in known
      BY <2>1 DEF HostInv, JobsInv, KnownInv
    <3>2. Completed(j)
      <4>1. /\ delivered[j] = IF pc[j] = "delivered" THEN 1 ELSE 0
            /\ outcome[j] = "ok" => ~(failed[j] \/ failure[j])
        BY <3>1 DEF Ended
      <4>2. delivered[j] <= 1 /\ (delivered[j] = 1 => j \in known)
        BY <3>1, <4>1
      <4>. QED
        BY <4>1, <4>2 DEF Completed
    <3>3. outcome[j] # "" => (outcome[j] = "cancelled" <=> j \in cancelled)
      BY <3>1 DEF Ended
    <3>. QED
      BY <3>1, <3>2, <3>3
  <2>. QED
    BY <2>1 DEF CancelHonoured
<1>. QED
  BY <1>1, HostInvariant, PTL

\* Each request of a predict job is answered once, and a completion tells the usage of its answers.
THEOREM AnswersAreCounted == Spec => []AnswersCounted
<1>1. PredictInv => AnswersCounted
  BY InvCountsAnswers
<1>. QED
  BY <1>1, HostInvariant, PTL

=============================================================================
