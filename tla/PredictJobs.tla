----------------------------- MODULE PredictJobs -----------------------------
(***************************************************************************)
(* The predict jobs of the WebAssembly module (cmd/wasm/gepago/predict.go):*)
(* predict.start hands the host a model request, predict.resume takes its  *)
(* answer and either completes the job, fails it or hands out a request to *)
(* repair the answer, predict.cancel drops the job.                        *)
(*                                                                         *)
(* The host may answer any request it was ever handed, late, twice or for  *)
(* another job.  What an answer parses to is left open.  A number of       *)
(* tokens stands for the usage of an answer, 0 for an answer without one.  *)
(***************************************************************************)
EXTENDS Integers, FiniteSets, FiniteSetsExt

CONSTANTS
  PredictIds,       \* the jobs predict.start may create
  MaxParseRetries,  \* repairs a job may ask for
  AnswerUsages      \* the tokens an answer may report

ASSUME PredictAssumption ==
  /\ MaxParseRetries \in Nat
  /\ AnswerUsages \subseteq Nat

VARIABLES
  predictJobs,  \* job -> its state, NoJob when it is not in the map of jobs
  predictTold,  \* job -> what the host was told it ended as, and the usage told with it
  requests,     \* job -> the requests handed out for it
  answers,      \* the answers the module took: job, request and tokens
  nextRequestID

predictVars == <<predictJobs, predictTold, requests, answers, nextRequestID>>

NoJob == [pending |-> 0, retries |-> 0, usage |-> 0]

Untold == [as |-> "", usage |-> 0]

Known(p) == predictJobs[p] # NoJob

PredictInit ==
  /\ predictJobs = [p \in PredictIds |-> NoJob]
  /\ predictTold = [p \in PredictIds |-> Untold]
  /\ requests = [p \in PredictIds |-> {}]
  /\ answers = {}
  /\ nextRequestID = 0

\* Hands out a request for job p, whose state becomes job otherwise.
HandOut(p, job) ==
  /\ nextRequestID' = nextRequestID + 1
  /\ predictJobs' = [predictJobs EXCEPT ![p] = [job EXCEPT !.pending = nextRequestID + 1]]
  /\ requests' = [requests EXCEPT ![p] = @ \union {nextRequestID + 1}]

\* Deletes job p and tells the host how it ended.
Drop(p, as, usage) ==
  /\ predictJobs' = [predictJobs EXCEPT ![p] = NoJob]
  /\ predictTold' = [predictTold EXCEPT ![p] = [as |-> as, usage |-> usage]]
  /\ UNCHANGED <<requests, nextRequestID>>

\* A job's id is never used again.
PredictStart(p) ==
  /\ requests[p] = {}
  /\ HandOut(p, NoJob)
  /\ UNCHANGED <<predictTold, answers>>

\* Mutation: any answer for the job is taken, a stale one too.
FindPredictJobStale(p, q) == Known(p)

\* findPredictJob: the job is known and waits for this very request.
FindPredictJob(p, q) == Known(p) /\ predictJobs[p].pending = q

\* transitionPredictResume and transitionPredictJob.
PredictResume(p, q, used) ==
  LET job == [predictJobs[p] EXCEPT !.usage = @ + used]
  IN /\ FindPredictJob(p, q)
     /\ answers' = answers \union {[job |-> p, request |-> q, usage |-> used]}
     /\ \/ Drop(p, "finish reason", 0)
        \/ Drop(p, "complete", job.usage)
        \/ job.retries >= MaxParseRetries /\ Drop(p, "unparsable", 0)
        \/ /\ job.retries < MaxParseRetries
           /\ HandOut(p, [job EXCEPT !.retries = @ + 1])
           /\ UNCHANGED predictTold

PredictCancel(p) ==
  /\ Known(p)
  /\ Drop(p, "cancelled", 0)
  /\ UNCHANGED answers

\* An answer or a cancel for a job that is not known, or not for its request, changes nothing.
PredictStep ==
  \E p \in PredictIds :
    \/ PredictStart(p)
    \/ PredictCancel(p)
    \/ \E q \in UNION {requests[other] : other \in PredictIds}, used \in AnswerUsages :
         PredictResume(p, q, used)

-----------------------------------------------------------------------------
(* Properties *)

\* The types of the variables.
PredictTypeOK ==
  /\ predictJobs \in [PredictIds -> [pending : Nat, retries : 0..MaxParseRetries, usage : Nat]]
  /\ predictTold \in [PredictIds -> [as : {"", "finish reason", "complete", "unparsable", "cancelled"},
                                      usage : Nat]]
  /\ requests \in [PredictIds -> SUBSET (1..nextRequestID)]
  /\ answers \subseteq [job : PredictIds, request : 1..nextRequestID, usage : AnswerUsages]
  /\ nextRequestID \in Nat

\* Whatever the host answers and in whichever order, each request of a job is answered once, by
\* an answer for that job, the job hands out no more requests than its repairs allow, and a
\* completed prediction is told with the usage of exactly the answers taken for it.
AnswersCounted ==
  \A p \in PredictIds :
    LET taken == {a \in answers : a.job = p}
    IN /\ \A a, b \in taken : a.request = b.request => a = b
       /\ \A a \in taken : a.request \in requests[p]
       /\ Cardinality(requests[p]) <= MaxParseRetries + 1
       /\ predictTold[p].as = "complete" =>
            /\ Cardinality(taken) = Cardinality(requests[p])
            /\ predictTold[p].usage = MapThenSumSet(LAMBDA a : a.usage, taken)
=============================================================================
