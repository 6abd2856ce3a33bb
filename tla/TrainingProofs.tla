--------------------------- MODULE TrainingProofs ---------------------------
(***************************************************************************)
(* What training keeps.  What Optimizer.Run promises, for every validation *)
(* set, budget, scores and number of runs: a state file that can be        *)
(* resumed at any moment, a best candidate and a frontier that are those   *)
(* of all the candidates, no saved work lost, and a bound on the metric    *)
(* calls that stops waste.  And what the registry that saves the trained   *)
(* programme promises, for any callers, processes, versions and shapes:    *)
(* LoadOrTrain never replaces what a call it excludes has saved, and what  *)
(* calls return fits.                                                      *)
(***************************************************************************)
EXTENDS Optimizer, ProgramRegistry, ProofLemmas

-----------------------------------------------------------------------------
(* The loop over the winners: it computes the Pareto frontier of any scored *)
(* candidates in any order.                                                  *)

\* Dominance is irreflexive.
LEMMA DominatesIrreflexive ==
  ASSUME NEW r, Scored(r), NEW i \in DOMAIN r
  PROVE  ~Dominates(r, i, i)
<1>1. SUFFICES ASSUME Dominates(r, i, i) PROVE FALSE
  OBVIOUS
<1>2. PICK d \in Dimensions(r) : r[i][d] > r[i][d]
  BY <1>1 DEF Dominates
<1>3. r[i][d] \in Int
  BY <1>1, <1>2 DEF Dominates, Scored
<1> QED
  BY <1>2, <1>3

\* Dominance is transitive.
LEMMA DominatesTransitive ==
  ASSUME NEW r, Scored(r), NEW i \in DOMAIN r, NEW j \in DOMAIN r, NEW k \in DOMAIN r,
         Dominates(r, i, j), Dominates(r, j, k)
  PROVE  Dominates(r, i, k)
<1>1. ASSUME NEW d \in Dimensions(r)
      PROVE  /\ d \in DOMAIN r[i] /\ d \in DOMAIN r[j] /\ d \in DOMAIN r[k]
             /\ r[i][d] \in Int /\ r[j][d] \in Int /\ r[k][d] \in Int
             /\ r[i][d] >= r[j][d] /\ r[j][d] >= r[k][d]
  BY <1>1 DEF Dominates, Scored
<1>2. ASSUME NEW d \in Dimensions(r)
      PROVE  d \in DOMAIN r[i] /\ d \in DOMAIN r[k] /\ r[i][d] >= r[k][d]
  <2>1. d \in DOMAIN r[i] /\ d \in DOMAIN r[k]
    BY <1>1
  <2>2. r[i][d] >= r[k][d]
    BY <1>1
  <2> QED
    BY <2>1, <2>2
<1>3. PICK d \in Dimensions(r) : r[i][d] > r[j][d]
  BY DEF Dominates
<1>4. r[i][d] > r[k][d]
  BY <1>1, <1>3
<1> QED
  BY <1>2, <1>3, <1>4 DEF Dominates

\* Only a winner dominates a winner.
LEMMA DominatorWins ==
  ASSUME NEW r, Scored(r), NEW i \in DOMAIN r, NEW j \in InstanceWinners(r), Dominates(r, i, j)
  PROVE  i \in InstanceWinners(r)
<1>1. PICK d \in Dimensions(r) : BestOn(r, j, d)
  BY DEF InstanceWinners
<1>2. /\ d \in DOMAIN r[i] /\ d \in DOMAIN r[j] /\ j \in DOMAIN r
      /\ r[i][d] \in Int /\ r[j][d] \in Int /\ r[i][d] >= r[j][d]
  BY <1>1 DEF Dominates, BestOn, InstanceWinners, Scored
<1>3. ASSUME NEW k \in DOMAIN r, d \in DOMAIN r[k]
      PROVE  r[k][d] <= r[i][d]
  <2>1. r[k][d] \in Int
    BY <1>3 DEF Scored
  <2>2. r[k][d] <= r[j][d]
    BY <1>1, <1>3 DEF BestOn
  <2> QED
    BY <1>2, <2>1, <2>2
<1>4. BestOn(r, i, d)
  BY <1>2, <1>3 DEF BestOn
<1> QED
  BY <1>1, <1>4 DEF InstanceWinners

-----------------------------------------------------------------------------

Initially == InstanceWinners(records)

\* Every winner that was deleted is dominated by one that is left: deleting that one in turn
\* leaves the one that dominates both.
DeletedAreCovered ==
  \A i \in Initially \ winners : \E j \in winners : Dominates(records, j, i)

\* A winner the loop has passed and kept is not dominated by any that is left.
PassedAreUndominated ==
  \A i \in winners \ todo : \A j \in winners : ~Dominates(records, j, i)

LoopInv == LoopTypeOK /\ DeletedAreCovered /\ PassedAreUndominated

\* Every winner is still in place when the loop starts.
LEMMA LoopInvInit == LoopInit => LoopInv
  BY DEF LoopInit, LoopInv, LoopTypeOK, DeletedAreCovered, PassedAreUndominated, Initially

\* Visiting a winner deletes it only for one that dominates it.
LEMMA LoopInvStep == LoopInv /\ [Visit]_loopVars => LoopInv'
<1> SUFFICES ASSUME LoopInv, [Visit]_loopVars PROVE LoopInv'
  OBVIOUS
<1>0. Scored(records)
  BY DEF LoopInv, LoopTypeOK
<1>1. CASE UNCHANGED loopVars
  BY <1>1 DEF LoopInv, LoopTypeOK, DeletedAreCovered, PassedAreUndominated, Initially, Scored, loopVars
<1>2. CASE Visit
  <2>1. PICK i \in todo :
          /\ todo' = todo \ {i}
          /\ winners' = IF \E j \in winners \ {i} : Dominates(records, j, i)
                        THEN winners \ {i} ELSE winners
          /\ records' = records
    BY <1>2 DEF Visit
  <2>2. i \in winners /\ winners \subseteq Initially /\ Initially \subseteq DOMAIN records
    BY <2>1 DEF LoopInv, LoopTypeOK, Initially, InstanceWinners
  <2>3. LoopTypeOK'
    BY <2>1 DEF LoopInv, LoopTypeOK
  <2>4. CASE \E j \in winners \ {i} : Dominates(records, j, i)
    <3>1. PICK j \in winners \ {i} : Dominates(records, j, i)
      BY <2>4
    <3>2. winners' = winners \ {i}
      BY <2>1, <2>4
    <3>3. ASSUME NEW o \in Initially \ winners'
          PROVE  \E p \in winners' : Dominates(records, p, o)
      <4>1. CASE o = i
        BY <3>1, <3>2, <4>1
      <4>2. CASE o # i
        <5>1. PICK p \in winners : Dominates(records, p, o)
          BY <3>2, <3>3, <4>2 DEF LoopInv, DeletedAreCovered
        <5>2. CASE p = i
          <6>1. Dominates(records, j, o)
            BY <1>0, <2>2, <3>1, <3>3, <5>1, <5>2, DominatesTransitive
          <6> QED
            BY <3>1, <3>2, <6>1
        <5>3. CASE p # i
          BY <3>2, <5>1, <5>3
        <5> QED
          BY <5>2, <5>3
      <4> QED
        BY <4>1, <4>2
    <3>4. DeletedAreCovered'
      BY <2>1, <3>3 DEF DeletedAreCovered, Initially
    <3>5. PassedAreUndominated'
      BY <2>1, <3>2 DEF LoopInv, PassedAreUndominated
    <3> QED
      BY <2>3, <3>4, <3>5 DEF LoopInv
  <2>5. CASE ~\E j \in winners \ {i} : Dominates(records, j, i)
    <3>1. winners' = winners
      BY <2>1, <2>5
    <3>2. DeletedAreCovered'
      BY <2>1, <3>1 DEF LoopInv, DeletedAreCovered, Initially
    <3>3. \A j \in winners : ~Dominates(records, j, i)
      BY <1>0, <2>2, <2>5, DominatesIrreflexive
    <3>4. PassedAreUndominated'
      BY <2>1, <3>1, <3>3 DEF LoopInv, PassedAreUndominated
    <3> QED
      BY <2>3, <3>2, <3>4 DEF LoopInv
  <2> QED
    BY <2>4, <2>5
<1> QED
  BY <1>1, <1>2

\* At the end of the loop the map holds the frontier.
LEMMA LoopInvFinds == LoopInv => LoopFindsFrontier
<1> SUFFICES ASSUME LoopInv, todo = {} PROVE winners = Frontier(records)
  BY DEF LoopFindsFrontier
<1>0. Scored(records) /\ winners \subseteq Initially /\ Initially \subseteq DOMAIN records
  BY DEF LoopInv, LoopTypeOK, Initially, InstanceWinners
<1>1. ASSUME NEW i \in winners, NEW j \in DOMAIN records, Dominates(records, j, i)
      PROVE  FALSE
  <2>1. j \in Initially
    BY <1>0, <1>1, DominatorWins DEF Initially
  <2>2. CASE j \in winners
    BY <1>1, <2>2 DEF LoopInv, PassedAreUndominated
  <2>3. CASE j \notin winners
    <3>1. PICK k \in winners : Dominates(records, k, j)
      BY <2>1, <2>3 DEF LoopInv, DeletedAreCovered
    <3>2. Dominates(records, k, i)
      BY <1>0, <1>1, <3>1, DominatesTransitive
    <3> QED
      BY <1>1, <3>1, <3>2 DEF LoopInv, PassedAreUndominated
  <2> QED
    BY <2>2, <2>3
<1>2. winners \subseteq Frontier(records)
  BY <1>0, <1>1 DEF Frontier, Initially
<1>3. ASSUME NEW i \in Frontier(records)
      PROVE  i \in winners
  <2>1. i \in Initially /\ \A j \in DOMAIN records : ~Dominates(records, j, i)
    BY <1>3 DEF Frontier, Initially
  <2> QED
    BY <1>0, <2>1 DEF LoopInv, DeletedAreCovered
<1> QED
  BY <1>2, <1>3

\* frontierWeights keeps exactly the Pareto frontier, for any candidates, scores and dimensions
\* and in any order of iteration over the map.
THEOREM LoopFindsFrontierAlways == LoopSpec => []LoopFindsFrontier
<1>1. LoopInit => LoopInv
  BY LoopInvInit
<1>2. LoopInv /\ [Visit]_loopVars => LoopInv'
  BY LoopInvStep
<1>3. LoopInv => LoopFindsFrontier
  BY LoopInvFinds
<1> QED
  BY <1>1, <1>2, <1>3, PTL DEF LoopSpec

-----------------------------------------------------------------------------
(* Sizes and candidates. *)

V == Cardinality(Valset)

\* A candidate is validated on at least one example.
Candidate == UNION {[D -> Scores] : D \in (SUBSET Valset) \ {{}}}

\* The validation set has a size.
LEMMA ValsetSize ==
  /\ V \in Nat /\ V > 0 /\ V <= MaxMetricCalls
  /\ MaxMetricCalls \in Nat /\ MaxMetricCalls > 0
  /\ MinibatchSize \in Nat /\ MinibatchSize > 0
  /\ TrainSize \in Nat /\ TrainSize > 0
  /\ MaxStarts \in Nat /\ Scores \subseteq Int
<1>1. V \in Nat /\ V # 0
  BY ConfigAssumption, FS_CardinalityType, FS_EmptySet DEF V
<1> QED
  BY <1>1, ConfigAssumption DEF V

\* A candidate has integer scores on some examples of the validation set.
LEMMA CandidateIs ==
  ASSUME NEW c \in Candidate
  PROVE  /\ DOMAIN c \subseteq Valset /\ DOMAIN c # {} /\ IsFiniteSet(DOMAIN c)
         /\ Cardinality(DOMAIN c) \in Nat \ {0}
         /\ \A e \in DOMAIN c : c[e] \in Int
<1>1. PICK D \in (SUBSET Valset) \ {{}} : c \in [D -> Scores]
  BY DEF Candidate
<1>2. DOMAIN c = D /\ \A e \in D : c[e] \in Int
  BY <1>1, ValsetSize
<1>3. IsFiniteSet(D) /\ Cardinality(D) \in Nat /\ Cardinality(D) # 0
  BY ConfigAssumption, FS_Subset, FS_CardinalityType, FS_EmptySet
<1> QED
  BY <1>2, <1>3

\* An evaluation of some examples gives a candidate.
LEMMA EvaluationGivesCandidate ==
  ASSUME NEW examples \in SUBSET Valset, Cardinality(examples) # 0, NEW scores \in [examples -> Scores]
  PROVE  scores \in Candidate
<1>1. examples # {}
  BY FS_EmptySet
<1> QED
  BY <1>1 DEF Candidate

\* So does one of the whole validation set.
LEMMA SeedIsCandidate ==
  ASSUME NEW scores \in [Valset -> Scores]
  PROVE  scores \in Candidate
  BY ConfigAssumption DEF Candidate

\* The sum of a candidate's scores is a number.
LEMMA SumIsInt ==
  ASSUME NEW c \in Candidate
  PROVE  SumScore(c) \in Int
<1> DEFINE S == DOMAIN c
           iter == CHOOSE f : IsFold(S, c, f)
<1>1. IsFiniteSet(S) /\ c \in [S -> Int]
  <2>1. PICK D \in (SUBSET Valset) \ {{}} : c \in [D -> Scores]
    BY DEF Candidate
  <2> QED
    BY <2>1, CandidateIs
<1>2. IsFold(S, c, iter)
  <2> HIDE DEF S
  <2> QED
    BY <1>1, FoldExists
<1>3. iter[S] \in Int
  <2> HIDE DEF S, iter
  <2> QED
    BY <1>1, <1>2, FoldIsInt
<1>4. SumScore(c) = iter[S]
  BY DEF SumScore, MapThenSumSet, MapThenFoldSet, IsFold, FoldBody, Some
<1> QED
  BY <1>3, <1>4

-----------------------------------------------------------------------------
(* Averages. *)

\* A sum and a size.
Sized(a) == SumScore(a) \in Int /\ Cardinality(DOMAIN a) \in Nat \ {0}

\* A candidate's average score is that of a sum and a size.
LEMMA CandidatesAreSized == \A c \in Candidate : Sized(c)
  BY SumIsInt, CandidateIs DEF Sized

\* A product of a difference and a positive number is positive only if the difference is.
LEMMA PositiveFactor ==
  ASSUME NEW n \in Nat \ {0}, NEW x \in Int, NEW y \in Int, x * n > y * n
  PROVE  x > y
<1>1. SUFFICES ASSUME y >= x PROVE FALSE
  OBVIOUS
<1>2. y - x \in Nat
  BY <1>1
<1>3. (y - x) * n >= 0
  BY <1>2, SMT
<1>4. (y - x) * n = y * n - x * n
  BY SMT
<1>5. x * n \in Int /\ y * n \in Int
  OBVIOUS
<1> QED
  BY <1>3, <1>4, <1>5

\* Multiplying by a size keeps an order.
LEMMA TimesKeepsOrder ==
  ASSUME NEW n \in Nat \ {0}, NEW x \in Int, NEW y \in Int
  PROVE  /\ x >= y => x * n >= y * n
         /\ x > y => x * n > y * n
<1>1. ASSUME x >= y PROVE x * n >= y * n
  <2>1. x - y \in Nat
    BY <1>1
  <2>2. (x - y) * n >= 0
    BY <2>1, SMT
  <2>3. (x - y) * n = x * n - y * n
    BY SMT
  <2>4. x * n \in Int /\ y * n \in Int
    OBVIOUS
  <2> QED
    BY <2>2, <2>3, <2>4
<1>2. ASSUME x > y PROVE x * n > y * n
  <2>1. x - y \in Nat \ {0}
    BY <1>2
  <2>2. (x - y) * n > 0
    BY <2>1, SMT
  <2>3. (x - y) * n = x * n - y * n
    BY SMT
  <2>4. x * n \in Int /\ y * n \in Int
    OBVIOUS
  <2> QED
    BY <2>2, <2>3, <2>4
<1> QED
  BY <1>1, <1>2

\* What is above one that is not below a third is above the third.
LEMMA AboveThrough ==
  ASSUME NEW a, NEW b, NEW c, Sized(a), Sized(b), Sized(c), Above(c, b), ~Above(a, b)
  PROVE  Above(c, a)
<1> DEFINE sa == SumScore(a)
           sb == SumScore(b)
           sc == SumScore(c)
           na == Cardinality(DOMAIN a)
           nb == Cardinality(DOMAIN b)
           nc == Cardinality(DOMAIN c)
<1>1. /\ sa \in Int /\ sb \in Int /\ sc \in Int
      /\ na \in Nat \ {0} /\ nb \in Nat \ {0} /\ nc \in Nat \ {0}
  BY DEF Sized
<1>2. sc * nb > sb * nc /\ ~(sa * nb > sb * na)
  BY DEF Above
<1> SUFFICES sc * na > sa * nc
  BY DEF Above
<1> HIDE DEF sa, sb, sc, na, nb, nc
<1>3. /\ sc * nb \in Int /\ sb * nc \in Int /\ sa * nb \in Int /\ sb * na \in Int
      /\ sc * na \in Int /\ sa * nc \in Int
  BY <1>1
<1>4. (sc * nb) * na > (sb * nc) * na
  BY <1>1, <1>2, <1>3, TimesKeepsOrder
<1>5. (sb * na) * nc >= (sa * nb) * nc
  <2>1. sb * na >= sa * nb
    BY <1>2, <1>3
  <2> QED
    BY <1>1, <1>3, <2>1, TimesKeepsOrder
<1>6. (sc * nb) * na = (sc * na) * nb
  BY <1>1, SMT
<1>7. (sb * nc) * na = (sb * na) * nc
  BY <1>1, SMT
<1>8. (sa * nb) * nc = (sa * nc) * nb
  BY <1>1, SMT
<1>9. /\ (sc * na) * nb \in Int /\ (sb * na) * nc \in Int /\ (sa * nc) * nb \in Int
  BY <1>1, <1>3
<1>10. (sc * na) * nb > (sa * nc) * nb
  BY <1>4, <1>5, <1>6, <1>7, <1>8, <1>9
<1> QED
  BY <1>1, <1>3, <1>10, PositiveFactor

\* What is above another is not below it.
LEMMA AboveAsymmetric ==
  ASSUME NEW a, NEW b, Sized(a), Sized(b), Above(a, b)
  PROVE  ~Above(b, a)
<1>1. /\ SumScore(a) * Cardinality(DOMAIN b) \in Int
      /\ SumScore(b) * Cardinality(DOMAIN a) \in Int
  BY DEF Sized
<1> QED
  BY <1>1 DEF Above

\* Nothing is above itself.
LEMMA AboveIrreflexive ==
  ASSUME NEW a, Sized(a)
  PROVE  ~Above(a, a)
  BY AboveAsymmetric

-----------------------------------------------------------------------------
(* Types. *)

ProposalType == [iteration : Nat, accepted : BOOLEAN]

StateType ==
  [candidates : Seq(Candidate), best : Int, frontier : SUBSET Nat, calls : 0..MaxMetricCalls,
   iterations : Nat, proposals : Seq(ProposalType)]

Kinds == {"started", "iteration", "proposed", "rejected", "accepted", "frontier", "ended"}

EventType == [kind : Kinds, iteration : Nat]

TypeInv ==
  /\ pc \in {"down", "seed", "loop", "before", "propose", "after", "reject", "validate",
             "frontier", "accept", "merge", "finish", "save", "rename", "done"}
  /\ next \in {"down", "loop", "accept", "merge", "done"}
  /\ state \in StateType /\ file \in StateType /\ tmp \in StateType
  /\ batch \in 0..MinibatchSize
  /\ log \subseteq EventType
  /\ starts \in 0..MaxStarts /\ spent \in Nat
  /\ LoopInv /\ records \in Seq(Candidate)

\* The types give TypeOK.
LEMMA TypeInvTypeOK == TypeInv => TypeOK
<1> SUFFICES ASSUME TypeInv PROVE TypeOK
  OBVIOUS
<1>1. state.calls \in 0..MaxMetricCalls /\ state.iterations \in Nat /\ state.candidates \in Seq(Candidate)
  BY DEF TypeInv, StateType
<1>2. \A i \in DOMAIN state.candidates : state.candidates[i] \in Candidate
  BY <1>1
<1>3. Candidate \subseteq UNION {[D -> Scores] : D \in SUBSET Valset}
  BY DEF Candidate
<1>4. \A i \in DOMAIN state.candidates : state.candidates[i] \in UNION {[D -> Scores] : D \in SUBSET Valset}
  BY <1>2, <1>3
<1> QED
  BY <1>1, <1>4 DEF TypeOK, TypeInv

\* What the states without candidates are.
LEMMA EmptyStates ==
  /\ NewState \in StateType /\ NoFile \in StateType /\ Torn \in StateType
  /\ NewState.candidates = <<>> /\ NewState.calls = 0 /\ NewState.iterations = 0
  /\ NewState.proposals = <<>> /\ NewState.frontier = {}
  /\ NoFile.candidates = <<>> /\ NoFile.calls = 0 /\ NoFile.iterations = 0
  /\ NoFile.proposals = <<>> /\ NoFile.frontier = {}
<1>1. NewState \in StateType
  BY ValsetSize DEF NewState, StateType
<1>2. ASSUME NEW s \in StateType, NEW b \in Int
      PROVE  /\ [s EXCEPT !.best = b] \in StateType
             /\ [s EXCEPT !.best = b].candidates = s.candidates
             /\ [s EXCEPT !.best = b].calls = s.calls
             /\ [s EXCEPT !.best = b].iterations = s.iterations
             /\ [s EXCEPT !.best = b].proposals = s.proposals
             /\ [s EXCEPT !.best = b].frontier = s.frontier
  BY DEF StateType
<1>3. -1 \in Int /\ -2 \in Int
  OBVIOUS
<1>4. NoFile = [NewState EXCEPT !.best = -1] /\ Torn = [NewState EXCEPT !.best = -2]
  BY DEF NoFile, Torn
<1>5. /\ NewState.candidates = <<>> /\ NewState.calls = 0 /\ NewState.iterations = 0
      /\ NewState.proposals = <<>> /\ NewState.frontier = {}
  BY DEF NewState
<1> QED
  BY <1>1, <1>2, <1>3, <1>4, <1>5

\* No evaluation is larger than the budget has room for.
LEMMA EvaluationsFit ==
  ASSUME TypeInv
  PROVE  /\ Remaining \in Nat /\ Remaining = MaxMetricCalls - state.calls /\ state.calls \in Nat
         /\ BatchSize \in Nat /\ BatchSize <= MinibatchSize /\ BatchSize <= Remaining
         /\ Smaller(batch, Remaining) \in Nat /\ Smaller(batch, Remaining) <= MinibatchSize
         /\ Smaller(batch, Remaining) <= Remaining
         /\ Smaller(V, Remaining) \in Nat /\ Smaller(V, Remaining) <= V
         /\ Smaller(V, Remaining) <= Remaining
         /\ Remaining > 0 => Smaller(V, Remaining) > 0
<1>1. state.calls \in 0..MaxMetricCalls /\ batch \in 0..MinibatchSize
  BY DEF TypeInv, StateType
<1>2. Remaining \in Nat /\ Remaining = MaxMetricCalls - state.calls /\ state.calls \in Nat
  BY <1>1, ValsetSize DEF Remaining
<1> QED
  BY <1>1, <1>2, ValsetSize DEF BatchSize, Smaller

\* So are the sizes of what a stop may waste.
LEMMA EvaluationSizeIs ==
  ASSUME TypeInv
  PROVE  EvaluationSize \in Nat
  BY EvaluationsFit, ValsetSize DEF EvaluationSize, V

\* Candidates have integer scores.
LEMMA CandidatesScored ==
  ASSUME NEW cs \in Seq(Candidate)
  PROVE  Scored(cs)
<1>1. \A i \in DOMAIN cs : cs[i] \in Candidate
  OBVIOUS
<1> QED
  BY <1>1, CandidateIs DEF Scored

\* The loop over the winners of candidates starts with its invariant.
LEMMA StartLoopInv ==
  ASSUME NEW cs \in Seq(Candidate), StartLoop(cs)
  PROVE  LoopInv' /\ records' \in Seq(Candidate)
<1>1. Scored(cs)
  BY CandidatesScored
<1> QED
  BY <1>1 DEF StartLoop, LoopInv, LoopTypeOK, DeletedAreCovered, PassedAreUndominated, Initially

\* Nothing is wrong with a loop that does not move,
LEMMA LoopUnmoved ==
  ASSUME LoopInv, UNCHANGED loopVars
  PROVE  LoopInv'
  BY LoopInvStep

\* nor with no loop.
LEMMA NoLoopInv == NoLoop => LoopInv
<1> SUFFICES ASSUME NoLoop PROVE LoopInv
  OBVIOUS
<1>1. records = <<>> /\ winners = {} /\ todo = {}
  BY DEF NoLoop
<1>2. InstanceWinners(records) = {}
  BY <1>1 DEF InstanceWinners
<1> QED
  BY <1>1, <1>2 DEF LoopInv, LoopTypeOK, DeletedAreCovered, PassedAreUndominated, Initially, Scored

\* nor with the loop of a run that is gone.
LEMMA LoopGone ==
  ASSUME records' = <<>>, winners' = {}, todo' = {}
  PROVE  LoopInv'
<1>1. InstanceWinners(records)' = {}
  BY DEF InstanceWinners
<1> QED
  BY <1>1 DEF LoopInv, LoopTypeOK, DeletedAreCovered, PassedAreUndominated, Initially, Scored

\* What a candidate that joins changes in a state.
LEMMA AdoptIs ==
  ASSUME NEW s \in StateType, NEW scores \in Candidate
  PROVE  /\ Adopt(s, scores) \in StateType
         /\ Adopt(s, scores).candidates = Append(s.candidates, scores)
         /\ Append(s.candidates, scores) \in Seq(Candidate)
         /\ Adopt(s, scores).best =
              IF Above(scores, Append(s.candidates, scores)[s.best]) THEN Len(s.candidates) + 1 ELSE s.best
         /\ Adopt(s, scores).frontier = s.frontier /\ Adopt(s, scores).calls = s.calls
         /\ Adopt(s, scores).iterations = s.iterations /\ Adopt(s, scores).proposals = s.proposals
<1>1. s.candidates \in Seq(Candidate) /\ s.best \in Int
  BY DEF StateType
<1> DEFINE cs == Append(s.candidates, scores)
           better == Above(scores, cs[s.best])
<1>2. cs \in Seq(Candidate) /\ Len(cs) = Len(s.candidates) + 1 /\ Len(cs) \in Int
  BY <1>1
<1>3. Adopt(s, scores) = [s EXCEPT !.candidates = cs, !.best = IF better THEN Len(cs) ELSE @]
  BY DEF Adopt
<1> HIDE DEF cs, better
<1>4. (IF better THEN Len(cs) ELSE s.best) \in Int
  BY <1>1, <1>2
<1>5. /\ Adopt(s, scores) \in StateType
      /\ Adopt(s, scores).candidates = cs
      /\ Adopt(s, scores).best = IF better THEN Len(cs) ELSE s.best
      /\ Adopt(s, scores).frontier = s.frontier /\ Adopt(s, scores).calls = s.calls
      /\ Adopt(s, scores).iterations = s.iterations /\ Adopt(s, scores).proposals = s.proposals
  BY <1>2, <1>3, <1>4 DEF StateType
<1> QED
  BY <1>2, <1>5 DEF cs, better

\* What a proposal that is judged adds to a state.
LEMMA ProposalIs ==
  ASSUME NEW s \in StateType, NEW accepted \in BOOLEAN
  PROVE  /\ Proposal(s, accepted) \in Seq(ProposalType)
         /\ Proposal(s, accepted) = Append(s.proposals, [iteration |-> s.iterations, accepted |-> accepted])
  BY DEF Proposal, StateType, ProposalType

\* What the evaluation of the seed does.
LEMMA SeedEffect ==
  ASSUME TypeInv, EvaluateSeed
  PROVE  \E scores \in Candidate :
           /\ state' \in StateType /\ StartLoop(<<scores>>)
           /\ state'.candidates = <<scores>> /\ <<scores>> \in Seq(Candidate)
           /\ state'.best = 1 /\ state'.calls = V
           /\ state'.frontier = state.frontier /\ state'.iterations = state.iterations
           /\ state'.proposals = state.proposals
<1>1. PICK scores \in [Valset -> Scores] :
        /\ state' = [state EXCEPT !.calls = Cardinality(Valset), !.candidates = <<scores>>, !.best = 1]
        /\ StartLoop(<<scores>>)
  BY DEF EvaluateSeed
<1>2. scores \in Candidate
  BY SeedIsCandidate
<1>3. <<scores>> \in Seq(Candidate) /\ V \in 0..MaxMetricCalls
  BY <1>2, ValsetSize
<1>4. state' = [state EXCEPT !.calls = V, !.candidates = <<scores>>, !.best = 1]
  BY <1>1 DEF V
<1>5. state \in StateType
  BY DEF TypeInv
<1> DEFINE cs == <<scores>>
<1> HIDE DEF cs
<1>6. /\ state' \in StateType
      /\ state'.candidates = cs
      /\ state'.best = 1 /\ state'.calls = V
      /\ state'.frontier = state.frontier /\ state'.iterations = state.iterations
      /\ state'.proposals = state.proposals
  <2>1. cs \in Seq(Candidate) /\ V \in 0..MaxMetricCalls /\ 1 \in Int
    BY <1>3 DEF cs
  <2>2. state' = [state EXCEPT !.calls = V, !.candidates = cs, !.best = 1]
    BY <1>4 DEF cs
  <2> QED
    BY <1>5, <2>1, <2>2 DEF StateType
<1> QED
  BY <1>1, <1>2, <1>3, <1>6 DEF cs

\* What the validation of a candidate does.
LEMMA ValidateEffect ==
  ASSUME TypeInv, Remaining > 0, Validate
  PROVE  \E scores \in Candidate :
           /\ state' \in StateType /\ StartLoop(Append(state.candidates, scores))
           /\ Append(state.candidates, scores) \in Seq(Candidate)
           /\ state'.candidates = Append(state.candidates, scores)
           /\ state'.best = Adopt(state, scores).best
           /\ state'.calls = state.calls + Smaller(V, Remaining)
           /\ spent' = spent + Smaller(V, Remaining)
           /\ state'.frontier = state.frontier /\ state'.iterations = state.iterations
           /\ state'.proposals = Proposal(state, TRUE)
<1>0. PICK examples \in Samples : \E scores \in [examples -> Scores] :
        /\ state' = [Adopt(state, scores) EXCEPT !.calls = Calls(Cardinality(examples)),
                                                 !.proposals = Proposal(state, TRUE)]
        /\ StartLoop(Append(state.candidates, scores))
        /\ spent' = spent + Cardinality(examples)
  BY DEF Validate
<1>1. PICK scores \in [examples -> Scores] :
        /\ state' = [Adopt(state, scores) EXCEPT !.calls = Calls(Cardinality(examples)),
                                                 !.proposals = Proposal(state, TRUE)]
        /\ StartLoop(Append(state.candidates, scores))
        /\ spent' = spent + Cardinality(examples)
  BY <1>0
<1>2. examples \in SUBSET Valset /\ Cardinality(examples) = Smaller(V, Remaining)
  BY DEF Samples, V
<1>3. Smaller(V, Remaining) \in Nat /\ Smaller(V, Remaining) # 0
  BY EvaluationsFit
<1>4. scores \in Candidate
  BY <1>2, <1>3, EvaluationGivesCandidate
<1>5. state \in StateType
  BY DEF TypeInv
<1> DEFINE s == Adopt(state, scores)
           n == state.calls + Smaller(V, Remaining)
           p == Proposal(state, TRUE)
<1>6. /\ s \in StateType /\ s.candidates = Append(state.candidates, scores)
      /\ Append(state.candidates, scores) \in Seq(Candidate)
      /\ s.frontier = state.frontier /\ s.calls = state.calls
      /\ s.iterations = state.iterations
  BY <1>4, <1>5, AdoptIs
<1>7. n \in 0..MaxMetricCalls /\ p \in Seq(ProposalType)
  <2>1. n \in 0..MaxMetricCalls
    BY EvaluationsFit, ValsetSize
  <2>2. p \in Seq(ProposalType)
    BY <1>5, ProposalIs
  <2> QED
    BY <2>1, <2>2
<1>8. state' = [s EXCEPT !.calls = n, !.proposals = p]
  BY <1>1, <1>2 DEF Calls
<1> HIDE DEF s, n, p
<1>9. /\ state' \in StateType /\ state'.candidates = s.candidates /\ state'.best = s.best
      /\ state'.calls = n /\ state'.frontier = s.frontier /\ state'.iterations = s.iterations
      /\ state'.proposals = p
  BY <1>6, <1>7, <1>8 DEF StateType
<1> QED
  BY <1>1, <1>2, <1>4, <1>6, <1>9 DEF s, n, p

\* What a merge does: nothing, a candidate that is not kept, or one that joins.
LEMMA MergeEffect ==
  ASSUME TypeInv, Merge
  PROVE  \/ ~CanMerge /\ pc' = "loop" /\ UNCHANGED <<loopVars, next, state, spent>>
         \/ /\ CanMerge
            /\ state' \in StateType
            /\ state'.calls = state.calls + Smaller(V, Remaining)
            /\ spent' = spent + Smaller(V, Remaining)
            /\ state'.frontier = state.frontier /\ state'.iterations = state.iterations
            /\ state'.proposals = state.proposals
            /\ \/ /\ state'.candidates = state.candidates /\ state'.best = state.best
                  /\ pc' = "loop" /\ UNCHANGED <<loopVars, next>>
               \/ \E scores \in Candidate :
                    /\ state'.candidates = Append(state.candidates, scores)
                    /\ Append(state.candidates, scores) \in Seq(Candidate)
                    /\ state'.best = Adopt(state, scores).best
                    /\ pc' = "frontier" /\ next' = "loop" /\ StartLoop(state'.candidates)
<1>1. CASE ~CanMerge
  BY <1>1 DEF Merge
<1>2. CASE CanMerge
  <2> DEFINE Worse(i, scores) == Above(state.candidates[i], scores)
             Dropped(l, r, scores) == Worse(l, scores) /\ Worse(r, scores)
             Result(l, r, scores) == IF Dropped(l, r, scores) THEN state ELSE Adopt(state, scores)
  <2>1. PICK left \in state.frontier, right \in state.frontier, examples \in Samples :
          /\ \E scores \in [examples -> Scores] :
               /\ state' = [Result(left, right, scores) EXCEPT !.calls = Calls(Cardinality(examples))]
               /\ IF Dropped(left, right, scores)
                  THEN pc' = "loop" /\ UNCHANGED <<loopVars, next>>
                  ELSE pc' = "frontier" /\ next' = "loop"
                       /\ StartLoop(Result(left, right, scores).candidates)
          /\ spent' = spent + Cardinality(examples)
    BY <1>2 DEF Merge
  <2>2. PICK scores \in [examples -> Scores] :
          /\ state' = [Result(left, right, scores) EXCEPT !.calls = Calls(Cardinality(examples))]
          /\ IF Dropped(left, right, scores)
             THEN pc' = "loop" /\ UNCHANGED <<loopVars, next>>
             ELSE pc' = "frontier" /\ next' = "loop" /\ StartLoop(Result(left, right, scores).candidates)
    BY <2>1
  <2> DEFINE s == Result(left, right, scores)
             n == state.calls + Smaller(V, Remaining)
  <2>3. examples \in SUBSET Valset /\ Cardinality(examples) = Smaller(V, Remaining)
    BY DEF Samples, V
  <2>4. scores \in Candidate
    <3>1. Remaining > 0
      BY <1>2 DEF CanMerge
    <3>2. Cardinality(examples) # 0
      BY <2>3, <3>1, EvaluationsFit
    <3> QED
      BY <2>2, <2>3, <3>2, EvaluationGivesCandidate
  <2>5. state \in StateType
    BY DEF TypeInv
  <2>6. n \in 0..MaxMetricCalls
    BY EvaluationsFit, ValsetSize
  <2>7. state' = [s EXCEPT !.calls = n] /\ spent' = spent + Smaller(V, Remaining)
    BY <2>1, <2>2, <2>3 DEF Calls
  <2> HIDE DEF Dropped, n
  <2>8. CASE Dropped(left, right, scores)
    <3>1. s = state /\ pc' = "loop" /\ UNCHANGED <<loopVars, next>>
      BY <2>2, <2>8
    <3>2. /\ state' \in StateType /\ state'.calls = n
          /\ state'.frontier = state.frontier /\ state'.iterations = state.iterations
          /\ state'.proposals = state.proposals
          /\ state'.candidates = state.candidates /\ state'.best = state.best
      BY <2>5, <2>6, <2>7, <3>1 DEF StateType
    <3> QED
      BY <1>2, <2>7, <3>1, <3>2 DEF n
  <2>9. CASE ~Dropped(left, right, scores)
    <3>1. /\ s = Adopt(state, scores) /\ pc' = "frontier" /\ next' = "loop"
          /\ StartLoop(s.candidates)
      BY <2>2, <2>9
    <3>2. /\ s \in StateType /\ s.candidates = Append(state.candidates, scores)
          /\ Append(state.candidates, scores) \in Seq(Candidate)
          /\ s.frontier = state.frontier /\ s.iterations = state.iterations
          /\ s.proposals = state.proposals
      BY <2>4, <2>5, <3>1, AdoptIs
    <3> HIDE DEF s
    <3>3. /\ state' \in StateType /\ state'.calls = n
          /\ state'.frontier = s.frontier /\ state'.iterations = s.iterations
          /\ state'.proposals = s.proposals
          /\ state'.candidates = s.candidates /\ state'.best = s.best
      BY <2>6, <2>7, <3>2 DEF StateType
    <3> QED
      BY <1>2, <2>4, <2>7, <3>1, <3>2, <3>3 DEF n
  <2> QED
    BY <2>8, <2>9
<1> QED
  BY <1>1, <1>2

\* What the beginning of an iteration does.
LEMMA BeginEffect ==
  ASSUME TypeInv, Begin, Remaining > 0
  PROVE  /\ state' \in StateType /\ state'.iterations = state.iterations + 1
         /\ state'.candidates = state.candidates /\ state'.best = state.best
         /\ state'.frontier = state.frontier /\ state'.calls = state.calls
         /\ state'.proposals = state.proposals
         /\ pc' = "before"
         /\ \E k \in Kinds : log' = log \union {[kind |-> k, iteration |-> state.iterations + 1]}
<1>1. state \in StateType
  BY DEF TypeInv
<1>2. /\ state' = [state EXCEPT !.iterations = @ + 1] /\ pc' = "before"
      /\ log' = log \union {[Event("iteration") EXCEPT !.iteration = @ + 1]}
  BY EvaluationsFit DEF Begin
<1>3. [Event("iteration") EXCEPT !.iteration = @ + 1]
        = [kind |-> "iteration", iteration |-> state.iterations + 1]
  BY DEF Event
<1>4. /\ state' \in StateType /\ state'.iterations = state.iterations + 1
      /\ state'.candidates = state.candidates /\ state'.best = state.best
      /\ state'.frontier = state.frontier /\ state'.calls = state.calls
      /\ state'.proposals = state.proposals
  BY <1>1, <1>2, SMTT(20) DEF StateType
<1>5. "iteration" \in Kinds
  BY DEF Kinds
<1> QED
  BY <1>2, <1>3, <1>4, <1>5

\* What the evaluation of the parent does.
LEMMA BeforeEffect ==
  ASSUME TypeInv, EvaluateBefore
  PROVE  /\ state' \in StateType /\ state'.calls = state.calls + BatchSize
         /\ state'.candidates = state.candidates /\ state'.best = state.best
         /\ state'.frontier = state.frontier /\ state'.iterations = state.iterations
         /\ state'.proposals = state.proposals
<1>1. state \in StateType
  BY DEF TypeInv
<1> DEFINE n == state.calls + BatchSize
<1>2. n \in 0..MaxMetricCalls
  BY EvaluationsFit, ValsetSize
<1>3. state' = [state EXCEPT !.calls = n]
  BY DEF EvaluateBefore, Calls
<1> HIDE DEF n
<1>4. /\ state' \in StateType /\ state'.calls = n
      /\ state'.candidates = state.candidates /\ state'.best = state.best
      /\ state'.frontier = state.frontier /\ state'.iterations = state.iterations
      /\ state'.proposals = state.proposals
  BY <1>1, <1>2, <1>3 DEF StateType
<1> QED
  BY <1>4 DEF n

\* What the evaluation of a patch does.
LEMMA AfterEffect ==
  ASSUME TypeInv, EvaluateAfter
  PROVE  /\ state' \in StateType /\ state'.calls = state.calls + Smaller(batch, Remaining)
         /\ spent' = spent + Smaller(batch, Remaining)
         /\ state'.candidates = state.candidates /\ state'.best = state.best
         /\ state'.frontier = state.frontier /\ state'.iterations = state.iterations
         /\ \/ /\ state'.proposals = Append(state.proposals,
                                            [iteration |-> state.iterations, accepted |-> FALSE])
               /\ pc' = "reject"
            \/ /\ state'.proposals = state.proposals
               /\ pc' = IF state'.calls >= MaxMetricCalls THEN "finish" ELSE "validate"
<1>1. state \in StateType
  BY DEF TypeInv
<1> DEFINE n == state.calls + Smaller(batch, Remaining)
           s == [state EXCEPT !.calls = n]
           p == Append(state.proposals, [iteration |-> state.iterations, accepted |-> FALSE])
<1>2. n \in 0..MaxMetricCalls
  BY EvaluationsFit, ValsetSize
<1>3. p \in Seq(ProposalType)
  BY <1>1 DEF StateType, ProposalType
<1>4. /\ \/ state' = [s EXCEPT !.proposals = Proposal(s, FALSE)] /\ pc' = "reject"
         \/ state' = s /\ pc' = IF s.calls >= MaxMetricCalls THEN "finish" ELSE "validate"
      /\ spent' = spent + Smaller(batch, Remaining)
  BY DEF EvaluateAfter, Calls
<1> HIDE DEF n
<1>5. /\ s \in StateType /\ s.calls = n /\ s.candidates = state.candidates /\ s.best = state.best
      /\ s.frontier = state.frontier /\ s.iterations = state.iterations
      /\ s.proposals = state.proposals
  BY <1>1, <1>2 DEF StateType
<1>6. Proposal(s, FALSE) = p
  BY <1>5 DEF Proposal
<1> HIDE DEF s, p
<1>7. CASE state' = [s EXCEPT !.proposals = Proposal(s, FALSE)] /\ pc' = "reject"
  <2>1. /\ state' \in StateType /\ state'.calls = n /\ state'.candidates = s.candidates
        /\ state'.best = s.best /\ state'.frontier = s.frontier
        /\ state'.iterations = s.iterations /\ state'.proposals = p
    BY <1>3, <1>5, <1>6, <1>7 DEF StateType
  <2> QED
    BY <1>4, <1>5, <1>7, <2>1 DEF n, p
<1>8. CASE state' = s /\ pc' = IF s.calls >= MaxMetricCalls THEN "finish" ELSE "validate"
  BY <1>4, <1>5, <1>8 DEF n
<1> QED
  BY <1>4, <1>7, <1>8

\* What the end of the loop over the winners does.
LEMMA FoundEffect ==
  ASSUME TypeInv, FrontierFound
  PROVE  /\ state' \in StateType /\ state'.frontier = winners
         /\ winners = Frontier(records) /\ winners \subseteq DOMAIN records
         /\ state'.candidates = state.candidates /\ state'.best = state.best
         /\ state'.calls = state.calls /\ state'.iterations = state.iterations
         /\ state'.proposals = state.proposals
<1>1. state \in StateType
  BY DEF TypeInv
<1>2. winners \subseteq DOMAIN records
  BY DEF TypeInv, LoopInv, LoopTypeOK, InstanceWinners
<1>3. winners \in SUBSET Nat
  <2>1. records \in Seq(Candidate)
    BY DEF TypeInv
  <2> QED
    BY <1>2, <2>1
<1>4. winners = Frontier(records)
  BY LoopInvFinds DEF TypeInv, LoopFindsFrontier, FrontierFound
<1>5. state' = [state EXCEPT !.frontier = winners]
  BY DEF FrontierFound
<1> QED
  BY <1>1, <1>2, <1>3, <1>4, <1>5 DEF StateType

\* An event is logged with the number of the iteration.
LEMMA EventIs ==
  ASSUME TypeInv, NEW k \in Kinds
  PROVE  Event(k) = [kind |-> k, iteration |-> state.iterations]
         /\ Event(k) \in EventType
<1>1. state.iterations \in Nat
  BY DEF TypeInv, StateType
<1> QED
  BY <1>1 DEF Event, EventType

\* The budget has room where the next call needs it.
Roomy == pc \in {"before", "validate"} => Remaining > 0

\* Every variable keeps its type.
LEMMA TypesStep == TypeInv /\ Roomy /\ [Next]_vars => TypeInv'
<1> SUFFICES ASSUME TypeInv, Roomy, [Next]_vars PROVE TypeInv'
  OBVIOUS
<1>0. /\ state \in StateType /\ file \in StateType /\ tmp \in StateType
      /\ batch \in 0..MinibatchSize /\ log \subseteq EventType
      /\ starts \in 0..MaxStarts /\ spent \in Nat /\ LoopInv /\ records \in Seq(Candidate)
  BY DEF TypeInv
<1> USE DEF memory, disk
<1>1. CASE Start
  <2>1. state' \in StateType
    BY <1>0, <1>1, EmptyStates DEF Start
  <2>2. starts' \in 0..MaxStarts
    BY <1>0, <1>1, ValsetSize DEF Start
  <2>3. log' \subseteq EventType
    BY <1>0, <1>1 DEF Start, EventType, Kinds
  <2>4. UNCHANGED loopVars
    BY <1>1 DEF Start
  <2>5. LoopInv' /\ records' \in Seq(Candidate)
    BY <1>0, <2>4, LoopUnmoved DEF loopVars
  <2> QED
    BY <1>1, <2>1, <2>2, <2>3, <2>5 DEF TypeInv, Start
<1>2. CASE EvaluateSeed
  <2>1. state' \in StateType /\ LoopInv' /\ records' \in Seq(Candidate)
    BY <1>2, SeedEffect, StartLoopInv
  <2>2. spent' \in Nat
    BY <1>0, <1>2, ValsetSize DEF EvaluateSeed, V
  <2> QED
    BY <1>2, <2>1, <2>2 DEF TypeInv, EvaluateSeed
<1>3. CASE VisitWinner
  <2>1. LoopInv' /\ records' = records
    BY <1>0, <1>3, LoopInvStep DEF VisitWinner, Visit
  <2> QED
    BY <1>3, <2>1 DEF TypeInv, VisitWinner
<1>4. CASE FrontierFound
  <2>1. state' \in StateType
    BY <1>4, FoundEffect
  <2>2. LoopInv' /\ records' \in Seq(Candidate)
    BY <1>0, <1>4, LoopUnmoved DEF FrontierFound, loopVars
  <2> QED
    BY <1>4, <2>1, <2>2 DEF TypeInv, FrontierFound
<1>5. CASE Begin
  <2>1. LoopInv' /\ records' \in Seq(Candidate)
    BY <1>0, <1>5, LoopUnmoved DEF Begin, loopVars
  <2>2. state' \in StateType /\ log' \subseteq EventType
    <3>1. CASE Remaining > 0
      <4>1. state.iterations + 1 \in Nat
        BY <1>0, SMTT(20) DEF StateType
      <4> QED
        BY <1>0, <1>5, <3>1, <4>1, BeginEffect DEF EventType
    <3>2. CASE ~(Remaining > 0)
      BY <1>0, <1>5, <3>2 DEF Begin
    <3> QED
      BY <3>1, <3>2
  <2> QED
    BY <1>5, <2>1, <2>2 DEF TypeInv, Begin
<1>6. CASE EvaluateBefore
  <2>1. LoopInv' /\ records' \in Seq(Candidate)
    BY <1>0, <1>6, LoopUnmoved DEF EvaluateBefore, loopVars
  <2>2. state' \in StateType
    BY <1>6, BeforeEffect
  <2>3. spent' \in Nat /\ batch' \in 0..MinibatchSize
    BY <1>0, <1>6, EvaluationsFit, ValsetSize DEF EvaluateBefore
  <2> QED
    BY <1>6, <2>1, <2>2, <2>3 DEF TypeInv, EvaluateBefore
<1>7. CASE Propose
  <2>1. LoopInv' /\ records' \in Seq(Candidate)
    BY <1>0, <1>7, LoopUnmoved DEF Propose, loopVars
  <2>2. log' \subseteq EventType
    BY <1>0, <1>7, EventIs DEF Propose, Kinds
  <2> QED
    BY <1>7, <2>1, <2>2 DEF TypeInv, Propose
<1>8. CASE EvaluateAfter
  <2>1. LoopInv' /\ records' \in Seq(Candidate)
    BY <1>0, <1>8, LoopUnmoved DEF EvaluateAfter, loopVars
  <2>2. state' \in StateType /\ spent' = spent + Smaller(batch, Remaining)
        /\ pc' \in {"reject", "finish", "validate"}
    BY <1>8, AfterEffect
  <2>3. spent' \in Nat
    BY <1>0, <2>2, EvaluationsFit
  <2> QED
    BY <1>8, <2>1, <2>2, <2>3 DEF TypeInv, EvaluateAfter
<1>9. CASE Reject
  <2>1. LoopInv' /\ records' \in Seq(Candidate)
    BY <1>0, <1>9, LoopUnmoved DEF Reject, loopVars
  <2>2. log' \subseteq EventType
    BY <1>0, <1>9, EventIs DEF Reject, Kinds
  <2> QED
    BY <1>9, <2>1, <2>2 DEF TypeInv, Reject
<1>10. CASE Validate
  <2>0. Remaining > 0
    BY <1>10 DEF Roomy, Validate
  <2>1. state' \in StateType /\ LoopInv' /\ records' \in Seq(Candidate)
        /\ spent' = spent + Smaller(V, Remaining)
    BY <1>10, <2>0, ValidateEffect, StartLoopInv
  <2>2. spent' \in Nat
    BY <1>0, <2>1, EvaluationsFit
  <2> QED
    BY <1>10, <2>1, <2>2 DEF TypeInv, Validate
<1>11. CASE Accept
  <2>1. LoopInv' /\ records' \in Seq(Candidate)
    BY <1>0, <1>11, LoopUnmoved DEF Accept, loopVars
  <2>2. log' \subseteq EventType
    BY <1>0, <1>11, EventIs DEF Accept, Kinds
  <2> QED
    BY <1>11, <2>1, <2>2 DEF TypeInv, Accept
<1>12. CASE Merge
  <2>1. /\ state' \in StateType /\ spent' \in Nat /\ LoopInv' /\ records' \in Seq(Candidate)
        /\ pc' \in {"loop", "frontier"} /\ (next' = next \/ next' = "loop")
    <3>1. CASE UNCHANGED <<loopVars, next, state, spent>> /\ pc' = "loop"
      BY <1>0, <3>1, LoopUnmoved DEF loopVars
    <3>2. CASE /\ state' \in StateType /\ spent' = spent + Smaller(V, Remaining)
               /\ pc' = "loop" /\ UNCHANGED <<loopVars, next>>
      <4>1. LoopInv' /\ records' \in Seq(Candidate)
        BY <1>0, <3>2, LoopUnmoved DEF loopVars
      <4> QED
        BY <1>0, <3>2, <4>1, EvaluationsFit
    <3>3. CASE /\ state' \in StateType /\ spent' = spent + Smaller(V, Remaining)
               /\ pc' = "frontier" /\ next' = "loop" /\ StartLoop(state'.candidates)
      <4>1. state'.candidates \in Seq(Candidate)
        BY <3>3 DEF StateType
      <4>2. LoopInv' /\ records' \in Seq(Candidate)
        BY <3>3, <4>1, StartLoopInv
      <4> QED
        BY <1>0, <3>3, <4>2, EvaluationsFit
    <3> QED
      BY <1>12, <3>1, <3>2, <3>3, MergeEffect
  <2> QED
    BY <1>12, <2>1 DEF TypeInv, Merge
<1>13. CASE Finish
  <2>1. LoopInv' /\ records' \in Seq(Candidate)
    BY <1>0, <1>13, LoopUnmoved DEF Finish, loopVars
  <2>2. log' \subseteq EventType
    BY <1>0, <1>13, EventIs DEF Finish, Kinds
  <2> QED
    BY <1>13, <2>1, <2>2 DEF TypeInv, Finish
<1>14. CASE WriteTmp
  <2>1. LoopInv' /\ records' \in Seq(Candidate)
    BY <1>0, <1>14, LoopUnmoved DEF WriteTmp, loopVars
  <2> QED
    BY <1>14, <2>1 DEF TypeInv, WriteTmp
<1>15. CASE Rename
  <2>1. LoopInv' /\ records' \in Seq(Candidate)
    BY <1>0, <1>15, LoopUnmoved DEF Rename, loopVars
  <2> QED
    BY <1>15, <2>1, EmptyStates DEF TypeInv, Rename
<1>16. CASE Stop
  <2>1. LoopInv' /\ records' \in Seq(Candidate)
    BY <1>16, LoopGone DEF Stop
  <2>2. spent' \in Nat
    BY <1>0, <1>16, EvaluationSizeIs DEF Stop
  <2>3. state' \in StateType /\ tmp' \in StateType /\ batch' \in 0..MinibatchSize
    BY <1>0, <1>16, EmptyStates, ValsetSize DEF Stop
  <2> QED
    BY <1>16, <2>1, <2>2, <2>3 DEF TypeInv, Stop
<1>17. CASE UNCHANGED vars
  <2>1. LoopInv'
    BY <1>0, <1>17, LoopUnmoved DEF vars
  <2> QED
    BY <1>17, <2>1 DEF TypeInv, vars, loopVars
<1> QED
  BY <1>1, <1>2, <1>3, <1>4, <1>5, <1>6, <1>7, <1>8, <1>9, <1>10, <1>11, <1>12, <1>13, <1>14,
     <1>15, <1>16, <1>17 DEF Next, RunStep

-----------------------------------------------------------------------------
(* Where a run is, and what it then holds. *)

\* Some candidate has the best score of some example.
LEMMA WinnersExist ==
  ASSUME NEW cs \in Seq(Candidate), cs # <<>>
  PROVE  InstanceWinners(cs) # {}
<1>1. 1 \in DOMAIN cs /\ DOMAIN cs = 1..Len(cs) /\ Len(cs) \in Nat /\ cs[1] \in Candidate
  BY Z3
<1>2. PICK e : e \in DOMAIN cs[1]
  BY <1>1, CandidateIs
<1> DEFINE Having == {i \in DOMAIN cs : e \in DOMAIN cs[i]}
           given == [i \in Having |-> cs[i][e]]
           S == {cs[i][e] : i \in Having}
<1>3. IsFiniteSet(Having)
  <2>1. IsFiniteSet(1..Len(cs))
    BY <1>1, FS_Interval
  <2> QED
    BY <1>1, <2>1, FS_Subset
<1>4. given \in Surjection(Having, S)
  BY DEF Surjection
<1>5. IsFiniteSet(S)
  <2> HIDE DEF Having, given, S
  <2> QED
    BY <1>3, <1>4, FS_Surjection
<1>6. S \in SUBSET Int /\ S # {}
  <2>1. \A i \in Having : cs[i][e] \in Int
    <3>1. \A i \in Having : cs[i] \in Candidate /\ e \in DOMAIN cs[i]
      OBVIOUS
    <3> HIDE DEF Having
    <3> QED
      BY <3>1, CandidateIs
  <2>2. 1 \in Having
    BY <1>1, <1>2
  <2> QED
    BY <2>1, <2>2
<1>7. PICK best \in S : \A y \in S : y <= best
  <2> HIDE DEF S
  <2> QED
    BY <1>5, <1>6, MaxOfFinite
<1>8. PICK i \in Having : best = cs[i][e]
  BY <1>7
<1>9. \A j \in DOMAIN cs : e \in DOMAIN cs[j] => cs[j][e] \in S
  OBVIOUS
<1>10. BestOn(cs, i, e)
  <2> HIDE DEF S
  <2> QED
    BY <1>7, <1>8, <1>9 DEF BestOn
<1>11. e \in Dimensions(cs)
  BY <1>1, <1>2 DEF Dimensions
<1> QED
  BY <1>8, <1>10, <1>11 DEF InstanceWinners

\* A winner is deleted only when another is left.
LEMMA VisitLeavesOne == winners # {} /\ Visit => winners' # {}
  BY DEF Visit

\* A state's best candidate is one of its candidates.
Whole(s) == s.candidates # <<>> /\ s.best \in DOMAIN s.candidates

\* What each part of a run finds in memory and on the disk.
PlacedInv ==
  /\ pc = "seed" => state = NewState /\ file = NoFile
  /\ pc = "down" => state = NewState
  /\ pc \notin {"down", "seed"} => Whole(state)
  /\ pc \notin {"down", "seed", "frontier"} => Resumable(state)
  /\ pc = "frontier" => next \in {"loop", "accept"} /\ records = state.candidates /\ winners # {}
  /\ pc \in {"save", "rename"} => next \in {"loop", "merge", "done"}
  /\ pc = "rename" => tmp = state
  /\ pc = "done" => file = state
  /\ pc \in {"before", "after", "validate"} => Remaining > 0
  /\ file = NoFile \/ Resumable(file)
  /\ file = NoFile =>
       pc \in {"down", "seed"} \/ (pc \in {"frontier", "save", "rename"} /\ next = "loop")

\* A state that can be resumed is not the absence of one.
LEMMA ResumableIsFile == ~Resumable(NoFile)
  BY EmptyStates DEF Resumable

\* A candidate that joins leaves a state whole.
LEMMA AdoptWhole ==
  ASSUME NEW s \in StateType, Whole(s), NEW scores \in Candidate
  PROVE  /\ Adopt(s, scores).best \in DOMAIN Append(s.candidates, scores)
         /\ Append(s.candidates, scores) # <<>>
<1>1. s.candidates \in Seq(Candidate)
  BY DEF StateType
<1>2. Adopt(s, scores).best \in {s.best, Len(s.candidates) + 1}
  BY AdoptIs
<1> QED
  BY <1>1, <1>2 DEF Whole

\* States that agree on candidates, best and frontier are alike.
LEMMA WholeAlike ==
  ASSUME NEW s, NEW t, s.candidates = t.candidates, s.best = t.best, s.frontier = t.frontier
  PROVE  (Whole(s) => Whole(t)) /\ (Resumable(s) => Resumable(t))
  BY DEF Whole, Resumable

\* A run keeps its place.
LEMMA PlacedStep == TypeInv /\ PlacedInv /\ [Next]_vars => PlacedInv'
<1> SUFFICES ASSUME TypeInv, PlacedInv, [Next]_vars PROVE PlacedInv'
  OBVIOUS
<1>0. /\ state \in StateType /\ file \in StateType
      /\ file = NoFile \/ Resumable(file)
      /\ pc \notin {"down", "seed"} => Whole(state)
      /\ pc \notin {"down", "seed", "frontier"} => Resumable(state)
  BY DEF TypeInv, PlacedInv
<1> USE DEF memory, disk
<1>1. CASE Start
  <2>1. CASE file = NoFile /\ state' = NewState /\ pc' = "seed"
    BY <1>1, <2>1 DEF Start, PlacedInv
  <2>2. CASE file # NoFile /\ Resumable(file) /\ state' = file /\ pc' = "loop"
    BY <1>1, <2>2 DEF Start, PlacedInv, Whole, Resumable
  <2> QED
    BY <1>1, <2>1, <2>2 DEF Start
<1>2. CASE EvaluateSeed
  <2>1. PICK scores \in Candidate :
          /\ state' \in StateType /\ StartLoop(<<scores>>)
          /\ state'.candidates = <<scores>> /\ <<scores>> \in Seq(Candidate)
          /\ state'.best = 1
    BY <1>2, SeedEffect
  <2>2. Whole(state')
    BY <2>1 DEF Whole
  <2>3. records' = state'.candidates /\ winners' # {}
    <3>1. <<scores>> # <<>>
      OBVIOUS
    <3> QED
      BY <2>1, <3>1, WinnersExist DEF StartLoop
  <2> QED
    BY <1>2, <2>2, <2>3 DEF EvaluateSeed, PlacedInv
<1>3. CASE VisitWinner
  BY <1>3, VisitLeavesOne DEF VisitWinner, Visit, PlacedInv
<1>4. CASE FrontierFound
  <2>1. /\ Whole(state) /\ records = state.candidates /\ winners # {} /\ next \in {"loop", "accept"}
    BY <1>4 DEF FrontierFound, PlacedInv
  <2>2. /\ state'.frontier = winners /\ winners \subseteq DOMAIN records
        /\ state'.candidates = state.candidates /\ state'.best = state.best
    BY <1>4, FoundEffect
  <2>3. Whole(state') /\ Resumable(state')
    BY <2>1, <2>2 DEF Whole, Resumable
  <2> QED
    BY <1>4, <2>1, <2>3 DEF FrontierFound, PlacedInv
<1>5. CASE Begin
  <2>1. CASE Remaining > 0
    <3>1. /\ pc' = "before" /\ state'.calls = state.calls
          /\ state'.candidates = state.candidates /\ state'.best = state.best
          /\ state'.frontier = state.frontier
      BY <1>5, <2>1, BeginEffect
    <3>2. Whole(state') /\ Resumable(state')
      BY <1>0, <1>5, <3>1, WholeAlike DEF Begin
    <3>3. Remaining' > 0
      BY <2>1, <3>1 DEF Remaining
    <3> QED
      BY <1>5, <3>1, <3>2, <3>3 DEF Begin, PlacedInv
  <2>2. CASE ~(Remaining > 0)
    BY <1>0, <1>5, <2>2 DEF Begin, PlacedInv
  <2> QED
    BY <2>1, <2>2
<1>6. CASE EvaluateBefore
  <2>1. Whole(state') /\ Resumable(state')
    BY <1>0, <1>6, BeforeEffect, WholeAlike DEF EvaluateBefore
  <2> QED
    BY <1>6, <2>1 DEF EvaluateBefore, PlacedInv
<1>7. CASE Propose
  <2>1. pc' = "after" => Remaining' > 0
    BY <1>7, EvaluationsFit DEF Propose, Remaining
  <2> QED
    BY <1>0, <1>7, <2>1 DEF Propose, PlacedInv
<1>8. CASE EvaluateAfter
  <2>1. /\ pc' \in {"reject", "finish", "validate"}
        /\ pc' = "validate" => ~(state'.calls >= MaxMetricCalls)
        /\ state'.candidates = state.candidates /\ state'.best = state.best
        /\ state'.frontier = state.frontier /\ state' \in StateType
    BY <1>8, AfterEffect
  <2>2. Whole(state') /\ Resumable(state')
    BY <1>0, <1>8, <2>1, WholeAlike DEF EvaluateAfter
  <2>3. pc' = "validate" => Remaining' > 0
    <3>1. state'.calls \in Nat
      BY <2>1 DEF StateType
    <3> QED
      BY <2>1, <3>1, ValsetSize DEF Remaining
  <2> QED
    BY <1>8, <2>1, <2>2, <2>3 DEF EvaluateAfter, PlacedInv
<1>9. CASE Reject
  BY <1>0, <1>9 DEF Reject, PlacedInv
<1>10. CASE Validate
  <2>1. Remaining > 0 /\ Whole(state)
    BY <1>10 DEF PlacedInv, Validate
  <2>2. PICK scores \in Candidate :
          /\ StartLoop(Append(state.candidates, scores))
          /\ Append(state.candidates, scores) \in Seq(Candidate)
          /\ state'.candidates = Append(state.candidates, scores)
          /\ state'.best = Adopt(state, scores).best
    BY <1>10, <2>1, ValidateEffect
  <2>3. Whole(state')
    BY <1>0, <2>1, <2>2, AdoptWhole DEF Whole
  <2>4. records' = state'.candidates /\ winners' # {}
    BY <2>2, <2>3, WinnersExist DEF StartLoop, Whole
  <2> QED
    BY <1>10, <2>3, <2>4 DEF Validate, PlacedInv
<1>11. CASE Accept
  BY <1>0, <1>11 DEF Accept, PlacedInv
<1>12. CASE Merge
  <2>0. Whole(state) /\ Resumable(state) /\ file # NoFile /\ UNCHANGED file
    BY <1>0, <1>12 DEF Merge, PlacedInv
  <2>1. CASE UNCHANGED state /\ pc' = "loop"
    BY <1>0, <2>0, <2>1 DEF PlacedInv
  <2>2. CASE /\ state'.candidates = state.candidates /\ state'.best = state.best
             /\ state'.frontier = state.frontier /\ pc' = "loop"
    <3>1. Whole(state') /\ Resumable(state')
      BY <2>0, <2>2, WholeAlike
    <3> QED
      BY <1>0, <2>0, <2>2, <3>1 DEF PlacedInv
  <2>3. CASE \E scores \in Candidate :
               /\ state'.candidates = Append(state.candidates, scores)
               /\ Append(state.candidates, scores) \in Seq(Candidate)
               /\ state'.best = Adopt(state, scores).best
               /\ pc' = "frontier" /\ next' = "loop" /\ StartLoop(state'.candidates)
    <3>1. PICK scores \in Candidate :
               /\ state'.candidates = Append(state.candidates, scores)
               /\ Append(state.candidates, scores) \in Seq(Candidate)
               /\ state'.best = Adopt(state, scores).best
               /\ pc' = "frontier" /\ next' = "loop" /\ StartLoop(state'.candidates)
      BY <2>3
    <3>2. Whole(state')
      BY <1>0, <2>0, <3>1, AdoptWhole DEF Whole
    <3>3. records' = state'.candidates /\ winners' # {}
      BY <3>1, <3>2, WinnersExist DEF StartLoop, Whole
    <3> QED
      BY <1>0, <2>0, <3>1, <3>2, <3>3 DEF PlacedInv
  <2> QED
    BY <1>12, <2>1, <2>2, <2>3, MergeEffect
<1>13. CASE Finish
  BY <1>0, <1>13 DEF Finish, PlacedInv
<1>14. CASE WriteTmp
  BY <1>0, <1>14 DEF WriteTmp, PlacedInv
<1>15. CASE Rename
  BY <1>0, <1>15, ResumableIsFile DEF Rename, PlacedInv
<1>16. CASE Stop
  BY <1>0, <1>16 DEF Stop, PlacedInv, Running
<1>17. CASE UNCHANGED vars
  BY <1>17 DEF PlacedInv, vars, loopVars, Remaining, Whole, Resumable
<1> QED
  BY <1>1, <1>2, <1>3, <1>4, <1>5, <1>6, <1>7, <1>8, <1>9, <1>10, <1>11, <1>12, <1>13, <1>14,
     <1>15, <1>16, <1>17 DEF Next, RunStep

-----------------------------------------------------------------------------
(* Saved work: the state in memory goes on from the one in the file. *)

\* A state has all the candidates of another, and counts at least its calls and iterations.
GoesOn(s, t) ==
  /\ s.calls >= t.calls /\ s.iterations >= t.iterations
  /\ \A i \in DOMAIN t.candidates : i \in DOMAIN s.candidates /\ s.candidates[i] = t.candidates[i]

SavedInv == pc # "down" => GoesOn(state, file)

\* Nothing saved comes before everything.
LEMMA GoesOnFromNothing ==
  ASSUME NEW s \in StateType
  PROVE  GoesOn(s, NoFile)
<1>1. s.calls \in Nat /\ s.iterations \in Nat
  BY ValsetSize DEF StateType
<1> QED
  BY <1>1, EmptyStates DEF GoesOn

\* A state goes on from itself,
LEMMA GoesOnItself ==
  ASSUME NEW s \in StateType
  PROVE  GoesOn(s, s)
<1>1. s.calls \in Nat /\ s.iterations \in Nat
  BY ValsetSize DEF StateType
<1> QED
  BY <1>1 DEF GoesOn

\* and from what it went on from, when it counts more or has one more candidate.
LEMMA GoesOnFurther ==
  ASSUME NEW s \in StateType, NEW t \in StateType, NEW r \in StateType, GoesOn(s, t),
         r.calls >= s.calls, r.iterations >= s.iterations,
         \/ r.candidates = s.candidates
         \/ \E scores \in Candidate : r.candidates = Append(s.candidates, scores)
  PROVE  GoesOn(r, t)
<1>1. /\ s.calls \in Nat /\ t.calls \in Nat /\ r.calls \in Nat
      /\ s.iterations \in Nat /\ t.iterations \in Nat /\ r.iterations \in Nat
      /\ s.candidates \in Seq(Candidate)
  BY ValsetSize DEF StateType
<1>2. r.calls >= t.calls /\ r.iterations >= t.iterations
  BY <1>1 DEF GoesOn
<1>3. \A i \in DOMAIN s.candidates : i \in DOMAIN r.candidates /\ r.candidates[i] = s.candidates[i]
  <2>1. CASE r.candidates = s.candidates
    BY <2>1
  <2>2. ASSUME NEW scores \in Candidate, r.candidates = Append(s.candidates, scores)
        PROVE  \A i \in DOMAIN s.candidates : i \in DOMAIN r.candidates /\ r.candidates[i] = s.candidates[i]
    <3>. DEFINE cs == s.candidates
    <3>1. cs \in Seq(Candidate)
      BY <1>1
    <3>. HIDE DEF cs
    <3>2. \A i \in DOMAIN cs : i \in DOMAIN Append(cs, scores) /\ Append(cs, scores)[i] = cs[i]
      BY <3>1
    <3>. QED
      BY <2>2, <3>2 DEF cs
  <2>. QED
    BY <2>1, <2>2
<1> QED
  BY <1>2, <1>3 DEF GoesOn

\* The state in memory never loses what is saved.
LEMMA SavedStep == TypeInv /\ TypeInv' /\ PlacedInv /\ SavedInv /\ [Next]_vars => SavedInv'
<1> SUFFICES ASSUME TypeInv, TypeInv', PlacedInv, SavedInv, [Next]_vars PROVE SavedInv'
  OBVIOUS
<1>0. /\ state \in StateType /\ file \in StateType /\ state' \in StateType /\ file' \in StateType
      /\ state.calls \in Nat /\ state.iterations \in Nat
  <2>1. state \in StateType /\ file \in StateType /\ state' \in StateType /\ file' \in StateType
    BY DEF TypeInv
  <2>2. state.calls \in 0..MaxMetricCalls /\ state.iterations \in Nat
    BY <2>1 DEF StateType
  <2>3. state.calls \in Nat
    BY <2>2, ValsetSize
  <2> QED
    BY <2>1, <2>2, <2>3
<1> USE DEF memory, disk
<1>1. CASE Start
  BY <1>0, <1>1, GoesOnItself, GoesOnFromNothing DEF Start, SavedInv
<1>2. CASE EvaluateSeed
  BY <1>0, <1>2, GoesOnFromNothing DEF EvaluateSeed, SavedInv, PlacedInv
<1>3. CASE UNCHANGED <<state, file>> /\ pc # "down"
  BY <1>3 DEF SavedInv
<1>4. CASE FrontierFound
  <2>1. /\ state'.calls >= state.calls /\ state'.iterations >= state.iterations
        /\ state'.candidates = state.candidates
    BY <1>0, <1>4, FoundEffect
  <2>2. GoesOn(state', file)
    BY <1>0, <1>4, <2>1, GoesOnFurther DEF FrontierFound, SavedInv
  <2> QED
    BY <1>4, <2>2 DEF FrontierFound, SavedInv
<1>5. CASE Begin /\ Remaining > 0
  <2>1. state'.calls = state.calls /\ state'.iterations = state.iterations + 1
        /\ state'.candidates = state.candidates
    BY <1>5, BeginEffect
  <2>2. state'.calls >= state.calls /\ state'.iterations >= state.iterations
    BY <1>0, <2>1
  <2>3. GoesOn(state', file)
    BY <1>0, <1>5, <2>1, <2>2, GoesOnFurther DEF Begin, SavedInv
  <2> QED
    BY <1>5, <2>3 DEF Begin, SavedInv
<1>6. CASE EvaluateBefore
  <2>1. state'.calls >= state.calls /\ state'.iterations = state.iterations
        /\ state'.candidates = state.candidates
    BY <1>0, <1>6, BeforeEffect, EvaluationsFit
  <2>2. state'.iterations >= state.iterations
    BY <1>0, <2>1
  <2>3. GoesOn(state', file)
    BY <1>0, <1>6, <2>1, <2>2, GoesOnFurther DEF EvaluateBefore, SavedInv
  <2> QED
    BY <1>6, <2>3 DEF EvaluateBefore, SavedInv
<1>8. CASE EvaluateAfter
  <2>1. state'.calls >= state.calls /\ state'.iterations = state.iterations
        /\ state'.candidates = state.candidates
    BY <1>0, <1>8, AfterEffect, EvaluationsFit
  <2>2. state'.iterations >= state.iterations
    BY <1>0, <2>1
  <2>3. GoesOn(state', file)
    BY <1>0, <1>8, <2>1, <2>2, GoesOnFurther DEF EvaluateAfter, SavedInv
  <2> QED
    BY <1>8, <2>3 DEF EvaluateAfter, SavedInv
<1>10. CASE Validate
  <2>1. Remaining > 0
    BY <1>10 DEF PlacedInv, Validate
  <2>2. PICK scores \in Candidate :
          /\ state'.candidates = Append(state.candidates, scores)
          /\ state'.calls = state.calls + Smaller(V, Remaining)
          /\ state'.iterations = state.iterations
    BY <1>10, <2>1, ValidateEffect
  <2>3. state'.calls >= state.calls /\ state'.iterations >= state.iterations
    BY <1>0, <2>2, EvaluationsFit
  <2> QED
    BY <1>0, <1>10, <2>2, <2>3, GoesOnFurther DEF Validate, SavedInv
<1>12. CASE Merge /\ state' # state
  <2>1. /\ state'.calls = state.calls + Smaller(V, Remaining)
        /\ state'.iterations = state.iterations
        /\ \/ state'.candidates = state.candidates
           \/ \E scores \in Candidate : state'.candidates = Append(state.candidates, scores)
    BY <1>12, MergeEffect
  <2>2. state'.calls >= state.calls /\ state'.iterations >= state.iterations
    BY <1>0, <2>1, EvaluationsFit
  <2> QED
    BY <1>0, <1>12, <2>1, <2>2, GoesOnFurther DEF Merge, SavedInv
<1>15. CASE Rename
  BY <1>0, <1>15, GoesOnItself DEF Rename, SavedInv, PlacedInv
<1>16. CASE pc' = "down"
  BY <1>16 DEF SavedInv
<1>17. CASE UNCHANGED vars
  BY <1>17 DEF SavedInv, vars
<1>18. (Begin /\ ~(Remaining > 0)) => UNCHANGED <<state, file>> /\ pc # "down"
  BY EvaluationsFit DEF Begin
<1>19. VisitWinner \/ Propose \/ Reject \/ Accept \/ Finish \/ WriteTmp
         => UNCHANGED <<state, file>> /\ pc # "down"
  BY DEF VisitWinner, Propose, Reject, Accept, Finish, WriteTmp
<1>20. Merge /\ state' = state => UNCHANGED <<state, file>> /\ pc # "down"
  BY DEF Merge
<1> QED
  BY <1>1, <1>2, <1>3, <1>4, <1>5, <1>6, <1>8, <1>10, <1>12, <1>15, <1>16, <1>17, <1>18, <1>19,
     <1>20 DEF Next, RunStep, Stop

-----------------------------------------------------------------------------
(* The event log and the proposals. *)

\* The event that tells a proposal's fate.
EventOf(p) ==
  [kind |-> IF p.accepted THEN "accepted" ELSE "rejected", iteration |-> p.iteration]

\* The last proposal has been judged, and the log does not say so yet.
Unlogged == pc \in {"reject", "accept"} \/ (pc = "frontier" /\ next = "accept")

\* No iteration has begun since the state was saved.
Settled == pc \in {"seed", "loop", "merge", "done"} \/ (pc = "frontier" /\ next = "loop")

\* Proposals have iterations that grow, none later than the state's.
Increasing(s) ==
  /\ \A k \in DOMAIN s.proposals : s.proposals[k].iteration <= s.iterations
  /\ \A j, k \in DOMAIN s.proposals : j < k => s.proposals[j].iteration < s.proposals[k].iteration

\* The state has no proposal of its iteration yet.
Unjudged == \A k \in DOMAIN state.proposals : state.proposals[k].iteration < state.iterations

\* Every proposal of the state has its event, the last one not before it is logged.
StateLogged ==
  \A k \in DOMAIN state.proposals :
     \/ EventOf(state.proposals[k]) \in log
     \/ /\ Unlogged /\ k = Len(state.proposals)
        /\ state.proposals[k] = [iteration |-> state.iterations, accepted |-> pc # "reject"]

LogInv ==
  /\ \A k \in DOMAIN file.proposals : EventOf(file.proposals[k]) \in log
  /\ StateLogged
  /\ \A e \in log : e.iteration <= file.iterations + 1
  /\ pc # "down" => state.iterations <= file.iterations + 1
  /\ Settled => state.iterations = file.iterations
  /\ Increasing(state) /\ Increasing(file)
  /\ pc \in {"before", "propose", "after", "validate"} => Unjudged

\* The numbers the log compares are naturals.
LEMMA LogTypes ==
  ASSUME TypeInv
  PROVE  /\ state.iterations \in Nat /\ file.iterations \in Nat
         /\ state.proposals \in Seq(ProposalType) /\ file.proposals \in Seq(ProposalType)
         /\ \A k \in DOMAIN state.proposals : state.proposals[k].iteration \in Nat
         /\ \A k \in DOMAIN file.proposals : file.proposals[k].iteration \in Nat
         /\ \A e \in log : e.iteration \in Nat
<1>1. /\ state.iterations \in Nat /\ file.iterations \in Nat
      /\ state.proposals \in Seq(ProposalType) /\ file.proposals \in Seq(ProposalType)
  BY DEF TypeInv, StateType
<1>2. \A p \in ProposalType : p.iteration \in Nat
  BY DEF ProposalType
<1>3. /\ \A k \in DOMAIN state.proposals : state.proposals[k] \in ProposalType
      /\ \A k \in DOMAIN file.proposals : file.proposals[k] \in ProposalType
  BY <1>1
<1>4. \A e \in log : e.iteration \in Nat
  BY DEF TypeInv, EventType
<1> QED
  BY <1>1, <1>2, <1>3, <1>4

\* A step that judges no proposal and saves nothing, and at most logs events of its iteration.
Quiet ==
  /\ file' = file /\ state'.proposals = state.proposals /\ state'.iterations = state.iterations
  /\ log \subseteq log' /\ \A e \in log' \ log : e.iteration = state.iterations
  /\ pc # "down"
  /\ Unlogged => Unlogged' /\ (pc' = "reject" <=> pc = "reject")
  /\ Settled' => Settled
  /\ pc' \in {"before", "propose", "after", "validate"} => Unjudged

\* It leaves the log as right as it was.
LEMMA QuietKeeps == LogInv /\ Quiet => LogInv'
<1> SUFFICES ASSUME LogInv, Quiet PROVE LogInv'
  OBVIOUS
<1>1. \A k \in DOMAIN file'.proposals : EventOf(file'.proposals[k]) \in log'
  BY DEF LogInv, Quiet
<1>2. StateLogged'
  BY DEF LogInv, Quiet, StateLogged
<1>3. \A e \in log' : e.iteration <= file'.iterations + 1
  BY DEF LogInv, Quiet
<1>4. /\ pc' # "down" => state'.iterations <= file'.iterations + 1
      /\ Settled' => state'.iterations = file'.iterations
  BY DEF LogInv, Quiet
<1>5. Increasing(state') /\ Increasing(file')
  BY DEF LogInv, Quiet, Increasing
<1>6. pc' \in {"before", "propose", "after", "validate"} => Unjudged'
  BY DEF Quiet, Unjudged
<1> QED
  BY <1>1, <1>2, <1>3, <1>4, <1>5, <1>6 DEF LogInv

\* A step that judges the proposal of the iteration.
Judges(accepted) ==
  /\ UNCHANGED <<file, log>>
  /\ state'.iterations = state.iterations
  /\ state'.proposals = Append(state.proposals, [iteration |-> state.iterations, accepted |-> accepted])
  /\ Unjudged /\ ~Unlogged /\ Unlogged' /\ ~Settled' /\ pc # "down"
  /\ pc' \notin {"before", "propose", "after", "validate"}
  /\ accepted = (pc' # "reject")

\* Its event is the only one that is not logged.
LEMMA JudgesKeeps ==
  ASSUME TypeInv, LogInv, NEW accepted \in BOOLEAN, Judges(accepted)
  PROVE  LogInv'
<1> DEFINE p == [iteration |-> state.iterations, accepted |-> accepted]
           s == state.proposals
<1>0. s \in Seq(ProposalType) /\ state.iterations \in Nat /\ p \in ProposalType
  BY LogTypes DEF ProposalType
<1>1. /\ state'.proposals = Append(s, p) /\ state'.iterations = state.iterations
      /\ p.iteration = state.iterations
  BY DEF Judges
<1> HIDE DEF s, p
<1>2. /\ Len(Append(s, p)) = Len(s) + 1 /\ Len(s) \in Nat /\ Append(s, p)[Len(s) + 1] = p
      /\ DOMAIN Append(s, p) = 1..(Len(s) + 1) /\ DOMAIN s = 1..Len(s)
      /\ \A k \in DOMAIN s : Append(s, p)[k] = s[k]
  BY <1>0
<1>3. \A k \in DOMAIN s : s[k].iteration \in Nat /\ s[k].iteration < state.iterations
  BY LogTypes DEF s, Judges, Unjudged
<1>4. Increasing(state')
  <2>1. ASSUME NEW k \in 1..(Len(s) + 1)
        PROVE  Append(s, p)[k].iteration <= state.iterations
    BY <1>0, <1>1, <1>2, <1>3
  <2>2. ASSUME NEW j \in 1..(Len(s) + 1), NEW k \in 1..(Len(s) + 1), j < k
        PROVE  Append(s, p)[j].iteration < Append(s, p)[k].iteration
    <3>1. j \in DOMAIN s
      BY <1>2, <2>2
    <3>2. CASE k = Len(s) + 1
      BY <1>1, <1>2, <1>3, <3>1, <3>2
    <3>3. CASE k # Len(s) + 1
      <4>1. k \in DOMAIN s
        BY <1>2, <3>3
      <4>2. s[j].iteration < s[k].iteration
        BY <2>2, <3>1, <4>1 DEF LogInv, Increasing, s
      <4> QED
        BY <1>2, <3>1, <4>1, <4>2
    <3> QED
      BY <3>2, <3>3
  <2> QED
    BY <1>1, <1>2, <2>1, <2>2 DEF Increasing
<1>5. StateLogged'
  <2>1. \A k \in DOMAIN s : EventOf(s[k]) \in log
    BY DEF LogInv, StateLogged, Judges, s
  <2>2. Unlogged' /\ p = [iteration |-> state'.iterations, accepted |-> pc' # "reject"] /\ log' = log
    BY <1>1 DEF Judges, p
  <2>3. ASSUME NEW k \in DOMAIN Append(s, p)
        PROVE  EventOf(Append(s, p)[k]) \in log \/ (k = Len(Append(s, p)) /\ Append(s, p)[k] = p)
    <3>1. CASE k \in DOMAIN s
      BY <1>2, <2>1, <3>1
    <3>2. CASE k \notin DOMAIN s
      BY <1>2, <3>2
    <3> QED
      BY <3>1, <3>2
  <2> QED
    BY <1>1, <2>2, <2>3 DEF StateLogged
<1> QED
  BY <1>1, <1>4, <1>5 DEF LogInv, Judges

\* A step that logs the fate of the last proposal.
Tells ==
  /\ UNCHANGED <<file, state>>
  /\ log \subseteq log' /\ \A e \in log' \ log : e.iteration = state.iterations
  /\ [kind |-> IF pc # "reject" THEN "accepted" ELSE "rejected", iteration |-> state.iterations] \in log'
  /\ pc # "down" /\ pc' = "save"

\* Then every proposal has its event.
LEMMA TellsKeeps == LogInv /\ Tells => LogInv'
<1> SUFFICES ASSUME LogInv, Tells PROVE LogInv'
  OBVIOUS
<1>1. \A k \in DOMAIN file'.proposals : EventOf(file'.proposals[k]) \in log'
  BY DEF LogInv, Tells
<1>2. StateLogged'
  <2>1. ASSUME NEW k \in DOMAIN state.proposals
        PROVE  EventOf(state.proposals[k]) \in log'
    <3>1. CASE EventOf(state.proposals[k]) \in log
      BY <3>1 DEF Tells
    <3>2. CASE state.proposals[k] = [iteration |-> state.iterations, accepted |-> pc # "reject"]
      <4>1. EventOf(state.proposals[k])
              = [kind |-> IF pc # "reject" THEN "accepted" ELSE "rejected", iteration |-> state.iterations]
        <5>1. CASE pc = "reject"
          <6>1. state.proposals[k] = [iteration |-> state.iterations, accepted |-> FALSE]
            BY <3>2, <5>1
          <6>2. ~state.proposals[k].accepted /\ state.proposals[k].iteration = state.iterations
            BY <6>1
          <6> QED
            BY <5>1, <6>2 DEF EventOf
        <5>2. CASE pc # "reject"
          <6>1. state.proposals[k] = [iteration |-> state.iterations, accepted |-> TRUE]
            BY <3>2, <5>2
          <6>2. state.proposals[k].accepted /\ state.proposals[k].iteration = state.iterations
            BY <6>1
          <6> QED
            BY <5>2, <6>2 DEF EventOf
        <5> QED
          BY <5>1, <5>2
      <4> QED
        BY <4>1 DEF Tells
    <3> QED
      BY <3>1, <3>2 DEF LogInv, StateLogged
  <2> QED
    BY <2>1 DEF StateLogged, Tells
<1>3. \A e \in log' : e.iteration <= file'.iterations + 1
  BY DEF LogInv, Tells
<1>4. /\ pc' # "down" => state'.iterations <= file'.iterations + 1
      /\ ~Settled' /\ pc' = "save"
  BY DEF LogInv, Tells, Settled
<1>5. Increasing(state') /\ Increasing(file')
  BY DEF LogInv, Tells
<1> QED
  BY <1>1, <1>2, <1>3, <1>4, <1>5 DEF LogInv

\* The log is never behind the file and at most one iteration ahead of it.
LEMMA LogStep == TypeInv /\ TypeInv' /\ PlacedInv /\ SavedInv /\ LogInv /\ [Next]_vars => LogInv'
<1> SUFFICES ASSUME TypeInv, TypeInv', PlacedInv, SavedInv, LogInv, [Next]_vars PROVE LogInv'
  OBVIOUS
<1>0. TRUE \in BOOLEAN /\ FALSE \in BOOLEAN
  OBVIOUS
<1> USE DEF memory, disk
<1>1. CASE Start
  <2>1. CASE /\ file = NoFile /\ state' = NewState /\ pc' = "seed"
             /\ log' = log \union {[kind |-> "started", iteration |-> 0]} /\ file' = file
    <3>1. /\ state'.proposals = <<>> /\ state'.iterations = 0
          /\ file.proposals = <<>> /\ file.iterations = 0
      BY <2>1, EmptyStates
    <3>2. StateLogged' /\ Increasing(state') /\ Increasing(file')
      BY <2>1, <3>1 DEF StateLogged, Increasing
    <3>3. \A e \in log' : e.iteration <= file'.iterations + 1
      BY <2>1, <3>1 DEF LogInv
    <3> QED
      BY <2>1, <3>1, <3>2, <3>3 DEF LogInv
  <2>2. CASE state' = file /\ pc' = "loop" /\ UNCHANGED <<file, log>>
    <3>1. StateLogged' /\ Increasing(state') /\ Increasing(file')
      BY <2>2 DEF LogInv, StateLogged
    <3>2. state'.iterations <= file'.iterations + 1
      BY <2>2, LogTypes
    <3> QED
      BY <2>2, <3>1, <3>2 DEF LogInv
  <2> QED
    BY <1>1, <2>1, <2>2 DEF Start
<1>2. CASE EvaluateSeed
  <2>1. state'.proposals = state.proposals /\ state'.iterations = state.iterations
    BY <1>2, SeedEffect
  <2>2. Quiet
    BY <1>2, <2>1 DEF EvaluateSeed, Quiet, Unlogged, Settled
  <2> QED
    BY <2>2, QuietKeeps
<1>3. CASE VisitWinner
  <2>1. Quiet
    BY <1>3 DEF VisitWinner, Quiet, Unlogged, Settled
  <2> QED
    BY <2>1, QuietKeeps
<1>4. CASE FrontierFound
  <2>1. state'.proposals = state.proposals /\ state'.iterations = state.iterations
    BY <1>4, FoundEffect
  <2>2. Quiet
    BY <1>4, <2>1 DEF FrontierFound, Quiet, Unlogged, Settled
  <2> QED
    BY <2>2, QuietKeeps
<1>5. CASE Begin
  <2>1. CASE Remaining > 0
    <3>1. /\ state'.proposals = state.proposals /\ state'.iterations = state.iterations + 1
          /\ pc' = "before" /\ pc = "loop" /\ file' = file
          /\ \E k \in Kinds : log' = log \union {[kind |-> k, iteration |-> state.iterations + 1]}
      BY <1>5, <2>1, BeginEffect DEF Begin
    <3>2. state.iterations = file.iterations
      BY <3>1 DEF LogInv, Settled
    <3>3. StateLogged'
      BY <3>1 DEF LogInv, StateLogged, Unlogged
    <3>4. \A e \in log' : e.iteration <= file'.iterations + 1
      BY <3>1, <3>2, LogTypes DEF LogInv
    <3>5. /\ \A k \in DOMAIN state.proposals :
               state.proposals[k].iteration < state.iterations + 1
      BY LogTypes DEF LogInv, Increasing
    <3>6. Increasing(state') /\ Increasing(file') /\ Unjudged'
      <4>1. \A k \in DOMAIN state.proposals : state.proposals[k].iteration <= state.iterations + 1
        BY <3>5, LogTypes
      <4> QED
        BY <3>1, <3>5, <4>1 DEF LogInv, Increasing, Unjudged
    <3>7. state'.iterations <= file'.iterations + 1 /\ ~Settled'
      BY <3>1, <3>2, LogTypes DEF Settled
    <3>8. \A k \in DOMAIN file'.proposals : EventOf(file'.proposals[k]) \in log'
      BY <3>1 DEF LogInv
    <3> QED
      BY <3>3, <3>4, <3>6, <3>7, <3>8 DEF LogInv
  <2>2. CASE ~(Remaining > 0)
    <3>1. Quiet
      BY <1>5, <2>2, EvaluationsFit DEF Begin, Quiet, Unlogged, Settled
    <3> QED
      BY <3>1, QuietKeeps
  <2> QED
    BY <2>1, <2>2
<1>6. CASE EvaluateBefore
  <2>1. state'.proposals = state.proposals /\ state'.iterations = state.iterations
    BY <1>6, BeforeEffect
  <2>2. Quiet
    BY <1>6, <2>1 DEF EvaluateBefore, Quiet, Unlogged, Settled, LogInv
  <2> QED
    BY <2>2, QuietKeeps
<1>7. CASE Propose
  <2>1. \A e \in log' \ log : e.iteration = state.iterations
    BY <1>7 DEF Propose, Event
  <2>2. Quiet
    BY <1>7, <2>1 DEF Propose, Quiet, Unlogged, Settled, LogInv
  <2> QED
    BY <2>2, QuietKeeps
<1>8. CASE EvaluateAfter
  <2>1. /\ state'.iterations = state.iterations
        /\ \/ /\ state'.proposals = Append(state.proposals,
                                           [iteration |-> state.iterations, accepted |-> FALSE])
              /\ pc' = "reject"
           \/ state'.proposals = state.proposals /\ pc' \in {"finish", "validate"}
    BY <1>8, AfterEffect
  <2>2. CASE /\ state'.proposals = Append(state.proposals,
                                          [iteration |-> state.iterations, accepted |-> FALSE])
             /\ pc' = "reject"
    <3>1. Judges(FALSE)
      BY <1>8, <2>1, <2>2 DEF EvaluateAfter, Judges, Unlogged, Settled, LogInv
    <3> QED
      BY <1>0, <3>1, JudgesKeeps
  <2>3. CASE state'.proposals = state.proposals /\ pc' \in {"finish", "validate"}
    <3>1. Quiet
      BY <1>8, <2>1, <2>3 DEF EvaluateAfter, Quiet, Unlogged, Settled, LogInv
    <3> QED
      BY <3>1, QuietKeeps
  <2> QED
    BY <2>1, <2>2, <2>3
<1>9. CASE Reject
  <2>1. Event("rejected") = [kind |-> "rejected", iteration |-> state.iterations]
    BY DEF Event
  <2>2. Tells
    BY <1>9, <2>1 DEF Reject, Tells
  <2> QED
    BY <2>2, TellsKeeps
<1>10. CASE Validate
  <2>1. Remaining > 0
    BY <1>10 DEF PlacedInv, Validate
  <2>2. state'.proposals = Proposal(state, TRUE) /\ state'.iterations = state.iterations
    BY <1>10, <2>1, ValidateEffect
  <2>3. Judges(TRUE)
    BY <1>10, <2>2 DEF Validate, Judges, Proposal, Unlogged, Settled, LogInv
  <2> QED
    BY <1>0, <2>3, JudgesKeeps
<1>11. CASE Accept
  <2>1. /\ Event("accepted") = [kind |-> "accepted", iteration |-> state.iterations]
        /\ Event("frontier") = [kind |-> "frontier", iteration |-> state.iterations]
    BY DEF Event
  <2>2. Tells
    BY <1>11, <2>1 DEF Accept, Tells
  <2> QED
    BY <2>2, TellsKeeps
<1>12. CASE Merge
  <2>1. /\ state'.proposals = state.proposals /\ state'.iterations = state.iterations
        /\ pc' = "loop" \/ (pc' = "frontier" /\ next' = "loop")
    BY <1>12, MergeEffect
  <2>2. Quiet
    BY <1>12, <2>1 DEF Merge, Quiet, Unlogged, Settled
  <2> QED
    BY <2>2, QuietKeeps
<1>13. CASE Finish
  <2>1. \A e \in log' \ log : e.iteration = state.iterations
    BY <1>13 DEF Finish, Event
  <2>2. Quiet
    BY <1>13, <2>1 DEF Finish, Quiet, Unlogged, Settled
  <2> QED
    BY <2>2, QuietKeeps
<1>14. CASE WriteTmp
  <2>1. Quiet
    BY <1>14 DEF WriteTmp, Quiet, Unlogged, Settled
  <2> QED
    BY <2>1, QuietKeeps
<1>15. CASE Rename
  <2>1. /\ file' = state /\ state' = state /\ log' = log /\ pc = "rename"
        /\ pc' \in {"loop", "merge", "done"}
    BY <1>15 DEF Rename, PlacedInv
  <2>2. \A k \in DOMAIN state.proposals : EventOf(state.proposals[k]) \in log
    BY <2>1 DEF LogInv, StateLogged, Unlogged
  <2>3. StateLogged'
    BY <2>1, <2>2 DEF StateLogged
  <2>4. \A e \in log' : e.iteration <= file'.iterations + 1
    <3>1. file.iterations <= state.iterations
      BY <2>1, LogTypes DEF SavedInv, GoesOn
    <3> QED
      BY <2>1, <3>1, LogTypes DEF LogInv
  <2>5. state'.iterations <= file'.iterations + 1
    BY <2>1, LogTypes
  <2> QED
    BY <2>1, <2>2, <2>3, <2>4, <2>5 DEF LogInv
<1>16. CASE Stop
  <2>1. state'.proposals = <<>> /\ state'.iterations = 0 /\ pc' = "down" /\ UNCHANGED <<file, log>>
    BY <1>16, EmptyStates DEF Stop
  <2>2. StateLogged' /\ Increasing(state') /\ Increasing(file')
    BY <2>1 DEF StateLogged, Increasing, LogInv
  <2> QED
    BY <2>1, <2>2 DEF LogInv, Settled
<1>17. CASE UNCHANGED vars
  BY <1>17 DEF LogInv, vars, Unlogged, Settled, StateLogged, Unjudged
<1> QED
  BY <1>1, <1>2, <1>3, <1>4, <1>5, <1>6, <1>7, <1>8, <1>9, <1>10, <1>11, <1>12, <1>13, <1>14,
     <1>15, <1>16, <1>17 DEF Next, RunStep

-----------------------------------------------------------------------------
(* Waste: what a stop may cost. *)

\* The evaluations of one iteration and one merge.
Round == 2 * (MinibatchSize + V)

\* What a number of stops may waste.
Wasted(n) == n * 2 * (MinibatchSize + V)

\* Every stop may waste one round more.
LEMMA WastedIs ==
  /\ Round \in Nat
  /\ \A n \in Nat : Wasted(n) \in Int /\ Wasted(n + 1) = Wasted(n) + Round
  /\ \A n \in Nat : Wasted(n) = Wasted(n - 1) + Round /\ Wasted(n - 1) \in Int
  /\ Wasted(0) = 0
<1> DEFINE K == MinibatchSize + V
<1>1. K \in Nat
  BY ValsetSize
<1> HIDE DEF K
<1>2. ASSUME NEW n \in Int PROVE n * 2 * K \in Int /\ (n + 1) * 2 * K = n * 2 * K + 2 * K
  BY <1>1, SMT
<1>3. \A n \in Int : Wasted(n) = n * 2 * K
  BY DEF Wasted, K
<1>4. Round = 2 * K /\ Round \in Nat
  BY <1>1 DEF Round, K
<1>5. ASSUME NEW n \in Nat PROVE Wasted(n) \in Int /\ Wasted(n + 1) = Wasted(n) + Round
  BY <1>2, <1>3, <1>4
<1>6. ASSUME NEW n \in Nat PROVE Wasted(n) = Wasted(n - 1) + Round /\ Wasted(n - 1) \in Int
  <2>1. n - 1 \in Int /\ n = (n - 1) + 1
    OBVIOUS
  <2>2. (n - 1) * 2 * K \in Int /\ ((n - 1) + 1) * 2 * K = (n - 1) * 2 * K + 2 * K
    BY <1>2, <2>1
  <2> QED
    BY <1>3, <1>4, <2>1, <2>2
<1>7. Wasted(0) = 0
  <2>1. 0 * 2 * K = 0
    BY <1>1, SMT
  <2> QED
    BY <1>3, <2>1
<1> QED
  BY <1>4, <1>5, <1>6, <1>7

\* The calls the state counts and the file does not.
Ahead == state.calls - file.calls

\* Saving comes at least once in every iteration and merge.
AheadInv ==
  /\ pc \in {"seed", "merge", "done"} => Ahead <= 0
  /\ pc \in {"loop", "before"} \/ (pc = "frontier" /\ next = "loop") => Ahead <= V
  /\ pc \in {"propose", "after"} => Ahead <= V + MinibatchSize
  /\ pc \in {"reject", "validate", "finish"} => Ahead <= V + MinibatchSize + MinibatchSize
  /\ pc # "down" => Ahead <= Round

\* The calls are natural numbers, as far apart as they are.
LEMMA AheadIs ==
  ASSUME TypeInv
  PROVE  /\ Ahead \in Int /\ state.calls \in Nat /\ file.calls \in Nat
         /\ Ahead = state.calls - file.calls /\ spent \in Nat /\ starts \in Nat
         /\ Round \in Nat /\ Round = MinibatchSize + V + MinibatchSize + V
         /\ V \in Nat /\ MinibatchSize \in Nat
  BY ValsetSize, SMTT(20) DEF TypeInv, StateType, Ahead, Round

\* Nothing is counted ahead that a round does not cover.
LEMMA AheadStep == TypeInv /\ TypeInv' /\ PlacedInv /\ AheadInv /\ [Next]_vars => AheadInv'
<1> SUFFICES ASSUME TypeInv, TypeInv', PlacedInv, AheadInv, [Next]_vars PROVE AheadInv'
  OBVIOUS
<1>0. /\ Ahead \in Int /\ state.calls \in Nat /\ file.calls \in Nat /\ Ahead = state.calls - file.calls
      /\ Round \in Nat /\ Round = MinibatchSize + V + MinibatchSize + V
      /\ V \in Nat /\ MinibatchSize \in Nat
      /\ Ahead' = state'.calls - file'.calls
  BY AheadIs DEF Ahead
<1> USE DEF memory, disk
<1>1. CASE Start
  <2>1. Ahead' = 0
    BY <1>0, <1>1, EmptyStates DEF Start, Ahead
  <2> QED
    BY <1>0, <1>1, <2>1 DEF Start, AheadInv
<1>2. CASE EvaluateSeed
  <2>1. Ahead' = V
    <3>1. state'.calls = V
      BY <1>2, SeedEffect
    <3>2. file'.calls = 0
      BY <1>2, EmptyStates DEF EvaluateSeed, PlacedInv
    <3> QED
      BY <1>0, <3>1, <3>2
  <2> QED
    BY <1>0, <1>2, <2>1 DEF EvaluateSeed, AheadInv
<1>3. CASE VisitWinner
  BY <1>3 DEF VisitWinner, AheadInv, Ahead
<1>4. CASE FrontierFound
  <2>1. Ahead' = Ahead
    BY <1>4, FoundEffect DEF FrontierFound, Ahead
  <2> QED
    BY <1>0, <1>4, <2>1 DEF FrontierFound, AheadInv
<1>5. CASE Begin
  <2>1. Ahead' = Ahead /\ pc' \in {"before", "finish"} /\ pc = "loop"
    BY <1>5, BeginEffect, EvaluationsFit DEF Begin, Ahead
  <2> QED
    BY <1>0, <2>1 DEF AheadInv
<1>6. CASE EvaluateBefore
  <2>1. Ahead' = Ahead + BatchSize
    BY <1>0, <1>6, BeforeEffect, EvaluationsFit DEF EvaluateBefore
  <2> QED
    BY <1>0, <1>6, <2>1, EvaluationsFit DEF EvaluateBefore, AheadInv
<1>7. CASE Propose
  BY <1>0, <1>7 DEF Propose, AheadInv, Ahead
<1>8. CASE EvaluateAfter
  <2>1. state'.calls = state.calls + Smaller(batch, Remaining) /\ pc' \in {"reject", "finish", "validate"}
    BY <1>8, AfterEffect
  <2>2. Ahead' = Ahead + Smaller(batch, Remaining)
    BY <1>0, <1>8, <2>1, EvaluationsFit DEF EvaluateAfter
  <2> QED
    BY <1>0, <1>8, <2>1, <2>2, EvaluationsFit DEF EvaluateAfter, AheadInv
<1>9. CASE Reject
  BY <1>0, <1>9 DEF Reject, AheadInv, Ahead
<1>10. CASE Validate
  <2>1. state'.calls = state.calls + Smaller(V, Remaining)
    BY <1>10, ValidateEffect DEF PlacedInv, Validate
  <2>2. Ahead' = Ahead + Smaller(V, Remaining)
    BY <1>0, <1>10, <2>1, EvaluationsFit DEF Validate
  <2> QED
    BY <1>0, <1>10, <2>2, EvaluationsFit DEF Validate, AheadInv
<1>11. CASE Accept
  BY <1>0, <1>11 DEF Accept, AheadInv, Ahead
<1>12. CASE Merge
  <2>1. /\ state'.calls = state.calls \/ state'.calls = state.calls + Smaller(V, Remaining)
        /\ pc' = "loop" \/ (pc' = "frontier" /\ next' = "loop")
    BY <1>12, MergeEffect
  <2>2. Ahead' <= V
    <3>1. Ahead <= 0 /\ file' = file
      BY <1>12 DEF Merge, AheadInv
    <3> QED
      BY <1>0, <2>1, <3>1, EvaluationsFit
  <2> QED
    BY <1>0, <2>1, <2>2 DEF AheadInv
<1>13. CASE Finish
  BY <1>0, <1>13 DEF Finish, AheadInv, Ahead
<1>14. CASE WriteTmp
  BY <1>0, <1>14 DEF WriteTmp, AheadInv, Ahead
<1>15. CASE Rename
  <2>1. Ahead' = 0 /\ pc' # "down"
    BY <1>0, <1>15 DEF Rename, PlacedInv
  <2> QED
    BY <1>0, <2>1 DEF AheadInv
<1>16. CASE Stop
  BY <1>16 DEF Stop, AheadInv
<1>17. CASE UNCHANGED vars
  BY <1>17 DEF AheadInv, vars, Ahead
<1> QED
  BY <1>1, <1>2, <1>3, <1>4, <1>5, <1>6, <1>7, <1>8, <1>9, <1>10, <1>11, <1>12, <1>13, <1>14,
     <1>15, <1>16, <1>17 DEF Next, RunStep

\* A stop at any moment wastes at most a round.
LEMMA StopWastesARound ==
  ASSUME TypeInv, PlacedInv, AheadInv, pc # "down"
  PROVE  Ahead + EvaluationSize <= Round
<1>0. /\ Ahead \in Int /\ Round \in Nat /\ Round = MinibatchSize + V + MinibatchSize + V
      /\ V \in Nat /\ MinibatchSize \in Nat
  BY AheadIs
<1>1. CASE pc = "seed"
  <2>1. EvaluationSize = V
    BY <1>1 DEF EvaluationSize, V
  <2> QED
    BY <1>0, <1>1, <2>1 DEF AheadInv
<1>2. CASE pc = "before"
  <2>1. EvaluationSize = BatchSize
    BY <1>2 DEF EvaluationSize
  <2> QED
    BY <1>0, <1>2, <2>1, EvaluationsFit DEF AheadInv
<1>3. CASE pc = "after"
  <2>1. EvaluationSize = Smaller(batch, Remaining)
    BY <1>3 DEF EvaluationSize
  <2> QED
    BY <1>0, <1>3, <2>1, EvaluationsFit DEF AheadInv
<1>4. CASE pc = "validate"
  <2>1. EvaluationSize = Smaller(V, Remaining)
    BY <1>4 DEF EvaluationSize, V
  <2> QED
    BY <1>0, <1>4, <2>1, EvaluationsFit DEF AheadInv
<1>5. CASE pc = "merge"
  <2>1. EvaluationSize = Smaller(V, Remaining) \/ EvaluationSize = 0
    BY <1>5 DEF EvaluationSize, V
  <2> QED
    BY <1>0, <1>5, <2>1, EvaluationsFit DEF AheadInv
<1>6. CASE pc \notin {"seed", "before", "after", "validate", "merge"}
  <2>1. EvaluationSize = 0
    BY <1>6 DEF EvaluationSize
  <2> QED
    BY <1>0, <2>1 DEF AheadInv
<1> QED
  BY <1>1, <1>2, <1>3, <1>4, <1>5, <1>6

\* The calls made and not counted are those of the stops so far.
WasteInv ==
  /\ pc # "down" => spent >= state.calls /\ spent - state.calls <= Wasted(starts - 1)
  /\ pc = "down" => spent >= file.calls /\ spent - file.calls <= Wasted(starts)

\* A step spends what it counts, and a stop at most a round more.
LEMMA WasteStep ==
  TypeInv /\ TypeInv' /\ PlacedInv /\ SavedInv /\ AheadInv /\ WasteInv /\ [Next]_vars => WasteInv'
<1> SUFFICES ASSUME TypeInv, TypeInv', PlacedInv, SavedInv, AheadInv, WasteInv, [Next]_vars
             PROVE  WasteInv'
  OBVIOUS
<1>0. /\ state.calls \in Nat /\ file.calls \in Nat /\ spent \in Nat /\ starts \in Nat
      /\ Ahead = state.calls - file.calls /\ Round \in Nat
      /\ Wasted(starts) \in Int /\ Wasted(starts - 1) \in Int
      /\ Wasted(starts) = Wasted(starts - 1) + Round
      /\ Wasted(starts + 1) = Wasted(starts) + Round
  BY AheadIs, WastedIs
<1> USE DEF memory, disk
<1>1. CASE Start
  <2>1. /\ state'.calls = file.calls /\ pc' # "down" /\ starts' = starts + 1 /\ spent' = spent
        /\ pc \in {"down", "done"} /\ file' = file
    BY <1>1, EmptyStates DEF Start
  <2>2. CASE pc = "down"
    <3>1. Wasted(starts' - 1) = Wasted(starts)
      <4>1. starts' - 1 = starts
        BY <1>0, <2>1
      <4> QED
        BY <4>1 DEF Wasted
    <3> QED
      BY <1>0, <2>1, <2>2, <3>1 DEF WasteInv
  <2>3. CASE pc = "done"
    <3>1. state.calls = file.calls
      BY <2>3 DEF PlacedInv
    <3>2. Wasted(starts' - 1) = Wasted(starts)
      <4>1. starts' - 1 = starts
        BY <1>0, <2>1
      <4> QED
        BY <4>1 DEF Wasted
    <3> QED
      BY <1>0, <2>1, <2>3, <3>1, <3>2 DEF WasteInv
  <2> QED
    BY <2>1, <2>2, <2>3
<1>2. CASE EvaluateSeed
  <2>1. state.calls = 0
    BY <1>2, EmptyStates DEF EvaluateSeed, PlacedInv
  <2>2. /\ state'.calls = V /\ spent' = spent + V /\ pc' # "down" /\ starts' = starts /\ V \in Nat
        /\ pc # "down"
    BY <1>2, SeedEffect, ValsetSize DEF EvaluateSeed, V
  <2> QED
    BY <1>0, <2>1, <2>2 DEF WasteInv
<1>3. CASE /\ state'.calls = state.calls /\ spent' = spent /\ starts' = starts
           /\ pc # "down" /\ pc' # "down"
  BY <1>3 DEF WasteInv
<1>4. CASE \E n \in Nat : /\ state'.calls = state.calls + n /\ spent' = spent + n /\ starts' = starts
                          /\ pc # "down" /\ pc' # "down"
  BY <1>0, <1>4 DEF WasteInv
<1>5. CASE Stop
  <2>1. /\ spent' \in {spent, spent + EvaluationSize} /\ pc' = "down" /\ pc # "down"
        /\ starts' = starts /\ file' = file
    BY <1>5 DEF Stop, Running
  <2>2. EvaluationSize \in Nat /\ Ahead + EvaluationSize <= Round
    BY <2>1, StopWastesARound, EvaluationSizeIs
  <2>3. state.calls >= file.calls
    BY <2>1 DEF SavedInv, GoesOn
  <2>4. spent' \in Nat /\ spent' >= file.calls /\ spent' - file.calls <= Wasted(starts)
    BY <1>0, <2>1, <2>2, <2>3 DEF WasteInv
  <2> QED
    BY <2>1, <2>4 DEF WasteInv
<1>6. CASE UNCHANGED vars
  BY <1>6 DEF WasteInv, vars
<1>7. VisitWinner \/ Propose \/ Reject \/ Accept \/ Finish \/ WriteTmp
        => /\ state'.calls = state.calls /\ spent' = spent /\ starts' = starts
           /\ pc # "down" /\ pc' # "down"
  BY DEF VisitWinner, Propose, Reject, Accept, Finish, WriteTmp
<1>8. Rename => /\ state'.calls = state.calls /\ spent' = spent /\ starts' = starts
                /\ pc # "down" /\ pc' # "down"
  BY DEF Rename, PlacedInv
<1>9. FrontierFound => /\ state'.calls = state.calls /\ spent' = spent /\ starts' = starts
                       /\ pc # "down" /\ pc' # "down"
  BY FoundEffect DEF FrontierFound
<1>10. Begin => /\ state'.calls = state.calls /\ spent' = spent /\ starts' = starts
                /\ pc # "down" /\ pc' # "down"
  BY BeginEffect, EvaluationsFit DEF Begin
<1>11. EvaluateBefore => \E n \in Nat : /\ state'.calls = state.calls + n /\ spent' = spent + n
                                        /\ starts' = starts /\ pc # "down" /\ pc' # "down"
  BY BeforeEffect, EvaluationsFit DEF EvaluateBefore
<1>12. EvaluateAfter => \E n \in Nat : /\ state'.calls = state.calls + n /\ spent' = spent + n
                                       /\ starts' = starts /\ pc # "down" /\ pc' # "down"
  <2>1. SUFFICES ASSUME EvaluateAfter
                 PROVE  \E n \in Nat : /\ state'.calls = state.calls + n /\ spent' = spent + n
                                       /\ starts' = starts /\ pc # "down" /\ pc' # "down"
    OBVIOUS
  <2>2. /\ state'.calls = state.calls + Smaller(batch, Remaining)
        /\ spent' = spent + Smaller(batch, Remaining) /\ pc' \in {"reject", "finish", "validate"}
    BY <2>1, AfterEffect
  <2>3. starts' = starts /\ pc # "down"
    BY <2>1 DEF EvaluateAfter
  <2> QED
    BY <2>2, <2>3, EvaluationsFit
<1>13. Validate => \E n \in Nat : /\ state'.calls = state.calls + n /\ spent' = spent + n
                                  /\ starts' = starts /\ pc # "down" /\ pc' # "down"
  <2>1. SUFFICES ASSUME Validate
                 PROVE  \E n \in Nat : /\ state'.calls = state.calls + n /\ spent' = spent + n
                                       /\ starts' = starts /\ pc # "down" /\ pc' # "down"
    OBVIOUS
  <2>2. /\ state'.calls = state.calls + Smaller(V, Remaining)
        /\ spent' = spent + Smaller(V, Remaining)
    BY <2>1, ValidateEffect DEF PlacedInv, Validate
  <2>3. starts' = starts /\ pc # "down" /\ pc' # "down"
    BY <2>1 DEF Validate
  <2> QED
    BY <2>2, <2>3, EvaluationsFit
<1>14. Merge => \E n \in Nat : /\ state'.calls = state.calls + n /\ spent' = spent + n
                               /\ starts' = starts /\ pc # "down" /\ pc' # "down"
  <2>1. SUFFICES ASSUME Merge
                 PROVE  \E n \in Nat : /\ state'.calls = state.calls + n /\ spent' = spent + n
                                       /\ starts' = starts /\ pc # "down" /\ pc' # "down"
    OBVIOUS
  <2>2. starts' = starts /\ pc # "down"
    BY <2>1 DEF Merge
  <2>3. /\ \/ state'.calls = state.calls /\ spent' = spent
           \/ /\ state'.calls = state.calls + Smaller(V, Remaining)
              /\ spent' = spent + Smaller(V, Remaining)
        /\ pc' # "down"
    BY <2>1, MergeEffect
  <2>4. CASE state'.calls = state.calls /\ spent' = spent
    <3>1. state'.calls = state.calls + 0 /\ spent' = spent + 0
      BY <1>0, <2>4
    <3> QED
      BY <2>2, <2>3, <3>1
  <2> QED
    BY <2>2, <2>3, <2>4, EvaluationsFit
<1> QED
  BY <1>1, <1>2, <1>3, <1>4, <1>5, <1>6, <1>7, <1>8, <1>9, <1>10, <1>11, <1>12, <1>13,
     <1>14 DEF Next, RunStep

-----------------------------------------------------------------------------
(* The best candidate and the frontier. *)

\* The best candidate is the first of those with the highest average.
BestFirst(s) ==
  \A i \in DOMAIN s.candidates :
    /\ ~Above(s.candidates[i], Best(s))
    /\ i < s.best => Above(Best(s), s.candidates[i])

BestInv == BestFirst(state) /\ BestFirst(file)

\* A state with the same candidates and best has it too.
LEMMA BestAlike ==
  ASSUME NEW s, NEW t, s.candidates = t.candidates, s.best = t.best, BestFirst(s)
  PROVE  BestFirst(t)
  BY DEF BestFirst, Best

\* One candidate is the best.
LEMMA OnlyIsBest ==
  ASSUME NEW s, NEW scores \in Candidate, s.candidates = <<scores>>, s.best = 1
  PROVE  BestFirst(s)
<1>1. DOMAIN s.candidates = {1} /\ s.candidates[1] = scores
  OBVIOUS
<1>2. ~Above(scores, scores)
  BY CandidatesAreSized, AboveIrreflexive
<1> QED
  BY <1>1, <1>2 DEF BestFirst, Best

\* A candidate that joins becomes the best when it is above the best one.
LEMMA AdoptKeepsBest ==
  ASSUME NEW s \in StateType, Whole(s), BestFirst(s), NEW scores \in Candidate, NEW t,
         t.candidates = Append(s.candidates, scores), t.best = Adopt(s, scores).best
  PROVE  BestFirst(t)
<1> DEFINE cs == s.candidates
           b == s.candidates[s.best]
<1>1. cs \in Seq(Candidate) /\ s.best \in DOMAIN cs
  BY DEF StateType, Whole
<1>2. /\ Len(cs) \in Nat /\ DOMAIN cs = 1..Len(cs) /\ s.best \in Nat
      /\ DOMAIN t.candidates = 1..(Len(cs) + 1) /\ t.candidates[Len(cs) + 1] = scores
      /\ \A i \in DOMAIN cs : t.candidates[i] = cs[i] /\ Sized(cs[i])
      /\ t.candidates[s.best] = b /\ Sized(b) /\ Sized(scores)
  <2>1. \A i \in DOMAIN cs : Sized(cs[i])
    BY <1>1, CandidatesAreSized
  <2>2. Sized(scores)
    BY CandidatesAreSized
  <2>3. /\ Len(cs) \in Nat /\ DOMAIN cs = 1..Len(cs) /\ s.best \in Nat
        /\ DOMAIN t.candidates = 1..(Len(cs) + 1) /\ t.candidates[Len(cs) + 1] = scores
        /\ \A i \in DOMAIN cs : t.candidates[i] = cs[i]
    BY <1>1
  <2> QED
    BY <1>1, <2>1, <2>2, <2>3
<1>3. t.best = IF Above(scores, b) THEN Len(cs) + 1 ELSE s.best
  <2>1. t.best = IF Above(scores, Append(cs, scores)[s.best]) THEN Len(cs) + 1 ELSE s.best
    BY AdoptIs
  <2>2. Append(cs, scores)[s.best] = b
    BY <1>2
  <2> QED
    BY <2>1, <2>2
<1>4. \A i \in DOMAIN cs : ~Above(cs[i], b) /\ (i < s.best => Above(b, cs[i]))
  BY DEF BestFirst, Best
<1> HIDE DEF cs, b
<1>5. CASE Above(scores, b)
  <2>1. t.best = Len(cs) + 1 /\ Best(t) = scores
    BY <1>2, <1>3, <1>5 DEF Best
  <2>2. ASSUME NEW i \in DOMAIN cs
        PROVE  Above(scores, cs[i]) /\ ~Above(cs[i], scores)
    <3>1. Sized(cs[i]) /\ ~Above(cs[i], b)
      BY <1>2, <1>4
    <3>2. Above(scores, cs[i])
      BY <1>2, <1>5, <3>1, AboveThrough
    <3> QED
      BY <1>2, <3>1, <3>2, AboveAsymmetric
  <2>3. ~Above(scores, scores)
    BY <1>2, AboveIrreflexive
  <2> QED
    BY <1>2, <2>1, <2>2, <2>3 DEF BestFirst
<1>6. CASE ~Above(scores, b)
  <2>1. t.best = s.best /\ Best(t) = b
    BY <1>2, <1>3, <1>6 DEF Best
  <2>2. s.best \in DOMAIN cs
    BY <1>1 DEF cs
  <2> QED
    BY <1>2, <1>4, <1>6, <2>1, <2>2 DEF BestFirst
<1> QED
  BY <1>5, <1>6

\* The best stays the best.
LEMMA BestStep == TypeInv /\ PlacedInv /\ BestInv /\ [Next]_vars => BestInv'
<1> SUFFICES ASSUME TypeInv, PlacedInv, BestInv, [Next]_vars PROVE BestInv'
  OBVIOUS
<1>0. state \in StateType /\ BestFirst(state) /\ BestFirst(file)
  BY DEF TypeInv, BestInv
<1> USE DEF memory, disk
<1>1. CASE UNCHANGED file /\ state'.candidates = state.candidates /\ state'.best = state.best
  BY <1>0, <1>1, BestAlike DEF BestInv
<1>2. CASE UNCHANGED file /\ state' = NewState
  BY <1>0, <1>2, EmptyStates DEF BestInv, BestFirst
<1>3. CASE UNCHANGED file /\ state' = file
  BY <1>0, <1>3 DEF BestInv
<1>4. CASE EvaluateSeed
  <2>1. BestFirst(state')
    BY <1>4, SeedEffect, OnlyIsBest
  <2> QED
    BY <1>0, <1>4, <2>1 DEF BestInv, EvaluateSeed
<1>5. CASE /\ UNCHANGED file /\ Whole(state)
           /\ \E scores \in Candidate : /\ state'.candidates = Append(state.candidates, scores)
                                        /\ state'.best = Adopt(state, scores).best
  <2>1. BestFirst(state')
    BY <1>0, <1>5, AdoptKeepsBest
  <2> QED
    BY <1>0, <1>5, <2>1 DEF BestInv
<1>6. CASE Rename
  BY <1>0, <1>6 DEF Rename, PlacedInv, BestInv
<1>7. Start \/ Stop => UNCHANGED file /\ (state' = NewState \/ state' = file)
  BY DEF Start, Stop
<1>8. VisitWinner \/ Propose \/ Reject \/ Accept \/ Finish \/ WriteTmp => UNCHANGED <<file, state>>
  BY DEF VisitWinner, Propose, Reject, Accept, Finish, WriteTmp
<1>9. FrontierFound => UNCHANGED file /\ state'.candidates = state.candidates /\ state'.best = state.best
  BY FoundEffect DEF FrontierFound
<1>10. Begin => UNCHANGED file /\ state'.candidates = state.candidates /\ state'.best = state.best
  BY BeginEffect, EvaluationsFit DEF Begin
<1>11. EvaluateBefore =>
         UNCHANGED file /\ state'.candidates = state.candidates /\ state'.best = state.best
  BY BeforeEffect DEF EvaluateBefore
<1>12. EvaluateAfter =>
         UNCHANGED file /\ state'.candidates = state.candidates /\ state'.best = state.best
  BY AfterEffect DEF EvaluateAfter
<1>13. Validate => /\ UNCHANGED file /\ Whole(state)
                   /\ \E scores \in Candidate :
                        /\ state'.candidates = Append(state.candidates, scores)
                        /\ state'.best = Adopt(state, scores).best
  <2>1. SUFFICES ASSUME Validate
                 PROVE  /\ UNCHANGED file /\ Whole(state)
                        /\ \E scores \in Candidate :
                             /\ state'.candidates = Append(state.candidates, scores)
                             /\ state'.best = Adopt(state, scores).best
    OBVIOUS
  <2>2. UNCHANGED file /\ Whole(state) /\ Remaining > 0
    BY <2>1 DEF Validate, PlacedInv
  <2> QED
    BY <2>1, <2>2, ValidateEffect
<1>14. Merge => /\ UNCHANGED file /\ Whole(state)
                /\ \/ state'.candidates = state.candidates /\ state'.best = state.best
                   \/ \E scores \in Candidate :
                        /\ state'.candidates = Append(state.candidates, scores)
                        /\ state'.best = Adopt(state, scores).best
  <2>1. SUFFICES ASSUME Merge
                 PROVE  /\ UNCHANGED file /\ Whole(state)
                        /\ \/ state'.candidates = state.candidates /\ state'.best = state.best
                           \/ \E scores \in Candidate :
                                /\ state'.candidates = Append(state.candidates, scores)
                                /\ state'.best = Adopt(state, scores).best
    OBVIOUS
  <2>2. UNCHANGED file /\ Whole(state)
    BY <2>1 DEF Merge, PlacedInv
  <2> QED
    BY <2>1, <2>2, MergeEffect
<1>15. UNCHANGED vars => UNCHANGED <<file, state>>
  BY DEF vars
<1> QED
  BY <1>1, <1>2, <1>3, <1>4, <1>5, <1>6, <1>7, <1>8, <1>9, <1>10, <1>11, <1>12, <1>13, <1>14,
     <1>15 DEF Next, RunStep

\* The frontier is that of all the candidates, in memory and in the file.
FrontInv ==
  /\ pc \notin {"down", "seed", "frontier"} => state.frontier = Frontier(state.candidates)
  /\ file # NoFile => file.frontier = Frontier(file.candidates)

\* It is computed anew whenever a candidate joins.
LEMMA FrontStep == TypeInv /\ PlacedInv /\ FrontInv /\ [Next]_vars => FrontInv'
<1> SUFFICES ASSUME TypeInv, PlacedInv, FrontInv, [Next]_vars PROVE FrontInv'
  OBVIOUS
<1> USE DEF memory, disk
<1>1. CASE Start
  BY <1>1 DEF Start, FrontInv
<1>2. CASE FrontierFound
  <2>1. /\ state'.frontier = Frontier(state.candidates) /\ state'.candidates = state.candidates
    BY <1>2, FoundEffect DEF FrontierFound, PlacedInv
  <2> QED
    BY <1>2, <2>1 DEF FrontierFound, FrontInv
<1>3. CASE UNCHANGED file /\ pc' \in {"down", "seed", "frontier"}
  BY <1>3 DEF FrontInv
<1>4. CASE /\ UNCHANGED file /\ pc \notin {"down", "seed", "frontier"}
           /\ state'.candidates = state.candidates /\ state'.frontier = state.frontier
  BY <1>4 DEF FrontInv
<1>5. CASE Rename
  BY <1>5 DEF Rename, PlacedInv, FrontInv
<1>6. CASE UNCHANGED vars
  BY <1>6 DEF FrontInv, vars
<1>7. EvaluateSeed \/ VisitWinner \/ Validate \/ Stop
        => UNCHANGED file /\ pc' \in {"down", "seed", "frontier"}
  BY DEF EvaluateSeed, VisitWinner, Validate, Stop
<1>8. Propose \/ Reject \/ Accept \/ Finish \/ WriteTmp
        => UNCHANGED <<file, state>> /\ pc \notin {"down", "seed", "frontier"}
  BY DEF Propose, Reject, Accept, Finish, WriteTmp
<1>9. Begin => /\ UNCHANGED file /\ pc \notin {"down", "seed", "frontier"}
               /\ state'.candidates = state.candidates /\ state'.frontier = state.frontier
  BY BeginEffect, EvaluationsFit DEF Begin
<1>10. EvaluateBefore => /\ UNCHANGED file /\ pc \notin {"down", "seed", "frontier"}
                         /\ state'.candidates = state.candidates /\ state'.frontier = state.frontier
  BY BeforeEffect DEF EvaluateBefore
<1>11. EvaluateAfter => /\ UNCHANGED file /\ pc \notin {"down", "seed", "frontier"}
                        /\ state'.candidates = state.candidates /\ state'.frontier = state.frontier
  BY AfterEffect DEF EvaluateAfter
<1>12. Merge => /\ UNCHANGED file
                /\ \/ pc' = "frontier"
                   \/ /\ pc \notin {"down", "seed", "frontier"}
                      /\ state'.candidates = state.candidates /\ state'.frontier = state.frontier
  BY MergeEffect DEF Merge
<1> QED
  BY <1>1, <1>2, <1>3, <1>4, <1>5, <1>6, <1>7, <1>8, <1>9, <1>10, <1>11, <1>12 DEF Next, RunStep

-----------------------------------------------------------------------------
(* The theorems. *)

OptimizerInv ==
  /\ TypeInv /\ PlacedInv /\ SavedInv /\ LogInv
  /\ AheadInv /\ WasteInv /\ BestInv /\ FrontInv

\* Before the first run nothing is there.
LEMMA OptimizerInit == Init => OptimizerInv
<1> SUFFICES ASSUME Init PROVE OptimizerInv
  OBVIOUS
<1>1. /\ pc = "down" /\ next = "down" /\ state = NewState /\ NoLoop /\ batch = 0
      /\ file = NoFile /\ tmp = NoFile /\ log = {} /\ starts = 0 /\ spent = 0
  BY DEF Init
<1>2. TypeInv
  <2>1. LoopInv /\ records \in Seq(Candidate)
    BY <1>1, NoLoopInv DEF NoLoop
  <2> QED
    BY <1>1, <2>1, EmptyStates, ValsetSize DEF TypeInv
<1>3. PlacedInv
  BY <1>1 DEF PlacedInv
<1>4. SavedInv /\ AheadInv
  BY <1>1 DEF SavedInv, AheadInv
<1>5. LogInv
  <2>1. StateLogged /\ Increasing(state) /\ Increasing(file)
    BY <1>1, EmptyStates DEF StateLogged, Increasing
  <2> QED
    BY <1>1, <2>1, EmptyStates DEF LogInv, Settled
<1>6. WasteInv
  BY <1>1, EmptyStates, WastedIs DEF WasteInv
<1>7. BestInv /\ FrontInv
  BY <1>1, EmptyStates DEF BestInv, BestFirst, FrontInv
<1> QED
  BY <1>2, <1>3, <1>4, <1>5, <1>6, <1>7 DEF OptimizerInv

\* Every step keeps the invariant.
LEMMA OptimizerStep == OptimizerInv /\ [Next]_vars => OptimizerInv'
<1> SUFFICES ASSUME OptimizerInv, [Next]_vars PROVE OptimizerInv'
  OBVIOUS
<1>1. /\ TypeInv /\ PlacedInv /\ SavedInv /\ LogInv
      /\ AheadInv /\ WasteInv /\ BestInv /\ FrontInv
  BY DEF OptimizerInv
<1>2. Roomy
  BY <1>1 DEF PlacedInv, Roomy
<1>3. TypeInv'
  BY <1>1, <1>2, TypesStep
<1>4. PlacedInv' /\ BestInv' /\ FrontInv'
  BY <1>1, PlacedStep, BestStep, FrontStep
<1>5. SavedInv' /\ LogInv' /\ AheadInv' /\ WasteInv'
  BY <1>1, <1>3, SavedStep, LogStep, AheadStep, WasteStep
<1> QED
  BY <1>3, <1>4, <1>5 DEF OptimizerInv

\* So it always holds.
THEOREM OptimizerInvariant == Spec => []OptimizerInv
  BY OptimizerInit, OptimizerStep, PTL DEF Spec

\* Every variable of an optimisation keeps its type.
THEOREM TypeCorrect == Spec => []TypeOK
<1>1. OptimizerInv => TypeOK
  BY TypeInvTypeOK DEF OptimizerInv
<1> QED
  BY <1>1, OptimizerInvariant, PTL

\* Whatever the sizes, the metric calls evaluators make and no state counts are at most two
\* minibatches and two validation sets for each stop, and none when nothing stops.
THEOREM WasteIsBounded == Spec => []WasteBounded
<1>1. ASSUME OptimizerInv PROVE WasteBounded
  <2>1. TypeInv /\ WasteInv
    BY <1>1 DEF OptimizerInv
  <2> DEFINE stops == IF pc = "down" THEN starts ELSE starts - 1
             counted == IF pc # "down" THEN state.calls ELSE IF file = NoFile THEN 0 ELSE file.calls
  <2>2. counted = IF pc # "down" THEN state.calls ELSE file.calls
    BY EmptyStates
  <2>3. state.calls \in 0..MaxMetricCalls /\ file.calls \in 0..MaxMetricCalls
    BY <2>1 DEF TypeInv, StateType
  <2>4. counted <= MaxMetricCalls
    BY <2>2, <2>3, ValsetSize
  <2>5. spent >= counted /\ spent - counted <= Wasted(stops)
    BY <2>1, <2>2 DEF WasteInv
  <2>6. Wasted(stops) = stops * 2 * (MinibatchSize + Cardinality(Valset))
    BY DEF Wasted, V
  <2> HIDE DEF stops, counted
  <2>7. /\ counted <= MaxMetricCalls /\ spent >= counted
        /\ spent - counted <= stops * 2 * (MinibatchSize + Cardinality(Valset))
    BY <2>4, <2>5, <2>6
  <2> QED
    BY <2>7 DEF WasteBounded, stops, counted
<1> QED
  BY <1>1, OptimizerInvariant, PTL

\* At whatever moment a run stops, the next one finds no file or a state it can resume, whose
\* proposals are all in the event log.
THEOREM StopsAreRecoverable == Spec => []StopsRecoverable
<1>1. ASSUME OptimizerInv PROVE StopsRecoverable
  <2>1. PlacedInv /\ LogInv
    BY <1>1 DEF OptimizerInv
  <2>2. file # NoFile => Resumable(file)
    BY <2>1 DEF PlacedInv
  <2>3. \A k \in DOMAIN file.proposals :
          [kind |-> IF file.proposals[k].accepted THEN "accepted" ELSE "rejected",
           iteration |-> file.proposals[k].iteration] \in log
    BY <2>1 DEF LogInv, EventOf
  <2>4. \A e \in log : e.iteration <= file.iterations + 1
    BY <2>1 DEF LogInv
  <2>5. \A j, k \in DOMAIN state.proposals :
          j < k => state.proposals[j].iteration < state.proposals[k].iteration
    BY <2>1 DEF LogInv, Increasing
  <2> QED
    BY <2>2, <2>3, <2>4, <2>5 DEF StopsRecoverable
<1> QED
  BY <1>1, OptimizerInvariant, PTL

\* Every loop over the winners of a run, whatever candidates it has, finds their frontier.
THEOREM RunsFindFrontier == Spec => []LoopFindsFrontier
<1>1. OptimizerInv => LoopFindsFrontier
  BY LoopInvFinds DEF OptimizerInv, TypeInv
<1> QED
  BY <1>1, OptimizerInvariant, PTL

\* Through acceptances, merges, stops and resumes the best candidate is the first of the highest
\* average, and the frontier that of all candidates.
THEOREM BestAndFrontierAlways == Spec => []BestAndFrontierCurrent
<1>1. ASSUME OptimizerInv PROVE BestAndFrontierCurrent
  <2>1. PlacedInv /\ BestInv /\ FrontInv
    BY <1>1 DEF OptimizerInv
  <2>2. state.candidates # <<>> => pc \notin {"down", "seed"}
    BY <2>1, EmptyStates DEF PlacedInv
  <2> QED
    BY <2>1, <2>2 DEF BestAndFrontierCurrent, BestInv, BestFirst, FrontInv
<1> QED
  BY <1>1, OptimizerInvariant, PTL

\* No step loses a saved candidate or counts back, and a saved state whose budget is spent is
\* never followed by another evaluation.
THEOREM SavedWorkAlwaysKept == Spec => SavedWorkKept
<1> DEFINE A == file # NoFile =>
                  /\ file'.calls >= file.calls /\ file'.iterations >= file.iterations
                  /\ \A i \in DOMAIN file.candidates :
                       i \in DOMAIN file'.candidates /\ file'.candidates[i] = file.candidates[i]
                  /\ file.calls >= MaxMetricCalls => spent' = spent
<1>1. ASSUME OptimizerInv, [Next]_vars PROVE [A]_vars
  <2>1. TypeInv /\ PlacedInv /\ SavedInv
    BY <1>1 DEF OptimizerInv
  <2>2. SUFFICES ASSUME Next, file # NoFile
                 PROVE  /\ GoesOn(file', file)
                        /\ file.calls >= MaxMetricCalls => spent' = spent
    BY <1>1 DEF GoesOn
  <2>3. GoesOn(file', file)
    <3>1. file' # file => Rename
      BY <2>2 DEF Next, RunStep, Start, EvaluateSeed, VisitWinner, FrontierFound, Begin,
                  EvaluateBefore, Propose, EvaluateAfter, Reject, Validate, Accept, Merge,
                  Finish, WriteTmp, Stop, disk
    <3>2. CASE Rename
      BY <2>1, <3>2 DEF Rename, PlacedInv, SavedInv
    <3>3. CASE file' = file
      BY <2>1, <3>3, GoesOnItself DEF TypeInv
    <3> QED
      BY <3>1, <3>2, <3>3
  <2>4. ASSUME file.calls >= MaxMetricCalls PROVE spent' = spent
    <3>1. pc # "down" => Remaining = 0
      <4>1. /\ state.calls \in 0..MaxMetricCalls /\ file.calls \in 0..MaxMetricCalls
            /\ pc # "down" => state.calls >= file.calls
        BY <2>1 DEF TypeInv, StateType, SavedInv, GoesOn
      <4> QED
        BY <2>4, <4>1, ValsetSize DEF Remaining
    <3>2. pc # "seed"
      BY <2>1, <2>2 DEF PlacedInv
    <3>3. /\ spent \in Nat
          /\ pc # "down" => Smaller(V, Remaining) = 0 /\ Smaller(batch, Remaining) = 0 /\ BatchSize = 0
      BY <2>1, <3>1, EvaluationsFit DEF TypeInv
    <3>4. CASE Stop
      <4>1. EvaluationSize = 0
        BY <3>2, <3>3, <3>4 DEF EvaluationSize, Stop, Running, V
      <4> QED
        BY <3>3, <3>4, <4>1 DEF Stop
    <3>5. CASE EvaluateBefore
      BY <3>3, <3>5 DEF EvaluateBefore
    <3>6. CASE EvaluateAfter
      <4>1. spent' = spent + Smaller(batch, Remaining) /\ pc # "down"
        BY <2>1, <3>6, AfterEffect DEF EvaluateAfter
      <4> QED
        BY <3>3, <4>1
    <3>7. CASE Validate
      BY <2>1, <3>1, <3>7 DEF Validate, PlacedInv
    <3>8. CASE Merge
      <4>1. spent' = spent \/ spent' = spent + Smaller(V, Remaining)
        BY <2>1, <3>8, MergeEffect
      <4>2. pc # "down"
        BY <3>8 DEF Merge
      <4> QED
        BY <3>3, <4>1, <4>2
    <3>9. ~EvaluateSeed
      BY <3>2 DEF EvaluateSeed
    <3>10. Start \/ VisitWinner \/ FrontierFound \/ Begin \/ Propose \/ Reject \/ Accept \/ Finish
             \/ WriteTmp \/ Rename => spent' = spent
      BY DEF Start, VisitWinner, FrontierFound, Begin, Propose, Reject, Accept, Finish, WriteTmp, Rename
    <3> QED
      BY <2>2, <3>4, <3>5, <3>6, <3>7, <3>8, <3>9, <3>10 DEF Next, RunStep
  <2> QED
    BY <2>3, <2>4
<1> QED
  BY <1>1, OptimizerInvariant, PTL DEF Spec, SavedWorkKept


-----------------------------------------------------------------------------
(* The registry: the programmes that training finds, as calls save and load them. *)

USE DEF Places, Ops, Guarding

-----------------------------------------------------------------------------
(* Types *)

\* The missing artifact and the call that is not made have their types.
LEMMA NoneTyped == NoArtifact \in Artifacts /\ NoCall \in CallRecords
  BY RegistryAssumption DEF NoArtifact, Artifacts, NoCall, NewCall, CallRecords

\* A call that begins is typed.
LEMMA NewCallTyped ==
  ASSUME NEW c \in Callers, NEW o \in OpsOf[c], NEW v \in Versions
  PROVE  NewCall(o, v) \in CallRecords
  BY RegistryAssumption, NoneTyped DEF NewCall, CallRecords

\* A call that goes on keeps what it does not set.
LEMMA ReadKeeps ==
  ASSUME NEW r \in CallRecords, NEW a
  PROVE  [r EXCEPT !.got = a].op = r.op /\ [r EXCEPT !.got = a].got = a
  BY DEF CallRecords

\* A call that builds a programme keeps its operation and marks.
LEMMA BuildKeeps ==
  ASSUME NEW r \in CallRecords, NEW s
  PROVE  /\ [r EXCEPT !.shape = s].op = r.op /\ [r EXCEPT !.shape = s].marks = r.marks
         /\ [r EXCEPT !.shape = s].shape = s
  BY DEF CallRecords

\* A call that is marked keeps its operation.
LEMMA MarkKeeps ==
  ASSUME NEW r \in CallRecords, NEW m
  PROVE  /\ [r EXCEPT !.marks = @ \union {m}].op = r.op
         /\ [r EXCEPT !.marks = @ \union {m}].marks = r.marks \union {m}
  BY DEF CallRecords

\* A call that is marked keeps what it read and built.
LEMMA MarkLeaves ==
  ASSUME NEW r \in CallRecords, NEW m
  PROVE  /\ [r EXCEPT !.marks = @ \union {m}].got = r.got
         /\ [r EXCEPT !.marks = @ \union {m}].shape = r.shape
  BY DEF CallRecords

\* The artifact a call makes is one.
LEMMA MadeTyped ==
  ASSUME RegistryTypeOK, NEW c \in Callers
  PROVE  Made(c) \in Artifacts
  BY DEF RegistryTypeOK, Made, Artifacts, CallRecords, Fingerprint

Returnable == [shape : Shapes \union {""}, artifact : Artifacts, stated : Versions]

\* A failure is something a call returns.
LEMMA FailureTyped == Failure \in Returnable
  BY RegistryAssumption, NoneTyped DEF Failure, Returnable

\* Forgetting the calls of a crash keeps calls and mutexes typed.
LEMMA ForgottenTyped ==
  ASSUME RegistryTypeOK, NEW C
  PROVE  Forgotten(C) \in [Callers -> CallRecords] /\ Freed(C) \in [Processes -> Callers \union {None}]
  BY NoneTyped DEF RegistryTypeOK, Forgotten, Freed

\* A call that returns keeps the types.
LEMMA ReturnsTyped ==
  ASSUME RegistryTypeOK, NEW c \in Callers, NEW r \in Returnable, Returns(c, r)
  PROVE  /\ at' \in [Callers -> Places] /\ call' \in [Callers -> CallRecords]
         /\ mutex' \in [Processes -> Callers \union {None}] /\ returned' \in Returnable
  BY ForgottenTyped DEF RegistryTypeOK, Returns, GoTo

\* A call that goes on keeps the types.
LEMMA GoesOnTyped ==
  ASSUME RegistryTypeOK, NEW c \in Callers, NEW now \in CallRecords, NEW place \in Places, Continues(c, now, place)
  PROVE  /\ at' \in [Callers -> Places] /\ call' \in [Callers -> CallRecords]
         /\ mutex' = mutex /\ returned' = returned
  BY DEF RegistryTypeOK, Continues, GoTo

\* Each action keeps the type of every variable.
LEMMA TypeStep == RegistryTypeOK /\ [RegistryNext]_registryVars => RegistryTypeOK'
<1> SUFFICES ASSUME RegistryTypeOK, [RegistryNext]_registryVars PROVE RegistryTypeOK'
  OBVIOUS
<1> USE DEF Returnable
<1>1. ASSUME NEW c \in Callers, BeginCall(c) PROVE RegistryTypeOK'
  <2>1. PICK o \in OpsOf[c], v \in Versions : Continues(c, NewCall(o, v), Entry(o))
    BY <1>1 DEF BeginCall
  <2>2. o \in Ops
    BY RegistryAssumption
  <2>3. Entry(o) \in Places
    BY <2>2 DEF Entry
  <2>4. calls \in [Callers -> 0..MaxCalls] /\ MaxCalls \in Nat /\ calls[c] < MaxCalls
    BY <1>1, RegistryAssumption DEF BeginCall, RegistryTypeOK
  <2>5. calls[c] + 1 \in 0..MaxCalls
    BY <2>4
  <2>6. calls' \in [Callers -> 0..MaxCalls]
    BY <1>1, <2>4, <2>5 DEF BeginCall
  <2>7. /\ at' \in [Callers -> Places] /\ call' \in [Callers -> CallRecords]
        /\ mutex' = mutex /\ returned' = returned
    BY <2>1, <2>3, NewCallTyped, GoesOnTyped
  <2> QED
    BY <1>1, <2>6, <2>7 DEF BeginCall, RegistryTypeOK
<1>2. ASSUME NEW c \in Callers, EndContext(c) PROVE RegistryTypeOK'
  <2> DEFINE now == [call[c] EXCEPT !.marks = @ \union {"ended"}]
  <2>1. now \in CallRecords
    BY ZenonT(30) DEF RegistryTypeOK, CallRecords
  <2>2. call' = [call EXCEPT ![c] = now]
    BY <1>2 DEF EndContext
  <2>3. call' \in [Callers -> CallRecords]
    BY <2>1, <2>2 DEF RegistryTypeOK
  <2> QED
    BY <1>2, <2>3 DEF EndContext, RegistryTypeOK
<1>3. ASSUME NEW c \in Callers, CreateLockFile(c) PROVE RegistryTypeOK'
  <2>1. call' \in [Callers -> CallRecords]
    BY <1>3, ForgottenTyped, ZenonT(30) DEF CreateLockFile, RegistryTypeOK
  <2>2. at' \in [Callers -> Places]
    BY <1>3 DEF CreateLockFile, GoTo, RegistryTypeOK
  <2>3. lockFile' \in Callers \union {None, Stale}
    BY <1>3 DEF CreateLockFile
  <2> QED
    BY <1>3, <2>1, <2>2, <2>3 DEF CreateLockFile, RegistryTypeOK
<1>4. ASSUME NEW c \in Callers, GiveUpLockFile(c) PROVE RegistryTypeOK'
  BY <1>4, ForgottenTyped DEF GiveUpLockFile, GoTo, RegistryTypeOK
<1>5. ASSUME NEW c \in Callers, LockMutex(c) PROVE RegistryTypeOK'
  BY <1>5 DEF LockMutex, GoTo, RegistryTypeOK
<1>6. ASSUME NEW c \in Callers, Read(c) PROVE RegistryTypeOK'
  <2>1. call[c] \in CallRecords /\ [call[c] EXCEPT !.got = artifact] \in CallRecords
    BY ZenonT(30) DEF RegistryTypeOK, CallRecords
  <2>2. /\ at' \in [Callers -> Places] /\ call' \in [Callers -> CallRecords]
        /\ mutex' \in [Processes -> Callers \union {None}] /\ returned' \in Returnable
    BY <1>6, <2>1, FailureTyped, ReturnsTyped, GoesOnTyped DEF Read, RegistryTypeOK
  <2> QED
    BY <1>6, <2>2 DEF Read, RegistryTypeOK
<1>7. ASSUME NEW c \in Callers, Attach(c) PROVE RegistryTypeOK'
  <2> DEFINE s == factory[ProcessOf[c]]
  <2>1. [call[c] EXCEPT !.marks = @ \union {"misread"}] \in CallRecords
    BY ZenonT(30) DEF RegistryTypeOK, CallRecords
  <2>2. s \in Shapes => [shape |-> s, artifact |-> call[c].got, stated |-> Stated(c)] \in Returnable
    BY RegistryAssumption DEF RegistryTypeOK, CallRecords, Stated
  <2>3. /\ at' \in [Callers -> Places] /\ call' \in [Callers -> CallRecords]
        /\ mutex' \in [Processes -> Callers \union {None}] /\ returned' \in Returnable
    BY <1>7, <2>1, <2>2, FailureTyped, ReturnsTyped, GoesOnTyped DEF Attach, RegistryTypeOK
  <2> QED
    BY <1>7, <2>3 DEF Attach, RegistryTypeOK
<1>8. ASSUME NEW c \in Callers, Build(c) PROVE RegistryTypeOK'
  <2> DEFINE s == factory[ProcessOf[c]]
  <2>1. s \in Shapes => [call[c] EXCEPT !.shape = s] \in CallRecords
    BY ZenonT(30) DEF RegistryTypeOK, CallRecords
  <2>2. /\ at' \in [Callers -> Places] /\ call' \in [Callers -> CallRecords]
        /\ mutex' \in [Processes -> Callers \union {None}] /\ returned' \in Returnable
    BY <1>8, <2>1, FailureTyped, ReturnsTyped, GoesOnTyped DEF Build, RegistryTypeOK
  <2> QED
    BY <1>8, <2>2 DEF Build, RegistryTypeOK
<1>9. ASSUME NEW c \in Callers, Train(c) PROVE RegistryTypeOK'
  <2>1. call[c] \in CallRecords
    BY DEF RegistryTypeOK
  <2>2. /\ at' \in [Callers -> Places] /\ call' \in [Callers -> CallRecords]
        /\ mutex' \in [Processes -> Callers \union {None}] /\ returned' \in Returnable
    BY <1>9, <2>1, FailureTyped, ReturnsTyped, GoesOnTyped DEF Train, RegistryTypeOK
  <2> QED
    BY <1>9, <2>2 DEF Train, RegistryTypeOK
<1>10. ASSUME NEW c \in Callers, Save(c) PROVE RegistryTypeOK'
  <2>1. [shape |-> call[c].shape, artifact |-> Made(c), stated |-> ""] \in Returnable
    BY RegistryAssumption, MadeTyped DEF RegistryTypeOK, CallRecords
  <2>2. /\ at' \in [Callers -> Places] /\ call' \in [Callers -> CallRecords]
        /\ mutex' \in [Processes -> Callers \union {None}] /\ returned' \in Returnable
    BY <1>10, <2>1, FailureTyped, ReturnsTyped DEF Save
  <2>3. artifact' \in Artifacts
    BY <1>10, MadeTyped DEF Save, RegistryTypeOK
  <2> QED
    BY <1>10, <2>2, <2>3 DEF Save, RegistryTypeOK
<1>11. ASSUME NEW c \in Callers, Unlock(c) PROVE RegistryTypeOK'
  BY <1>11 DEF Unlock, GoTo, RegistryTypeOK
<1>12. ASSUME NEW p \in Processes, SetFactory(p) PROVE RegistryTypeOK'
  <2>1. PICK s \in FactoriesOf[p] : factory' = [factory EXCEPT ![p] = s]
    BY <1>12 DEF SetFactory
  <2>2. s \in Shapes \union Broken
    BY RegistryAssumption
  <2>3. factory' \in [Processes -> Shapes \union Broken]
    BY <2>1, <2>2 DEF RegistryTypeOK
  <2> QED
    BY <1>12, <2>3 DEF SetFactory, RegistryTypeOK
<1>13. ASSUME NEW p \in Processes, Crash(p) PROVE RegistryTypeOK'
  BY <1>13, ForgottenTyped DEF Crash, RegistryTypeOK
<1>14. CASE RemoveStale
  BY <1>14 DEF RemoveStale, RegistryTypeOK
<1>15. CASE UNCHANGED registryVars
  BY <1>15 DEF registryVars, RegistryTypeOK
<1> QED
  BY <1>1, <1>2, <1>3, <1>4, <1>5, <1>6, <1>7, <1>8, <1>9, <1>10, <1>11, <1>12, <1>13, <1>14, <1>15
     DEF RegistryNext, CallStep

\* The variables have their types at first.
LEMMA TypeInit == RegistryInit => RegistryTypeOK
<1> SUFFICES ASSUME RegistryInit PROVE RegistryTypeOK
  OBVIOUS
<1>1. calls \in [Callers -> 0..MaxCalls]
  <2>1. MaxCalls \in Nat
    BY RegistryAssumption
  <2>2. 0 \in 0..MaxCalls
    BY <2>1
  <2> QED
    BY <2>2 DEF RegistryInit
<1>2. factory \in [Processes -> Shapes \union Broken] /\ at \in [Callers -> Places]
  BY DEF RegistryInit
<1>3. call \in [Callers -> CallRecords] /\ mutex \in [Processes -> Callers \union {None}]
  BY NoneTyped DEF RegistryInit
<1>4. lockFile = None /\ artifact \in Artifacts
  BY NoneTyped DEF RegistryInit
<1>5. returned \in Returnable
  BY FailureTyped DEF RegistryInit
<1> QED
  BY <1>1, <1>2, <1>3, <1>4, <1>5 DEF RegistryTypeOK, Returnable

\* The registry's variables keep their types.
THEOREM RegistryTypeCorrect == RegistrySpec => []RegistryTypeOK
  BY TypeInit, TypeStep, PTL DEF RegistrySpec

-----------------------------------------------------------------------------
(* Exclusion *)

\* A LoadOrTrain that has locked the mutex.
Inside(c) == call[c].op \in Guarding /\ at[c] \in {"read", "attach", "build", "train", "save"}

HoldsMutex == \A c \in Callers : Inside(c) => mutex[ProcessOf[c]] = c

\* A LoadOrTrainLocked that has created the lock file, until it has removed it.
Locks(c) == at[c] = "unlock" \/ (call[c].op = "locked" /\ (Inside(c) \/ at[c] = "mutex"))

HoldsLockFile == \A c \in Callers : Locks(c) => lockFile = c

\* A LoadOrTrain that found no artifact and has not saved one.
Missed(c) == Inside(c) /\ at[c] \in {"build", "train", "save"} /\ "misread" \notin call[c].marks

\* The artifact may be replaced by c: there is none, or a call that c does not exclude saved it.
Replaceable(c) == artifact.by = None \/ ~Guarded(c, call[c].op, artifact.by, artifact.op)

MissedStaysMissing == \A c \in Callers : Missed(c) => Replaceable(c)

ExclusionInv == RegistryTypeOK /\ HoldsMutex /\ HoldsLockFile /\ MissedStaysMissing

\* A call that returns leaves the others theirs.
LEMMA ReturnsExclusion ==
  ASSUME ExclusionInv, NEW d \in Callers, NEW r, Returns(d, r), lockFile' = lockFile,
         at[d] \in {"read", "attach", "build", "train", "save"}
  PROVE  /\ HoldsMutex' /\ HoldsLockFile'
         /\ ~Missed(d)'
         /\ \A c \in Callers \ {d} : at'[c] = at[c] /\ call'[c] = call[c]
<1>1. \A c \in Callers \ {d} : at'[c] = at[c] /\ call'[c] = call[c]
  BY DEF Returns, GoTo, Forgotten, ExclusionInv, RegistryTypeOK
<1>2. at'[d] = (IF call[d].op = "locked" THEN "unlock" ELSE "idle")
  BY DEF Returns, GoTo, ExclusionInv, RegistryTypeOK
<1>3. ~Inside(d)' /\ ~Missed(d)'
  BY <1>2 DEF Inside, Missed
<1>4. HoldsMutex'
  <2> SUFFICES ASSUME NEW c \in Callers, Inside(c)' PROVE mutex'[ProcessOf[c]] = c
    BY DEF HoldsMutex
  <2>1. c # d
    BY <1>3
  <2>2. mutex[ProcessOf[c]] = c
    BY <1>1, <2>1 DEF Inside, ExclusionInv, HoldsMutex
  <2> QED
    BY <2>1, <2>2, RegistryAssumption DEF Returns, Freed
<1>5. HoldsLockFile'
  <2> SUFFICES ASSUME NEW c \in Callers, Locks(c)' PROVE lockFile = c
    BY DEF HoldsLockFile
  <2>1. CASE c # d
    BY <1>1, <2>1 DEF Locks, Inside, ExclusionInv, HoldsLockFile
  <2>2. CASE c = d
    <3>1. at'[d] = "unlock"
      BY <1>2, <1>3, <2>2 DEF Locks
    <3>2. call[d].op = "locked"
      BY <1>2, <3>1
    <3>3. Inside(d)
      BY <3>2 DEF Inside
    <3> QED
      BY <2>2, <3>2, <3>3 DEF Locks, ExclusionInv, HoldsLockFile
  <2> QED
    BY <2>1, <2>2
<1> QED
  BY <1>1, <1>3, <1>4, <1>5

\* So does one that goes on inside.
LEMMA GoesOnExclusion ==
  ASSUME ExclusionInv, NEW d \in Callers, NEW now, NEW place, Continues(d, now, place),
         lockFile' = lockFile, now.op = call[d].op,
         at[d] \in {"read", "attach", "build", "train", "save"},
         place \in {"read", "attach", "build", "train", "save"}
  PROVE  /\ HoldsMutex' /\ HoldsLockFile'
         /\ at'[d] = place /\ call'[d] = now
         /\ \A c \in Callers \ {d} : at'[c] = at[c] /\ call'[c] = call[c]
<1>1. /\ at'[d] = place /\ call'[d] = now /\ mutex' = mutex
      /\ \A c \in Callers \ {d} : at'[c] = at[c] /\ call'[c] = call[c]
  BY DEF Continues, GoTo, ExclusionInv, RegistryTypeOK
<1>2. \A c \in Callers : (Inside(c)' <=> Inside(c)) /\ (Locks(c)' <=> Locks(c))
  BY <1>1 DEF Inside, Locks
<1>3. HoldsMutex'
  BY <1>1, <1>2 DEF ExclusionInv, HoldsMutex
<1>4. HoldsLockFile'
  BY <1>2 DEF ExclusionInv, HoldsLockFile
<1> QED
  BY <1>1, <1>3, <1>4

\* What the others missed is still missing while the artifact is the same.
LEMMA OthersMissed ==
  ASSUME ExclusionInv, NEW d \in Callers, artifact' = artifact,
         \A c \in Callers \ {d} : at'[c] = at[c] /\ call'[c] = call[c],
         Missed(d)' => Replaceable(d)'
  PROVE  MissedStaysMissing'
<1> SUFFICES ASSUME NEW c \in Callers, Missed(c)' PROVE Replaceable(c)'
  BY DEF MissedStaysMissing
<1>1. CASE c = d
  BY <1>1
<1>2. CASE c # d
  <2>1. Missed(c)
    BY <1>2 DEF Missed, Inside
  <2>2. Replaceable(c)
    BY <2>1 DEF ExclusionInv, MissedStaysMissing
  <2> QED
    BY <1>2, <2>2 DEF Replaceable, Guarded
<1> QED
  BY <1>1, <1>2

\* Outside the mutex and the lock file nothing changes for anyone.
LEMMA OutsideExclusion ==
  ASSUME ExclusionInv, NEW d \in Callers, mutex' = mutex, artifact' = artifact,
         \A c \in Callers \ {d} : at'[c] = at[c] /\ call'[c] = call[c],
         lockFile' = lockFile \/ lockFile = None,
         ~Inside(d)', Locks(d)' => lockFile' = d
  PROVE  HoldsMutex' /\ HoldsLockFile' /\ MissedStaysMissing'
<1>1. HoldsMutex'
  BY DEF ExclusionInv, HoldsMutex, Inside
<1>2. HoldsLockFile'
  <2> SUFFICES ASSUME NEW c \in Callers, Locks(c)', c # d PROVE lockFile' = c
    BY DEF HoldsLockFile
  <2>1. lockFile = c
    BY DEF ExclusionInv, HoldsLockFile, Locks, Inside
  <2> QED
    BY <2>1, RegistryAssumption
<1>3. MissedStaysMissing'
  BY OthersMissed DEF Missed
<1> QED
  BY <1>1, <1>2, <1>3

\* Every step keeps the locks with one holder, and a missed artifact missing while it is held.
LEMMA ExclusionStep == ExclusionInv /\ [RegistryNext]_registryVars => ExclusionInv'
<1> SUFFICES ASSUME ExclusionInv, [RegistryNext]_registryVars PROVE HoldsMutex' /\ HoldsLockFile' /\ MissedStaysMissing'
  BY TypeStep DEF ExclusionInv
<1>0. RegistryTypeOK /\ RegistryTypeOK'
  BY TypeStep DEF ExclusionInv
<1> DEFINE Goal == HoldsMutex' /\ HoldsLockFile' /\ MissedStaysMissing'
<1>1. ASSUME NEW d \in Callers, BeginCall(d) PROVE Goal
  <2>1. PICK o \in OpsOf[d], v \in Versions : Continues(d, NewCall(o, v), Entry(o))
    BY <1>1 DEF BeginCall
  <2>2. o \in Ops
    BY RegistryAssumption
  <2>3. /\ at'[d] = Entry(o) /\ call'[d].op = o
        /\ \A c \in Callers \ {d} : at'[c] = at[c] /\ call'[c] = call[c]
    BY <1>0, <2>1 DEF Continues, GoTo, NewCall, RegistryTypeOK
  <2>4. ~Inside(d)' /\ ~Locks(d)'
    BY <2>2, <2>3 DEF Entry, Inside, Locks
  <2> QED
    BY <1>1, <2>1, <2>3, <2>4, OutsideExclusion DEF BeginCall, Continues
<1>2. ASSUME NEW d \in Callers, EndContext(d) PROVE Goal
  <2> DEFINE now == [call[d] EXCEPT !.marks = @ \union {"ended"}]
  <2>0. now.op = call[d].op /\ now.marks = call[d].marks \union {"ended"}
    BY <1>0, MarkKeeps DEF RegistryTypeOK
  <2>1. /\ at' = at /\ mutex' = mutex /\ lockFile' = lockFile /\ artifact' = artifact
        /\ call' = [call EXCEPT ![d] = now]
    BY <1>2 DEF EndContext
  <2>2. \A c \in Callers : /\ call'[c].op = call[c].op
                           /\ "misread" \in call'[c].marks <=> "misread" \in call[c].marks
    <3> HIDE DEF now
    <3> QED
      BY <1>0, <2>0, <2>1 DEF RegistryTypeOK
  <2>3. \A c \in Callers : /\ Inside(c)' <=> Inside(c)
                           /\ Locks(c)' <=> Locks(c)
                           /\ Missed(c)' <=> Missed(c)
                           /\ Replaceable(c)' <=> Replaceable(c)
    BY <2>1, <2>2 DEF Inside, Locks, Missed, Replaceable, Guarded
  <2> QED
    BY <2>1, <2>3 DEF ExclusionInv, HoldsMutex, HoldsLockFile, MissedStaysMissing
<1>3. ASSUME NEW d \in Callers, CreateLockFile(d) PROVE Goal
  <2>1. \A c \in Callers \ {d} : at'[c] = at[c] /\ call'[c] = call[c]
    BY <1>0, <1>3 DEF CreateLockFile, GoTo, Forgotten, RegistryTypeOK
  <2>2. (lockFile' = d /\ at'[d] = "mutex") \/ at'[d] = "idle"
    BY <1>0, <1>3 DEF CreateLockFile, GoTo, RegistryTypeOK
  <2>3. ~Inside(d)' /\ (Locks(d)' => lockFile' = d)
    BY <2>2 DEF Inside, Locks
  <2> QED
    BY <1>3, <2>1, <2>3, OutsideExclusion DEF CreateLockFile
<1>4. ASSUME NEW d \in Callers, GiveUpLockFile(d) PROVE Goal
  <2>1. \A c \in Callers \ {d} : at'[c] = at[c] /\ call'[c] = call[c]
    BY <1>0, <1>4 DEF GiveUpLockFile, GoTo, Forgotten, RegistryTypeOK
  <2>2. at'[d] = "idle"
    BY <1>0, <1>4 DEF GiveUpLockFile, GoTo, RegistryTypeOK
  <2> QED
    BY <1>4, <2>1, <2>2, OutsideExclusion DEF GiveUpLockFile, Inside, Locks
<1>5. ASSUME NEW d \in Callers, LockMutex(d) PROVE Goal
  <2>1. /\ \A c \in Callers \ {d} : at'[c] = at[c]
        /\ at[d] = "mutex" /\ at'[d] = "read" /\ call' = call /\ lockFile' = lockFile /\ artifact' = artifact
    BY <1>0, <1>5 DEF LockMutex, GoTo, RegistryTypeOK
  <2>2. HoldsMutex'
    <3> SUFFICES ASSUME NEW c \in Callers, Inside(c)' PROVE mutex'[ProcessOf[c]] = c
      BY DEF HoldsMutex
    <3>1. ProcessOf[c] \in Processes /\ ProcessOf[d] \in Processes
      BY RegistryAssumption
    <3>2. CASE c = d
      BY <1>0, <1>5, <3>1, <3>2 DEF LockMutex, RegistryTypeOK
    <3>3. CASE c # d
      <4>1. mutex[ProcessOf[c]] = c
        BY <2>1, <3>3 DEF Inside, ExclusionInv, HoldsMutex
      <4>2. ProcessOf[c] # ProcessOf[d]
        BY <1>5, <4>1, RegistryAssumption DEF LockMutex
      <4> QED
        BY <1>0, <1>5, <3>1, <4>1, <4>2 DEF LockMutex, RegistryTypeOK
    <3> QED
      BY <3>2, <3>3
  <2>3. HoldsLockFile'
    BY <2>1 DEF HoldsLockFile, ExclusionInv, Locks, Inside
  <2>4. MissedStaysMissing'
    BY <2>1, OthersMissed DEF Missed
  <2> QED
    BY <2>2, <2>3, <2>4
<1>6. ASSUME NEW d \in Callers, Read(d) PROVE Goal
  <2>1. CASE artifact = NoArtifact /\ Continues(d, call[d], "build")
    <3>1. Replaceable(d)'
      BY <1>6, <2>1 DEF Read, Replaceable, NoArtifact
    <3> QED
      BY <1>6, <2>1, <3>1, GoesOnExclusion, OthersMissed DEF Read
  <2>2. CASE Returns(d, Failure)
    BY <1>6, <2>2, ReturnsExclusion, OthersMissed DEF Read
  <2>3. CASE Continues(d, [call[d] EXCEPT !.got = artifact], "attach")
    <3>1. [call[d] EXCEPT !.got = artifact].op = call[d].op
      BY <1>0, ReadKeeps DEF RegistryTypeOK
    <3>2. HoldsMutex' /\ HoldsLockFile' /\ at'[d] = "attach"
          /\ \A c \in Callers \ {d} : at'[c] = at[c] /\ call'[c] = call[c]
      BY <1>6, <2>3, <3>1, GoesOnExclusion DEF Read
    <3> QED
      BY <1>6, <3>2, OthersMissed DEF Read, Missed
  <2> QED
    BY <1>6, <2>1, <2>2, <2>3 DEF Read
<1>7. ASSUME NEW d \in Callers, Attach(d) PROVE Goal
  <2>1. ASSUME NEW r, Returns(d, r) PROVE Goal
    BY <1>7, <2>1, ReturnsExclusion, OthersMissed DEF Attach
  <2>2. CASE Continues(d, [call[d] EXCEPT !.marks = @ \union {"misread"}], "build")
    <3> DEFINE now == [call[d] EXCEPT !.marks = @ \union {"misread"}]
    <3>0. now.op = call[d].op /\ now.marks = call[d].marks \union {"misread"}
      BY <1>0, MarkKeeps DEF RegistryTypeOK
    <3>1. now.op = call[d].op /\ "misread" \in now.marks
      <4> HIDE DEF now
      <4> QED
        BY <3>0
    <3>2. HoldsMutex' /\ HoldsLockFile' /\ call'[d] = now
          /\ \A c \in Callers \ {d} : at'[c] = at[c] /\ call'[c] = call[c]
      BY <1>7, <2>2, <3>1, GoesOnExclusion DEF Attach
    <3>3. ~Missed(d)'
      BY <3>1, <3>2 DEF Missed
    <3> QED
      BY <1>7, <3>2, <3>3, OthersMissed DEF Attach
  <2> QED
    BY <1>7, <2>1, <2>2 DEF Attach
<1>8. ASSUME NEW d \in Callers, Build(d) PROVE Goal
  <2> DEFINE s == factory[ProcessOf[d]]
             now == [call[d] EXCEPT !.shape = s]
  <2>1. CASE Continues(d, now, "train")
    <3>1. now.op = call[d].op /\ now.marks = call[d].marks
      BY <1>0, BuildKeeps DEF RegistryTypeOK
    <3>2. HoldsMutex' /\ HoldsLockFile' /\ at'[d] = "train" /\ call'[d] = now
          /\ \A c \in Callers \ {d} : at'[c] = at[c] /\ call'[c] = call[c]
      BY <1>8, <2>1, <3>1, GoesOnExclusion, ZenonT(30) DEF Build
    <3>3. Missed(d)' => Missed(d)
      BY <1>8, <3>1, <3>2 DEF Build, Missed, Inside
    <3>4. Missed(d)' => Replaceable(d)'
      BY <1>8, <3>1, <3>2, <3>3 DEF Build, ExclusionInv, MissedStaysMissing, Replaceable, Guarded
    <3> QED
      BY <1>8, <3>2, <3>4, OthersMissed DEF Build
  <2>2. CASE Returns(d, Failure)
    BY <1>8, <2>2, ReturnsExclusion, OthersMissed DEF Build
  <2> QED
    BY <1>8, <2>1, <2>2 DEF Build
<1>9. ASSUME NEW d \in Callers, Train(d) PROVE Goal
  <2>1. CASE Continues(d, call[d], "save")
    <3>1. HoldsMutex' /\ HoldsLockFile' /\ at'[d] = "save" /\ call'[d] = call[d]
          /\ \A c \in Callers \ {d} : at'[c] = at[c] /\ call'[c] = call[c]
      BY <1>9, <2>1, GoesOnExclusion DEF Train
    <3>2. Missed(d)' => Missed(d)
      BY <1>9, <3>1 DEF Train, Missed, Inside
    <3>3. Missed(d)' => Replaceable(d)'
      BY <1>9, <3>1, <3>2 DEF Train, ExclusionInv, MissedStaysMissing, Replaceable, Guarded
    <3> QED
      BY <1>9, <3>1, <3>3, OthersMissed DEF Train
  <2>2. CASE Returns(d, Failure)
    BY <1>9, <2>2, ReturnsExclusion, OthersMissed DEF Train
  <2> QED
    BY <1>9, <2>1, <2>2 DEF Train
<1>10. ASSUME NEW d \in Callers, Save(d) PROVE Goal
  <2>1. PICK r : Returns(d, r)
    BY <1>10 DEF Save
  <2>2. HoldsMutex' /\ HoldsLockFile' /\ ~Missed(d)'
        /\ \A c \in Callers \ {d} : at'[c] = at[c] /\ call'[c] = call[c]
    BY <1>10, <2>1, ReturnsExclusion DEF Save
  <2>3. CASE artifact' = artifact
    BY <2>2, <2>3, OthersMissed
  <2>4. CASE artifact' = Made(d)
    <3> SUFFICES ASSUME NEW c \in Callers, Missed(c)' PROVE Replaceable(c)'
      BY <2>2 DEF MissedStaysMissing
    <3>1. c # d /\ at[d] = "save"
      BY <1>10, <2>2 DEF Save
    <3>2. Inside(c) /\ call'[c] = call[c]
      BY <2>2, <3>1 DEF Missed, Inside
    <3>3. artifact'.by = d /\ artifact'.op = call[d].op
      BY <2>4 DEF Made
    <3>4. ASSUME Guarded(c, call[c].op, d, call[d].op) PROVE FALSE
      <4>1. Inside(d)
        BY <3>1, <3>4 DEF Guarded, Inside
      <4>2. CASE ProcessOf[c] = ProcessOf[d]
        BY <3>1, <3>2, <4>1, <4>2 DEF ExclusionInv, HoldsMutex
      <4>3. CASE call[c].op = "locked" /\ call[d].op = "locked"
        BY <3>1, <3>2, <4>1, <4>3 DEF ExclusionInv, HoldsLockFile, Locks
      <4> QED
        BY <3>4, <4>2, <4>3 DEF Guarded
    <3> QED
      BY <3>2, <3>3, <3>4 DEF Replaceable
  <2> QED
    BY <1>10, <2>2, <2>3, <2>4 DEF Save
<1>11. ASSUME NEW d \in Callers, Unlock(d) PROVE Goal
  <2>1. /\ at'[d] = "idle" /\ call' = call /\ mutex' = mutex /\ artifact' = artifact
        /\ \A c \in Callers \ {d} : at'[c] = at[c]
    BY <1>0, <1>11 DEF Unlock, GoTo, RegistryTypeOK
  <2>2. lockFile = d
    BY <1>11 DEF Unlock, ExclusionInv, HoldsLockFile, Locks
  <2>3. HoldsMutex'
    BY <2>1 DEF ExclusionInv, HoldsMutex, Inside
  <2>4. HoldsLockFile'
    BY <2>1, <2>2 DEF ExclusionInv, HoldsLockFile, Locks, Inside
  <2>5. MissedStaysMissing'
    BY <2>1, OthersMissed DEF Missed
  <2> QED
    BY <2>3, <2>4, <2>5
<1>12. ASSUME NEW p \in Processes, SetFactory(p) PROVE Goal
  BY <1>12 DEF SetFactory, ExclusionInv, HoldsMutex, HoldsLockFile, MissedStaysMissing,
               Inside, Locks, Missed, Replaceable, Guarded
<1>13. ASSUME NEW p \in Processes, Crash(p) PROVE Goal
  <2> DEFINE gone == {c \in Callers : ProcessOf[c] = p}
  <2>1. \A c \in Callers : IF c \in gone THEN at'[c] = "idle"
                           ELSE at'[c] = at[c] /\ call'[c] = call[c]
    BY <1>13 DEF Crash, Forgotten
  <2>2. \A c \in gone : ~Inside(c)' /\ ~Locks(c)' /\ ~Missed(c)'
    BY <2>1 DEF Inside, Locks, Missed
  <2>3. HoldsMutex'
    <3> SUFFICES ASSUME NEW c \in Callers \ gone, Inside(c)' PROVE mutex'[ProcessOf[c]] = c
      BY <2>2 DEF HoldsMutex
    <3>1. mutex[ProcessOf[c]] = c
      BY <2>1 DEF Inside, ExclusionInv, HoldsMutex
    <3> QED
      BY <1>13, <3>1, RegistryAssumption DEF Crash, Freed
  <2>4. HoldsLockFile'
    <3> SUFFICES ASSUME NEW c \in Callers \ gone, Locks(c)' PROVE lockFile' = c
      BY <2>2 DEF HoldsLockFile
    <3>1. lockFile = c
      BY <2>1 DEF Locks, Inside, ExclusionInv, HoldsLockFile
    <3> QED
      BY <1>13, <3>1 DEF Crash
  <2>5. MissedStaysMissing'
    <3> SUFFICES ASSUME NEW c \in Callers \ gone, Missed(c)' PROVE Replaceable(c)'
      BY <2>2 DEF MissedStaysMissing
    <3>1. Replaceable(c)
      BY <2>1 DEF Missed, Inside, ExclusionInv, MissedStaysMissing
    <3> QED
      BY <1>13, <2>1, <3>1 DEF Crash, Replaceable, Guarded
  <2> QED
    BY <2>3, <2>4, <2>5
<1>14. CASE RemoveStale
  <2>1. \A c \in Callers : ~Locks(c)
    BY <1>14, RegistryAssumption DEF RemoveStale, ExclusionInv, HoldsLockFile
  <2> QED
    BY <1>14, <2>1 DEF RemoveStale, ExclusionInv, HoldsMutex, HoldsLockFile, MissedStaysMissing,
                       Inside, Locks, Missed, Replaceable, Guarded
<1>15. CASE UNCHANGED registryVars
  BY <1>15 DEF registryVars, ExclusionInv, HoldsMutex, HoldsLockFile, MissedStaysMissing,
               Inside, Locks, Missed, Replaceable, Guarded
<1> QED
  BY <1>1, <1>2, <1>3, <1>4, <1>5, <1>6, <1>7, <1>8, <1>9, <1>10, <1>11, <1>12, <1>13, <1>14, <1>15
     DEF RegistryNext, CallStep

\* No call is inside a lock at first.
LEMMA ExclusionInit == RegistryInit => ExclusionInv
<1> SUFFICES ASSUME RegistryInit PROVE HoldsMutex /\ HoldsLockFile /\ MissedStaysMissing
  BY TypeInit DEF ExclusionInv
<1>1. \A c \in Callers : at[c] = "idle"
  BY DEF RegistryInit
<1> QED
  BY <1>1 DEF HoldsMutex, HoldsLockFile, MissedStaysMissing, Inside, Locks, Missed

\* Only a save changes the artifact, and one that missed it replaces what it may.
LEMMA StandsStep ==
  ASSUME ExclusionInv, [RegistryNext]_registryVars, NEW c \in Callers,
         artifact' # artifact, artifact'.by = c,
         call[c].op \in Guarding, "misread" \notin call[c].marks
  PROVE  Replaceable(c)
<1>1. PICK d \in Callers : Save(d)
  BY DEF RegistryNext, CallStep, registryVars, BeginCall, EndContext, CreateLockFile, GiveUpLockFile, LockMutex, Read, Attach,
         Build, Train, Unlock, SetFactory, Crash, RemoveStale
<1>2. d = c
  <2>1. artifact' = Made(d)
    BY <1>1 DEF Save
  <2> QED
    BY <2>1 DEF Made
<1>3. Missed(c)
  BY <1>1, <1>2 DEF Save, Missed, Inside
<1> QED
  BY <1>3 DEF ExclusionInv, MissedStaysMissing

\* However many callers and processes there are, LoadOrTrain never replaces an artifact that a
\* call it excludes has saved, unless it took a factory's failure for a missing artifact.
THEOREM ArtifactStandsAlways == RegistrySpec => ArtifactStands
<1> DEFINE Stands ==
      \A c \in Callers :
        /\ artifact' # artifact /\ artifact'.by = c
        /\ call[c].op \in Guarding /\ "misread" \notin call[c].marks
        => artifact.by = None \/ ~Guarded(c, call[c].op, artifact.by, artifact.op)
<1>1. ExclusionInv /\ [RegistryNext]_registryVars => [Stands]_registryVars
  BY StandsStep DEF Replaceable
<1>2. RegistrySpec => [][Stands]_registryVars
  BY <1>1, ExclusionInit, ExclusionStep, PTL DEF RegistrySpec
<1> QED
  BY <1>2 DEF ArtifactStands

-----------------------------------------------------------------------------
(* What calls return *)

\* An artifact that a training made: its fingerprint is that of the shape it was trained for.
Trained(a) == a.trainedFor \in Shapes /\ a.fingerprint = Fingerprint(a.trainedFor)

\* The shape a call trains, and the artifact it has read.
Sound(c) ==
  /\ at[c] = "attach" => Trained(call[c].got)
  /\ at[c] \in {"train", "save"} => call[c].shape \in Shapes

FitInv ==
  /\ RegistryTypeOK /\ LoadsFit
  /\ artifact # NoArtifact => Trained(artifact)
  /\ \A c \in Callers : Sound(c)

\* A call that returns a failure or a fitting candidate keeps the rest fitting.
LEMMA ReturnsFit ==
  ASSUME FitInv, NEW d \in Callers, NEW r, Returns(d, r), r = Failure \/ Fits(r)
  PROVE  LoadsFit' /\ \A c \in Callers : Sound(c)'
<1>1. \A c \in Callers \ {d} : at'[c] = at[c] /\ call'[c] = call[c]
  BY DEF Returns, GoTo, Forgotten, FitInv, RegistryTypeOK
<1>2. at'[d] \in {"unlock", "idle"}
  BY DEF Returns, GoTo, FitInv, RegistryTypeOK
<1>3. \A c \in Callers : Sound(c)'
  BY <1>1, <1>2 DEF Sound, FitInv
<1>4. LoadsFit'
  <2>1. returned' = r
    BY DEF Returns
  <2>2. returned' = Failure \/ Fits(returned)'
    BY <2>1 DEF Fits
  <2> QED
    BY <2>2 DEF LoadsFit
<1> QED
  BY <1>3, <1>4

\* A call that goes on with what fits keeps the rest fitting.
LEMMA GoesOnFit ==
  ASSUME FitInv, NEW d \in Callers, NEW now, NEW place, Continues(d, now, place),
         place = "attach" => Trained(now.got),
         place \in {"train", "save"} => now.shape \in Shapes
  PROVE  LoadsFit' /\ \A c \in Callers : Sound(c)'
<1>1. \A c \in Callers \ {d} : at'[c] = at[c] /\ call'[c] = call[c]
  BY DEF Continues, GoTo, FitInv, RegistryTypeOK
<1>2. at'[d] = place /\ call'[d] = now /\ returned' = returned
  BY DEF Continues, GoTo, FitInv, RegistryTypeOK
<1>3. \A c \in Callers : Sound(c)'
  <2>1. Sound(d)'
    BY <1>2 DEF Sound
  <2>2. \A c \in Callers \ {d} : Sound(c)'
    BY <1>1 DEF Sound, FitInv
  <2> QED
    BY <2>1, <2>2
<1> QED
  BY <1>2, <1>3 DEF LoadsFit, Fits, FitInv

\* Every step keeps what calls hold and return fitting.
LEMMA FitStep == FitInv /\ [RegistryNext]_registryVars => FitInv'
<1> DEFINE Goal == /\ LoadsFit'
                   /\ artifact' # NoArtifact => Trained(artifact')
                   /\ \A c \in Callers : Sound(c)'
<1> SUFFICES ASSUME FitInv, [RegistryNext]_registryVars PROVE Goal
  BY TypeStep DEF FitInv, Trained
<1>0. RegistryTypeOK
  BY DEF FitInv
<1>1. ASSUME NEW d \in Callers, BeginCall(d) PROVE Goal
  <2>1. PICK o \in OpsOf[d], v \in Versions : Continues(d, NewCall(o, v), Entry(o))
    BY <1>1 DEF BeginCall
  <2>2. o \in Ops
    BY RegistryAssumption
  <2>3. Entry(o) \notin {"attach", "train", "save"}
    BY <2>2 DEF Entry
  <2> QED
    BY <1>1, <2>1, <2>3, GoesOnFit DEF BeginCall, FitInv
<1>2. ASSUME NEW d \in Callers, EndContext(d) PROVE Goal
  <2> DEFINE now == [call[d] EXCEPT !.marks = @ \union {"ended"}]
  <2>1. now.got = call[d].got /\ now.shape = call[d].shape
    BY <1>0, MarkLeaves DEF RegistryTypeOK
  <2>2. at' = at /\ call' = [call EXCEPT ![d] = now] /\ returned' = returned /\ artifact' = artifact
    BY <1>2 DEF EndContext
  <2>3. \A c \in Callers : Sound(c)'
    <3> HIDE DEF now
    <3> QED
      BY <1>0, <2>1, <2>2 DEF Sound, FitInv, RegistryTypeOK
  <2> QED
    BY <2>2, <2>3 DEF FitInv, LoadsFit, Fits
<1>3. ASSUME NEW d \in Callers, CreateLockFile(d) \/ GiveUpLockFile(d) PROVE Goal
  <2>1. /\ \A c \in Callers \ {d} : at'[c] = at[c] /\ call'[c] = call[c]
        /\ at'[d] \in {"mutex", "idle"}
        /\ returned' = returned /\ artifact' = artifact
    BY <1>0, <1>3 DEF CreateLockFile, GiveUpLockFile, GoTo, Forgotten, RegistryTypeOK
  <2> QED
    BY <2>1 DEF FitInv, LoadsFit, Fits, Sound
<1>4. ASSUME NEW d \in Callers, LockMutex(d) \/ Unlock(d) PROVE Goal
  <2>1. /\ \A c \in Callers \ {d} : at'[c] = at[c]
        /\ at'[d] \in {"read", "idle"}
        /\ call' = call /\ returned' = returned /\ artifact' = artifact
    BY <1>0, <1>4 DEF LockMutex, Unlock, GoTo, RegistryTypeOK
  <2> QED
    BY <2>1 DEF FitInv, LoadsFit, Fits, Sound
<1>5. ASSUME NEW d \in Callers, Read(d) PROVE Goal
  <2>1. CASE Continues(d, call[d], "build") \/ Returns(d, Failure)
    BY <1>5, <2>1, GoesOnFit, ReturnsFit DEF Read, FitInv
  <2>2. CASE artifact # NoArtifact /\ Continues(d, [call[d] EXCEPT !.got = artifact], "attach")
    <3>1. [call[d] EXCEPT !.got = artifact].got = artifact
      BY <1>0, ReadKeeps DEF RegistryTypeOK
    <3>2. Trained([call[d] EXCEPT !.got = artifact].got)
      BY <2>2, <3>1 DEF FitInv
    <3>3. LoadsFit' /\ \A c \in Callers : Sound(c)'
      BY <2>2, <3>2, GoesOnFit
    <3> QED
      BY <1>5, <3>3 DEF Read, FitInv
  <2> QED
    BY <1>5, <2>1, <2>2 DEF Read
<1>6. ASSUME NEW d \in Callers, Attach(d) PROVE Goal
  <2> DEFINE s == factory[ProcessOf[d]]
             r == [shape |-> s, artifact |-> call[d].got, stated |-> Stated(d)]
  <2>1. CASE s \in Shapes /\ FingerprintFits(call[d].got, s, Stated(d)) /\ Returns(d, r)
    <3>1. Trained(call[d].got)
      BY <1>6 DEF Attach, FitInv, Sound
    <3>2. Fits(r)
      BY <2>1, <3>1, RegistryAssumption DEF Fits, Trained, FingerprintFits, Fingerprint
    <3> QED
      BY <1>6, <2>1, <3>2, ReturnsFit DEF Attach, FitInv
  <2>2. CASE Returns(d, Failure)
    BY <1>6, <2>2, ReturnsFit DEF Attach, FitInv
  <2>3. CASE Continues(d, [call[d] EXCEPT !.marks = @ \union {"misread"}], "build")
    BY <1>6, <2>3, GoesOnFit DEF Attach, FitInv
  <2> QED
    BY <1>6, <2>1, <2>2, <2>3 DEF Attach
<1>7. ASSUME NEW d \in Callers, Build(d) PROVE Goal
  <2> DEFINE s == factory[ProcessOf[d]]
  <2>1. CASE s \in Shapes /\ Continues(d, [call[d] EXCEPT !.shape = s], "train")
    <3>1. [call[d] EXCEPT !.shape = s].shape = s
      BY <1>0, BuildKeeps DEF RegistryTypeOK
    <3>2. LoadsFit' /\ \A c \in Callers : Sound(c)'
      BY <2>1, <3>1, GoesOnFit
    <3> QED
      BY <1>7, <3>2 DEF Build, FitInv
  <2>2. CASE Returns(d, Failure)
    BY <1>7, <2>2, ReturnsFit DEF Build, FitInv
  <2> QED
    BY <1>7, <2>1, <2>2 DEF Build
<1>8. ASSUME NEW d \in Callers, Train(d) PROVE Goal
  <2>1. call[d].shape \in Shapes
    BY <1>8 DEF Train, FitInv, Sound
  <2>2. LoadsFit' /\ \A c \in Callers : Sound(c)'
    BY <1>8, <2>1, GoesOnFit, ReturnsFit DEF Train
  <2> QED
    BY <1>8, <2>2 DEF Train, FitInv
<1>9. ASSUME NEW d \in Callers, Save(d) PROVE Goal
  <2> DEFINE r == [shape |-> call[d].shape, artifact |-> Made(d), stated |-> ""]
  <2>1. Trained(Made(d))
    BY <1>9 DEF Save, FitInv, Sound, Trained, Made
  <2>2. Fits(r)
    BY DEF Fits, Made
  <2>3. LoadsFit' /\ \A c \in Callers : Sound(c)'
    BY <1>9, <2>2, ReturnsFit DEF Save
  <2>4. artifact' = artifact \/ artifact' = Made(d)
    BY <1>9 DEF Save
  <2> QED
    BY <2>1, <2>3, <2>4 DEF FitInv
<1>10. ASSUME NEW p \in Processes, SetFactory(p) PROVE Goal
  BY <1>10 DEF SetFactory, FitInv, LoadsFit, Fits, Sound
<1>11. ASSUME NEW p \in Processes, Crash(p) PROVE Goal
  <2>1. \A c \in Callers : at'[c] = "idle" \/ (at'[c] = at[c] /\ call'[c] = call[c])
    BY <1>11 DEF Crash, Forgotten
  <2> QED
    BY <1>11, <2>1 DEF Crash, FitInv, LoadsFit, Fits, Sound
<1>12. CASE RemoveStale \/ UNCHANGED registryVars
  BY <1>12 DEF RemoveStale, registryVars, FitInv, LoadsFit, Fits, Sound
<1> QED
  BY <1>1, <1>2, <1>3, <1>4, <1>5, <1>6, <1>7, <1>8, <1>9, <1>10, <1>11, <1>12 DEF RegistryNext, CallStep

\* No call holds or has returned anything at first.
LEMMA FitInit == RegistryInit => FitInv
<1> SUFFICES ASSUME RegistryInit PROVE FitInv
  OBVIOUS
<1>1. \A c \in Callers : at[c] = "idle"
  BY DEF RegistryInit
<1>2. returned = Failure /\ artifact = NoArtifact
  BY DEF RegistryInit
<1> QED
  BY <1>1, <1>2, TypeInit DEF FitInv, LoadsFit, Sound

\* A call never returns a candidate with a programme it does not fit, for any replacement of
\* factories while it loads or trains.
THEOREM LoadsFitAlways == RegistrySpec => []LoadsFit
<1>1. FitInv => LoadsFit
  BY DEF FitInv
<1> QED
  BY <1>1, FitInit, FitStep, PTL DEF RegistrySpec

=============================================================================
