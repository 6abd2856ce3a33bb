------------------------- MODULE ObservationProofs -------------------------
(***************************************************************************)
(* What observers, Redactors and evaluations are promised, for any         *)
(* pipelines, nested runs, wrappers, observers and Redactors: each run and *)
(* execution is told to the observers of the runs around it and to nobody  *)
(* else, what a Redactor hides is in no event, what an evaluation hands to *)
(* reflection repeats none of it, and each observer is told in order.      *)
(***************************************************************************)
EXTENDS Observation, ProofLemmas, SequenceTheorems

-----------------------------------------------------------------------------
(* The inductive invariant.  Types first.                                    *)

Spans == Seq((Step \cup {"run"}) \X Nat)
Statuses == {"running", "succeeded", "failed"}
Names == {"own", "recording"}
Everyone == (UNION {w.observers["root"] \cup w.observers["nested"] : w \in Worlds}) \cup {Evaluator}
Decisions == [taken : {"none", "rewind", "skip", "fail"}, rejected : BOOLEAN]
EventKinds == {"runStarted", "started", "finished", "runFinished", "taken", "rejected", "resolved"}

Events ==
  [kind : EventKinds, span : Spans, to : SUBSET Everyone, carries : SUBSET Key, says : SUBSET Key,
   decision : Decisions]

Pendings == [run : Spans, lane : Names, span : Spans, decision : Decisions]

Memories == SUBSET ((Names \X Spans) \X Key)

ObsRecords == [log : Seq(Events), pending : SUBSET Pendings, memory : Memories]

Phases == {"visit", "running", "returned", "retry", "failing", "decided", "ended", "done"}

Flows ==
  [at : Nat, phase : Phases, todo : Seq({"rejected", "taken", "resolve"}), decision : Decisions,
   to : {"next", "again", "end", "fail"}, last : Spans, tries : Nat, visits : Nat, rewinding : BOOLEAN]

TypeInv ==
  /\ world \in Worlds
  /\ status \in [DOMAIN status -> Statuses] /\ DOMAIN status \subseteq Spans /\ IsFiniteSet(DOMAIN status)
  /\ flow \in [DOMAIN flow -> Flows] /\ DOMAIN flow = {x \in DOMAIN status : IsRun(x)}
  /\ held \in Spans
  /\ decided \in [DOMAIN decided -> Decisions] /\ DOMAIN decided \subseteq Executions
ObsTypes == obs \in ObsRecords /\ kept \in SUBSET Key

\* The steps of nested pipelines, at any depth: they run no pipelines.
IsInner(S) ==
  /\ Range(NestedSteps) \subseteq S /\ S \cap ProgramSteps = {}
  /\ \A s \in S : Children[s] \subseteq S /\ Wrappers[s] = 0
Inner == CHOOSE S \in SUBSET Step : IsInner(S)

\* A run is in a step that runs a pipeline, and an execution in the run or the composite it belongs
\* to; executions of a step in one run are numbered.
Alike(r, s) == {y \in Executions : RunOf(y) = r /\ StepOf(y) = s}
RunFits(r) == ~IsRun(Parent(r)) /\ StepOf(Parent(r)) \in ProgramSteps
ExecutionFits(e) ==
  /\ StepOf(e) \in Step
  /\ Last(e)[2] \in 1..Cardinality(Alike(RunOf(e), StepOf(e)))
  /\ IF IsRun(Parent(e)) THEN StepOf(e) \in Range(StepsOf(Parent(e)))
     ELSE StepOf(e) \in Children[StepOf(Parent(e))]
  /\ RunOf(e) # RootRun => StepOf(e) \in Inner

SpansFit ==
  /\ DOMAIN status # {} => RootRun \in DOMAIN status
  /\ \A x \in DOMAIN status \ {RootRun} : IF IsRun(x) THEN RunFits(x) ELSE ExecutionFits(x)
  /\ \A x \in DOMAIN status : \A i \in 0..Len(x) : SubSeq(x, 1, i) \in DOMAIN status
  /\ \A x, y \in DOMAIN status : Within(y, x) /\ status[y] = "running" => status[x] = "running"

\* Where the flow of run r stands.
Visited(r, f) ==
  /\ f.last \in Executions /\ Parent(f.last) = r /\ StepOf(f.last) = StepsOf(r)[f.at]
  /\ f.phase = "running" => status[f.last] = "running"
  /\ f.phase # "running" => status[f.last] # "running"
  /\ f.phase \in {"retry", "failing"} => status[f.last] = "failed" \/ held = f.last
  /\ f.phase = "returned" => held = f.last
FlowFits(r, f) ==
  /\ f.at \in DOMAIN StepsOf(r)
  /\ f.phase # "done" => status[r] = "running"
  /\ f.phase \in {"running", "returned", "retry", "failing", "decided"} => Visited(r, f)
  /\ f.phase \in {"returned", "retry", "failing"} => Wrappers[StepsOf(r)[f.at]] > 0
  /\ f.phase = "decided" => f.todo # <<>>
  /\ \A x \in Executions : Parent(x) = r /\ status[x] = "running" => f.phase = "running" /\ x = f.last
HeldFits ==
  held # NoSpan =>
    /\ held \in Executions /\ Parent(held) = RootRun /\ status[held] = "succeeded"
    /\ LET f == flow[RootRun]
       IN /\ f.phase \in {"running", "returned", "retry", "failing"}
          /\ Wrappers[StepsOf(RootRun)[f.at]] > 0 /\ StepOf(held) = StepsOf(RootRun)[f.at]

FlowInv == (\A r \in DOMAIN flow : FlowFits(r, flow[r])) /\ HeldFits

\* What was told is about what has started.
LogInv ==
  /\ \A i \in DOMAIN obs.log : obs.log[i].span \in DOMAIN status
  /\ \A p \in obs.pending : p.span \in DOMAIN status

\* What an evaluation that meets a Redactor keeps.
Capturing == world.recorded /\ KnownHides # {}
KeepsRun(r, f) ==
  /\ Inputs[PipelineOf(r)] \subseteq kept
  /\ \A j \in 1..(f.at - 1) : Writes[StepsOf(r)[j]] \subseteq kept
  /\ f.phase = "decided" => Writes[StepsOf(r)[f.at]] \subseteq kept
KeptInv ==
  Capturing =>
    /\ \A r \in DOMAIN flow : KeepsRun(r, flow[r])
    /\ \A x \in Executions :
         Reads[StepOf(x)] \subseteq kept /\ (status[x] = "failed" => Writes[StepOf(x)] \subseteq kept)
    /\ \A i \in DOMAIN obs.log : obs.log[i].says \subseteq kept

\* What the lanes of a run have been shown of x, and remember of what they hide.
ShownOf(x) ==
  IF IsRun(x) THEN Inputs[PipelineOf(x)]
  ELSE Reads[StepOf(x)] \cup (IF status[x] = "running" \/ x = held THEN {} ELSE Writes[StepOf(x)])
LaneAt(x, name) == LanesOf(IF IsRun(x) THEN x ELSE RunOf(x))[name]
Remembers(lane, keys) == \A k \in keys \cap lane.hides : <<lane.trace, k>> \in obs.memory
MemoryInv ==
  \A x \in DOMAIN status : \A name \in Names :
    Live(LaneAt(x, name)) => Remembers(LaneAt(x, name), ShownOf(x))

IsOver(x) == status[x] # "running" /\ x # held
Redacted(ev) ==
  /\ ev.carries \cap HiddenAround(ev.span) = {}
  /\ ev.says \cap HiddenAround(ev.span) = {}
  /\ ev.kind \in {"finished", "runFinished"} => ev.says \cap HiddenInside(ev.span) = {}
RedactedInv == \A i \in DOMAIN obs.log : Redacted(obs.log[i])
OverInv ==
  \A i \in DOMAIN obs.log : obs.log[i].kind \in {"finished", "runFinished"} =>
    status[obs.log[i].span] # "running"

StructureInv == TypeInv /\ SpansFit /\ FlowInv
ToldInv == ObsTypes /\ LogInv /\ AudienceTold /\ KeptInv /\ MemoryInv /\ RedactedInv /\ OverInv
ObservationInv == StructureInv /\ ToldInv

-----------------------------------------------------------------------------
(* Spans.                                                                    *)

\* What an appended element makes of a span.
LEMMA SpanAppend ==
  ASSUME NEW e \in Spans, NEW a \in (Step \cup {"run"}) \X Nat
  PROVE  /\ Append(e, a) \in Spans /\ Append(e, a) # <<>> /\ Len(Append(e, a)) = Len(e) + 1
         /\ Parent(Append(e, a)) = e /\ Last(Append(e, a)) = a
         /\ IsRun(Append(e, a)) <=> a = RunMark
  BY DEF Spans, Parent, Front, Last, IsRun, RootRun

\* A span inside another is an element appended to the one around it.
LEMMA SpanShape ==
  ASSUME NEW x \in Spans, x # <<>>
  PROVE  /\ Parent(x) \in Spans /\ Last(x) \in (Step \cup {"run"}) \X Nat
         /\ x = Append(Parent(x), Last(x)) /\ Len(Parent(x)) = Len(x) - 1
<1>1. ASSUME NEW T, NEW y \in Seq(T), y # <<>>
      PROVE  /\ Front(y) \in Seq(T) /\ Last(y) \in T
             /\ y = Append(Front(y), Last(y)) /\ Len(Front(y)) = Len(y) - 1
  <2>1. Len(y) \in Nat /\ Len(y) # 0
    BY <1>1
  <2>2. Front(y) \in Seq(T) /\ Len(Front(y)) = Len(y) - 1 /\ Last(y) \in T
    <3>1. Len(y) \in 1..Len(y) /\ Len(y) - 1 \in 0..Len(y)
      BY <2>1
    <3>2. y[Len(y)] \in T
      BY <1>1, <3>1
    <3>3. SubSeq(y, 1, Len(y) - 1) \in Seq(T) /\ Len(SubSeq(y, 1, Len(y) - 1)) = Len(y) - 1
      <4>. DEFINE n == Len(y) - 1
      <4>1. 1 \in Int /\ n \in Int /\ (IF 1 <= n THEN n - 1 + 1 ELSE 0) = n
        <5>1. ASSUME NEW k \in Nat, k # 0
              PROVE  k - 1 \in Nat /\ (IF 1 <= k - 1 THEN (k - 1) - 1 + 1 ELSE 0) = k - 1
          <6>1. CASE k = 1
            BY <6>1
          <6>2. CASE k # 1
            BY <5>1, <6>2
          <6>. QED
            BY <6>1, <6>2
        <5>2. n \in Nat /\ (IF 1 <= n THEN n - 1 + 1 ELSE 0) = n
          BY ONLY <2>1, <5>1
        <5>. QED
          BY <5>2
      <4>2. \A i \in 1..n : y[i] \in T
        BY <1>1, <2>1
      <4>. HIDE DEF n
      <4>3. SubSeq(y, 1, n) \in Seq(T) /\ Len(SubSeq(y, 1, n)) = IF 1 <= n THEN n - 1 + 1 ELSE 0
        BY <4>1, <4>2, SubSeqProperties
      <4>. QED
        BY <4>1, <4>3 DEF n
    <3>. QED
      BY <3>2, <3>3 DEF Front, Last
  <2>3. y = Append(Front(y), Last(y))
    BY <1>1 DEF Front, Last
  <2>. QED
    BY <2>2, <2>3
<1>. QED
  BY <1>1 DEF Spans, Parent

\* What it means to be within a span.
LEMMA WithinIs ==
  ASSUME NEW x \in Spans, NEW y \in Spans
  PROVE  Within(y, x) <=> Len(x) <= Len(y) /\ SubSeq(y, 1, Len(x)) = x
<1>1. SubSeq(x, 1, Len(x)) = x
  BY DEF Spans
<1>. QED
  BY <1>1 DEF Within, IsPrefix

\* A span is within itself.
LEMMA WithinSelf ==
  ASSUME NEW x \in Spans
  PROVE  Within(x, x)
  BY DEF Within, IsPrefix

\* Everything is within the run.
LEMMA WithinRoot ==
  ASSUME NEW x \in Spans
  PROVE  Within(x, RootRun)
  BY DEF Within, IsPrefix, RootRun, Spans

\* What is within a span, but for the span itself, is what was appended within it.
LEMMA WithinAppend ==
  ASSUME NEW e \in Spans, NEW a \in (Step \cup {"run"}) \X Nat, NEW x \in Spans
  PROVE  Within(Append(e, a), x) <=> x = Append(e, a) \/ Within(e, x)
<1>. DEFINE b == Append(e, a)
<1>1. /\ b \in Spans /\ Len(b) = Len(e) + 1 /\ Len(e) \in Nat /\ Len(x) \in Nat
      /\ \A i \in 1..Len(e) : b[i] = e[i]
  BY DEF Spans
<1>2. Within(b, x) <=> Len(x) <= Len(b) /\ SubSeq(b, 1, Len(x)) = x
  BY <1>1, WithinIs
<1>3. Within(e, x) <=> Len(x) <= Len(e) /\ SubSeq(e, 1, Len(x)) = x
  BY WithinIs
<1>4. SubSeq(b, 1, Len(b)) = b
  BY <1>1 DEF Spans
<1>5. Len(x) <= Len(e) => SubSeq(b, 1, Len(x)) = SubSeq(e, 1, Len(x))
  BY <1>1 DEF Spans
<1>6. CASE Len(x) <= Len(e)
  <2>1. x # b
    BY <1>1, <1>6
  <2>. HIDE DEF b
  <2>. QED
    BY <1>1, <1>2, <1>3, <1>5, <1>6, <2>1 DEF b
<1>7. CASE ~(Len(x) <= Len(e))
  <2>1. Len(x) <= Len(b) <=> Len(x) = Len(b)
    BY <1>1, <1>7
  <2>. HIDE DEF b
  <2>. QED
    BY <1>1, <1>2, <1>3, <1>4, <1>7, <2>1 DEF b
<1>. QED
  BY <1>6, <1>7

\* What is within a span is within what that span is within.
LEMMA WithinTransitive ==
  ASSUME NEW x \in Spans, NEW y \in Spans, NEW z \in Spans, Within(z, y), Within(y, x)
  PROVE  Within(z, x)
  BY WithinIs DEF Spans, Within, IsPrefix

\* Each part of a span that it starts with is around it.
LEMMA WithinPart ==
  ASSUME NEW x \in Spans, NEW i \in 0..Len(x)
  PROVE  SubSeq(x, 1, i) \in Spans /\ Within(x, SubSeq(x, 1, i)) /\ Len(SubSeq(x, 1, i)) = i
<1>. DEFINE p == SubSeq(x, 1, i)
<1>1. p \in Spans /\ Len(p) = i
  BY DEF Spans
<1>. HIDE DEF p
<1>2. Within(x, p) <=> Len(p) <= Len(x) /\ SubSeq(x, 1, Len(p)) = p
  BY <1>1, WithinIs
<1>. QED
  BY <1>1, <1>2 DEF p, Spans

\* The run of what is appended to a run is that run, and to an execution that execution's.
LEMMA RunOfAppend ==
  ASSUME NEW e \in Spans, NEW a \in (Step \cup {"run"}) \X Nat
  PROVE  RunOf(Append(e, a)) = IF IsRun(e) THEN e ELSE RunOf(e)
<1>. DEFINE b == Append(e, a)
            P == {0} \cup {i \in 1 .. Len(e) - 1 : e[i] = RunMark}
            Q == {0} \cup {i \in 1 .. Len(b) - 1 : b[i] = RunMark}
<1>1. /\ b \in Spans /\ Len(b) = Len(e) + 1 /\ Len(e) \in Nat
      /\ \A i \in 1..Len(e) : b[i] = e[i]
  BY DEF Spans
<1>2. RunOf(e) = SubSeq(e, 1, Max(P)) /\ RunOf(b) = SubSeq(b, 1, Max(Q))
  BY DEF RunOf
<1>3. CASE IsRun(e)
  <2>1. Len(e) \in Q /\ \A i \in Q : i <= Len(e)
    BY <1>1, <1>3 DEF IsRun, RootRun, Last
  <2>2. Q \in SUBSET Int
    BY <1>1
  <2>. HIDE DEF Q
  <2>3. Max(Q) = Len(e)
    <3>1. \A y \in Q : (\A z \in Q : y >= z) => y = Len(e)
      BY <1>1, <2>1, <2>2
    <3>2. \A z \in Q : Len(e) >= z
      BY <1>1, <2>1, <2>2
    <3>. QED
      BY <2>1, <3>1, <3>2 DEF Max
  <2>4. SubSeq(b, 1, Len(e)) = e
    BY <1>1 DEF Spans
  <2>. QED
    BY <1>2, <1>3, <2>3, <2>4
<1>4. CASE ~IsRun(e)
  <2>1. e # <<>> /\ e[Len(e)] # RunMark
    BY <1>4 DEF IsRun, RootRun, Last
  <2>2. Q = P
    <3>1. Len(e) # 0
      BY <2>1 DEF Spans
    <3>. QED
      BY <1>1, <2>1, <3>1
  <2>3. P \in SUBSET (0..(Len(e) - 1)) /\ 0 \in P
    BY <1>1, <2>1 DEF Spans
  <2>. HIDE DEF P, Q
  <2>4. Max(P) \in P
    <3>1. IsFiniteSet(P)
      <4>1. IsFiniteSet(0..(Len(e) - 1))
        BY <1>1, FS_Interval
      <4>. QED
        BY <2>3, <4>1, FS_Subset
    <3>2. P \in SUBSET Int /\ P # {}
      BY <1>1, <2>3
    <3>3. PICK x \in P : \A y \in P : y <= x
      BY <3>1, <3>2, MaxOfFinite
    <3>. QED
      BY <3>2, <3>3 DEF Max
  <2>5. SubSeq(b, 1, Max(P)) = SubSeq(e, 1, Max(P))
    <3>1. ASSUME NEW m \in 0..(Len(e) - 1)
          PROVE  SubSeq(b, 1, m) = SubSeq(e, 1, m)
      BY <1>1 DEF Spans
    <3>. QED
      BY <2>3, <2>4, <3>1
  <2>. QED
    BY <1>2, <1>4, <2>2, <2>5
<1>. QED
  BY <1>3, <1>4

\* The run that what happens to x is told of: x itself or the run of x.
At(x) == IF IsRun(x) THEN x ELSE RunOf(x)

\* The run of a span is a run around it, and the only other one is the whole run if that is it.
LEMMA RunOfIs ==
  ASSUME NEW x \in Spans
  PROVE  /\ RunOf(x) \in Spans /\ IsRun(RunOf(x)) /\ Within(x, RunOf(x))
         /\ RunOf(x) = RootRun => \A i \in 1..(Len(x) - 1) : x[i] # RunMark
<1>. DEFINE P == {0} \cup {i \in 1 .. Len(x) - 1 : x[i] = RunMark}
            m == Max(P)
<1>1. Len(x) \in Nat
  BY DEF Spans
<1>2. P \in SUBSET (0..Len(x)) /\ 0 \in P
  BY <1>1
<1>3. m \in P /\ \A i \in P : i <= m
  <2>. HIDE DEF P
  <2>1. IsFiniteSet(P)
    <3>1. IsFiniteSet(0..Len(x))
      BY <1>1, FS_Interval
    <3>. QED
      BY <1>2, <3>1, FS_Subset
  <2>2. P \in SUBSET Int /\ P # {}
    BY <1>1, <1>2
  <2>3. PICK i \in P : \A y \in P : y <= i
    BY <2>1, <2>2, MaxOfFinite
  <2>4. i \in P /\ \A z \in P : i >= z
    BY <2>2, <2>3
  <2>5. m \in P /\ \A z \in P : m >= z
    BY <2>4 DEF Max
  <2>. QED
    BY <2>2, <2>5
<1>4. RunOf(x) = SubSeq(x, 1, m)
  BY DEF RunOf
<1>5. m \in 0..Len(x) /\ (m # 0 => m \in 1..Len(x) /\ x[m] = RunMark)
  BY <1>1, <1>2, <1>3
<1>6. \A i \in 1..(Len(x) - 1) : x[i] = RunMark => i <= m
  BY <1>3
<1>. HIDE DEF m, P
<1>7. SubSeq(x, 1, m) \in Spans /\ Within(x, SubSeq(x, 1, m)) /\ Len(SubSeq(x, 1, m)) = m
  BY <1>5, WithinPart
<1>8. IsRun(SubSeq(x, 1, m))
  <2>1. CASE m = 0
    BY <1>7, <2>1 DEF IsRun, RootRun, Spans
  <2>2. CASE m # 0
    <3>1. SubSeq(x, 1, m)[m] = x[m]
      BY <1>5, <2>2 DEF Spans
    <3>. QED
      BY <1>5, <1>7, <2>2, <3>1 DEF IsRun, Last
  <2>. QED
    BY <2>1, <2>2
<1>9. RunOf(x) = RootRun => m = 0
  <2>1. Len(RootRun) = 0
    BY DEF RootRun
  <2>. QED
    BY ONLY <1>4, <1>7, <2>1
<1>. QED
  BY <1>4, <1>5, <1>6, <1>7, <1>8, <1>9

\* Around a span are the run and, inside another run, that one too.
LEMMA RunsAroundAre ==
  ASSUME NEW x \in Spans
  PROVE  /\ {PipelineOf(r) : r \in RunsAround(x)} = {"root"} \cup (IF At(x) = RootRun THEN {} ELSE {"nested"})
         /\ At(x) \in Spans /\ IsRun(At(x)) /\ Within(x, At(x))
<1>1. /\ At(x) \in Spans /\ IsRun(At(x)) /\ Within(x, At(x))
  BY RunOfIs, WithinSelf DEF At
<1>2. RootRun \in RunsAround(x)
  <2>1. SubSeq(x, 1, 0) = RootRun /\ 0 \in 0..Len(x)
    BY DEF RootRun, Spans
  <2>. QED
    BY <2>1 DEF RunsAround, IsRun
<1>3. At(x) \in RunsAround(x)
  <2>1. Len(At(x)) \in 0..Len(x) /\ SubSeq(x, 1, Len(At(x))) = At(x)
    BY <1>1, WithinIs, SMTT(20) DEF Spans
  <2>. QED
    BY <1>1, <2>1 DEF RunsAround
<1>4. ASSUME At(x) = RootRun, NEW r \in RunsAround(x)
      PROVE  r = RootRun
  <2>1. PICK i \in 0..Len(x) : r = SubSeq(x, 1, i) /\ IsRun(r)
    BY DEF RunsAround
  <2>2. r \in Spans /\ Len(r) = i
    BY <2>1, WithinPart
  <2>3. ASSUME r # RootRun PROVE FALSE
    <3>1. i \in 1..Len(x)
      BY <2>2, <2>3 DEF RootRun, Spans
    <3>2. r[i] = x[i]
      BY <2>1, <3>1 DEF Spans
    <3>3. x[i] = RunMark
      BY <2>1, <2>2, <2>3, <3>2 DEF IsRun, Last
    <3>4. CASE IsRun(x)
      BY <1>4, <3>1, <3>4 DEF At, RootRun, Spans
    <3>5. CASE ~IsRun(x)
      <4>1. RunOf(x) = RootRun
        BY <1>4, <3>5 DEF At
      <4>2. i # Len(x)
        BY <3>1, <3>3, <3>5 DEF IsRun, Last
      <4>3. i \in 1..(Len(x) - 1)
        BY <3>1, <4>2 DEF Spans
      <4>. QED
        BY <3>3, <4>1, <4>3, RunOfIs
    <3>. QED
      BY <3>4, <3>5
  <2>. QED
    BY <2>3
<1>5. CASE At(x) = RootRun
  BY <1>1, <1>2, <1>4, <1>5 DEF PipelineOf
<1>6. CASE At(x) # RootRun
  BY <1>1, <1>2, <1>3, <1>6 DEF PipelineOf
<1>. QED
  BY <1>1, <1>5, <1>6

\* Who is told of a run, and what is hidden in it.
Watchers(r) ==
  world.observers["root"] \cup (IF r = RootRun THEN {} ELSE world.observers["nested"])
  \cup (IF world.recorded THEN {Evaluator} ELSE {})
HidesOf(r) == world.hides["root"] \cup (IF r = RootRun THEN {} ELSE world.hides["nested"])

\* The audience of a span and what is hidden around it are those of its run.
LEMMA AudienceIs ==
  ASSUME NEW x \in Spans
  PROVE  Audience(x) = Watchers(At(x)) /\ HiddenAround(x) = HidesOf(At(x))
<1>1. {PipelineOf(r) : r \in RunsAround(x)} = {"root"} \cup (IF At(x) = RootRun THEN {} ELSE {"nested"})
  BY RunsAroundAre
<1>2. ASSUME NEW f
      PROVE  UNION {f[PipelineOf(r)] : r \in RunsAround(x)}
             = f["root"] \cup (IF At(x) = RootRun THEN {} ELSE f["nested"])
  <2>. DEFINE S == {PipelineOf(r) : r \in RunsAround(x)}
  <2>1. UNION {f[PipelineOf(r)] : r \in RunsAround(x)} = UNION {f[p] : p \in S}
    OBVIOUS
  <2>2. S = {"root"} \cup (IF At(x) = RootRun THEN {} ELSE {"nested"})
    BY <1>1
  <2>. HIDE DEF S
  <2>. QED
    BY <2>1, <2>2
<1>3. UNION {world.observers[PipelineOf(r)] : r \in RunsAround(x)}
      = world.observers["root"] \cup (IF At(x) = RootRun THEN {} ELSE world.observers["nested"])
  BY ONLY <1>2
<1>4. UNION {world.hides[PipelineOf(r)] : r \in RunsAround(x)}
      = world.hides["root"] \cup (IF At(x) = RootRun THEN {} ELSE world.hides["nested"])
  BY ONLY <1>2
<1>5. Audience(x) = Watchers(At(x))
  <2>. DEFINE A == UNION {world.observers[PipelineOf(r)] : r \in RunsAround(x)}
              B == world.observers["root"] \cup (IF At(x) = RootRun THEN {} ELSE world.observers["nested"])
              C == IF world.recorded THEN {Evaluator} ELSE {}
  <2>1. Audience(x) = A \cup C
    BY DEF Audience
  <2>2. Watchers(At(x)) = B \cup C
    BY DEF Watchers
  <2>3. A = B
    BY ONLY <1>3
  <2>. HIDE DEF A, B, C
  <2>. QED
    BY ONLY <2>1, <2>2, <2>3
<1>6. HiddenAround(x) = HidesOf(At(x))
  BY ONLY <1>4 DEF HiddenAround, HidesOf
<1>. QED
  BY <1>5, <1>6

\* What a lane is.
LaneIs(l, trace, to, hides) == l.trace = trace /\ l.to = to /\ l.hides = hides

\* The lanes of the whole run: its own has all its observers, and an evaluation's recorder has
\* one of its own only if there are none.
RootOwnLive == world.observers["root"] # {} \/ world.hides["root"] # {}
RootRecording == world.observers["root"] = {} /\ world.recorded
Recording == IF world.recorded THEN {Evaluator} ELSE {}
RootOwnTo == IF world.observers["root"] = {} THEN {} ELSE world.observers["root"] \cup Recording

\* No lane is live, and one that opens a trace is.
LEMMA LiveLanes == ~Live(NoLane) /\ \A l, name, r, to, hides : LaneIs(l, <<name, r>>, to, hides) => Live(l)
  BY DEF Live, NoLane, LaneIs

\* The lanes of the root run: one that its observers share with an evaluation's recorder, or, without
\* observers, a silent one for a Redactor and the recorder's own.
LEMMA RootLanesAre ==
  /\ IF RootOwnLive THEN LaneIs(RootLanes.own, <<"own", RootRun>>, RootOwnTo, world.hides["root"])
     ELSE ~Live(RootLanes.own)
  /\ IF RootRecording THEN LaneIs(RootLanes.recording, <<"recording", RootRun>>, {Evaluator}, world.hides["root"])
     ELSE ~Live(RootLanes.recording)
<1>. DEFINE own == world.observers["root"]
            hides == world.hides["root"]
<1>1. RootLanes.own = StartRun(NoLane, <<"own", RootRun>>, RootOwnTo, hides)
  BY DEF RootLanes, RootOwnTo, Recording
<1>2. RootOwnTo # {} \/ hides # {} <=> RootOwnLive
  BY DEF RootOwnTo, RootOwnLive
<1>3. IF RootOwnLive THEN LaneIs(RootLanes.own, <<"own", RootRun>>, RootOwnTo, hides) ELSE ~Live(RootLanes.own)
  BY <1>1, <1>2, LiveLanes DEF StartRun, LaneIs
<1>4. CASE RootRecording
  <2>1. RootLanes.recording = StartRun(NoLane, <<"recording", RootRun>>, {Evaluator}, hides)
    BY <1>4 DEF RootLanes, RootRecording
  <2>2. LaneIs(RootLanes.recording, <<"recording", RootRun>>, {Evaluator}, hides)
    BY <2>1, LiveLanes DEF StartRun, LaneIs
  <2>. QED
    BY <1>3, <1>4, <2>2
<1>5. CASE ~RootRecording
  <2>1. RootLanes.recording = NoLane
    BY <1>5 DEF RootLanes, RootRecording
  <2>. QED
    BY <1>3, <1>5, <2>1, LiveLanes
<1>. QED
  BY <1>4, <1>5

\* The lanes of a nested run join those of the run around it that are live.
LEMMA NestedLanesAre ==
  ASSUME NEW r, r # RootRun
  PROVE  /\ Live(RootLanes.own) =>
              LaneIs(LanesOf(r).own, RootLanes.own.trace, RootLanes.own.to \cup world.observers["nested"],
                     RootLanes.own.hides \cup world.hides["nested"])
         /\ ~Live(RootLanes.own) =>
              IF world.observers["nested"] = {} /\ world.hides["nested"] = {} THEN ~Live(LanesOf(r).own)
              ELSE LaneIs(LanesOf(r).own, <<"own", r>>, world.observers["nested"], world.hides["nested"])
         /\ Live(RootLanes.recording) =>
              LaneIs(LanesOf(r).recording, RootLanes.recording.trace, RootLanes.recording.to \cup {},
                     RootLanes.recording.hides \cup world.hides["nested"])
         /\ ~Live(RootLanes.recording) => ~Live(LanesOf(r).recording)
<1>1. /\ LanesOf(r).own = StartRun(RootLanes.own, <<"own", r>>, world.observers["nested"], world.hides["nested"])
      /\ LanesOf(r).recording = IF Live(RootLanes.recording)
                                THEN StartRun(RootLanes.recording, <<>>, {}, world.hides["nested"]) ELSE NoLane
  BY DEF LanesOf, NestedLanes
<1>2. ASSUME NEW l, NEW t, NEW o, NEW h, Live(l)
      PROVE  LaneIs(StartRun(l, t, o, h), l.trace, l.to \cup o, l.hides \cup h)
  BY <1>2 DEF StartRun, Joined, LaneIs
<1>3. ASSUME NEW l, NEW t, NEW o, NEW h, ~Live(l)
      PROVE  IF o = {} /\ h = {} THEN ~Live(StartRun(l, t, o, h)) ELSE LaneIs(StartRun(l, t, o, h), t, o, h)
  BY <1>3, LiveLanes DEF StartRun, LaneIs
<1>4. Live(RootLanes.own) =>
         LaneIs(LanesOf(r).own, RootLanes.own.trace, RootLanes.own.to \cup world.observers["nested"],
                RootLanes.own.hides \cup world.hides["nested"])
  BY ONLY <1>1, <1>2
<1>5. ~Live(RootLanes.own) =>
         IF world.observers["nested"] = {} /\ world.hides["nested"] = {} THEN ~Live(LanesOf(r).own)
         ELSE LaneIs(LanesOf(r).own, <<"own", r>>, world.observers["nested"], world.hides["nested"])
  BY ONLY <1>1, <1>3
<1>6. Live(RootLanes.recording) =>
         LaneIs(LanesOf(r).recording, RootLanes.recording.trace, RootLanes.recording.to \cup {},
                RootLanes.recording.hides \cup world.hides["nested"])
  BY ONLY <1>1, <1>2
<1>7. ~Live(RootLanes.recording) => ~Live(LanesOf(r).recording)
  BY <1>1, LiveLanes
<1>. QED
  BY <1>4, <1>5, <1>6, <1>7

-----------------------------------------------------------------------------
(* What a run's lanes are.                                                   *)

\* Whom a lane delivers to: nobody if it is not live.
To(lane) == IF Live(lane) THEN lane.to ELSE {}

\* The lanes of a run deliver to its audience, each observer through one of them.
LEMMA LanesSplit ==
  ASSUME world \in Worlds, NEW r
  PROVE  /\ To(LanesOf(r).own) \cup To(LanesOf(r).recording) = Watchers(r)
         /\ To(LanesOf(r).own) \cap To(LanesOf(r).recording) = {}
<1>. DEFINE root == world.observers["root"]
            nested == world.observers["nested"]
<1>1. Evaluator \notin root \cup nested
  BY WorldsAssumption
<1>2. Watchers(r) = root \cup (IF r = RootRun THEN {} ELSE nested) \cup Recording
  BY DEF Watchers, Recording
<1>3. To(RootLanes.own) = RootOwnTo
  <2>1. CASE RootOwnLive
    BY <2>1, RootLanesAre, LiveLanes DEF To, LaneIs
  <2>2. CASE ~RootOwnLive
    BY <2>2, RootLanesAre DEF To, RootOwnLive, RootOwnTo
  <2>. QED
    BY <2>1, <2>2
<1>4. To(RootLanes.recording) = IF RootRecording THEN {Evaluator} ELSE {}
  BY RootLanesAre, LiveLanes DEF To, LaneIs
<1>5. CASE r = RootRun
  <2>1. LanesOf(r) = RootLanes
    BY <1>5 DEF LanesOf
  <2>. QED
    BY <1>1, <1>2, <1>3, <1>4, <1>5, <2>1 DEF RootOwnTo, RootRecording, Recording
<1>6. CASE r # RootRun
  <2>1. To(LanesOf(r).own) = RootOwnTo \cup nested
    <3>1. CASE Live(RootLanes.own)
      <4>1. LaneIs(LanesOf(r).own, RootLanes.own.trace, RootLanes.own.to \cup nested,
                   RootLanes.own.hides \cup world.hides["nested"])
        BY <1>6, <3>1, NestedLanesAre
      <4>2. Live(LanesOf(r).own)
        BY <3>1, <4>1 DEF Live, LaneIs
      <4>. QED
        BY <1>3, <3>1, <4>1, <4>2 DEF To, LaneIs
    <3>2. CASE ~Live(RootLanes.own)
      <4>1. RootOwnTo = {}
        BY <1>3, <3>2 DEF To
      <4>2. IF nested = {} /\ world.hides["nested"] = {} THEN ~Live(LanesOf(r).own)
            ELSE LaneIs(LanesOf(r).own, <<"own", r>>, nested, world.hides["nested"])
        BY <1>6, <3>2, NestedLanesAre
      <4>3. CASE nested = {} /\ world.hides["nested"] = {}
        BY <4>1, <4>2, <4>3 DEF To
      <4>4. CASE ~(nested = {} /\ world.hides["nested"] = {})
        <5>1. LaneIs(LanesOf(r).own, <<"own", r>>, nested, world.hides["nested"])
          BY <4>2, <4>4
        <5>2. Live(LanesOf(r).own)
          BY <5>1, LiveLanes
        <5>. QED
          BY <4>1, <5>1, <5>2 DEF To, LaneIs
      <4>. QED
        BY <4>3, <4>4
    <3>. QED
      BY <3>1, <3>2
  <2>2. To(LanesOf(r).recording) = To(RootLanes.recording)
    <3>1. CASE Live(RootLanes.recording)
      <4>1. LaneIs(LanesOf(r).recording, RootLanes.recording.trace, RootLanes.recording.to \cup {},
                   RootLanes.recording.hides \cup world.hides["nested"])
        BY <1>6, <3>1, NestedLanesAre
      <4>2. Live(LanesOf(r).recording)
        BY <3>1, <4>1 DEF Live, LaneIs
      <4>. QED
        BY <3>1, <4>1, <4>2 DEF To, LaneIs
    <3>2. CASE ~Live(RootLanes.recording)
      BY <1>6, <3>2, NestedLanesAre DEF To
    <3>. QED
      BY <3>1, <3>2
  <2>. QED
    BY <1>1, <1>2, <1>4, <1>6, <2>1, <2>2 DEF RootOwnTo, RootRecording, Recording
<1>. QED
  BY <1>5, <1>6

\* A live lane hides what the Redactors around its run hide, and that of a nested run is on the
\* trace of the run around it if that has one.
LEMMA LiveLaneIs ==
  ASSUME world \in Worlds, NEW r \in Spans, NEW name \in Names
  PROVE  /\ Live(LanesOf(r)[name]) =>
              /\ LanesOf(r)[name].hides = HidesOf(r) /\ LanesOf(r)[name].hides \in SUBSET Key
              /\ LanesOf(r)[name].trace \in Names \X Spans
              /\ LanesOf(r)[name].to \in SUBSET Everyone
         /\ Live(LanesOf(RootRun)[name]) =>
              Live(LanesOf(r)[name]) /\ LanesOf(r)[name].trace = LanesOf(RootRun)[name].trace
<1>. DEFINE root == world.observers["root"]
            nested == world.observers["nested"]
            Good(l, s) == /\ l.hides = HidesOf(s) /\ l.hides \in SUBSET Key
                          /\ l.trace \in Names \X Spans /\ l.to \in SUBSET Everyone
<1>1. /\ world.hides["root"] \in SUBSET Key /\ world.hides["nested"] \in SUBSET Key
      /\ root \in SUBSET Everyone /\ nested \in SUBSET Everyone /\ Evaluator \in Everyone
  <2>1. world.hides["root"] \in SUBSET Key /\ world.hides["nested"] \in SUBSET Key
    BY WorldsAssumption
  <2>2. root \in SUBSET Everyone /\ nested \in SUBSET Everyone
    BY DEF Everyone
  <2>3. Evaluator \in Everyone
    BY DEF Everyone
  <2>. QED
    BY <2>1, <2>2, <2>3
<1>2. LanesOf(RootRun) = RootLanes
  BY DEF LanesOf
<1>3. RootRun \in Spans /\ "own" \in Names /\ "recording" \in Names
  BY DEF RootRun, Spans, Names
<1>4. RootOwnTo \in SUBSET Everyone
  BY <1>1 DEF RootOwnTo, Recording
<1>5. Live(RootLanes.own) => Good(RootLanes.own, RootRun)
  BY <1>1, <1>3, <1>4, RootLanesAre, SMTT(20) DEF LaneIs, HidesOf
<1>6. Live(RootLanes.recording) => Good(RootLanes.recording, RootRun)
  <2>. SUFFICES ASSUME Live(RootLanes.recording)
                PROVE  Good(RootLanes.recording, RootRun)
    OBVIOUS
  <2>1. {Evaluator} \in SUBSET Everyone
    BY <1>1
  <2>2. LaneIs(RootLanes.recording, <<"recording", RootRun>>, {Evaluator}, world.hides["root"])
    BY RootLanesAre
  <2>. QED
    BY <1>1, <1>3, <2>1, <2>2 DEF LaneIs, HidesOf
<1>7. CASE r = RootRun
  BY <1>2, <1>5, <1>6, <1>7 DEF Names
<1>8. CASE r # RootRun
  <2>1. Live(RootLanes.own) => Live(LanesOf(r).own) /\ LanesOf(r).own.trace = RootLanes.own.trace
                               /\ Good(LanesOf(r).own, r)
    <3>. SUFFICES ASSUME Live(RootLanes.own)
                  PROVE  Live(LanesOf(r).own) /\ LanesOf(r).own.trace = RootLanes.own.trace
                         /\ Good(LanesOf(r).own, r)
      OBVIOUS
    <3>1. LaneIs(LanesOf(r).own, RootLanes.own.trace, RootLanes.own.to \cup nested,
                 RootLanes.own.hides \cup world.hides["nested"])
      BY <1>8, NestedLanesAre
    <3>. QED
      BY <1>1, <1>5, <1>8, <3>1 DEF LaneIs, Live, HidesOf
  <2>2. ~Live(RootLanes.own) /\ Live(LanesOf(r).own) => Good(LanesOf(r).own, r)
    <3>. SUFFICES ASSUME ~Live(RootLanes.own), Live(LanesOf(r).own)
                  PROVE  Good(LanesOf(r).own, r)
      OBVIOUS
    <3>1. LaneIs(LanesOf(r).own, <<"own", r>>, nested, world.hides["nested"])
      BY <1>8, NestedLanesAre
    <3>2. world.hides["root"] = {}
      BY RootLanesAre, LiveLanes DEF RootOwnLive
    <3>. QED
      BY <1>1, <1>3, <1>8, <3>1, <3>2 DEF LaneIs, HidesOf
  <2>3. Live(RootLanes.recording) =>
          Live(LanesOf(r).recording) /\ LanesOf(r).recording.trace = RootLanes.recording.trace
          /\ Good(LanesOf(r).recording, r)
    <3>. SUFFICES ASSUME Live(RootLanes.recording)
                  PROVE  Live(LanesOf(r).recording)
                         /\ LanesOf(r).recording.trace = RootLanes.recording.trace
                         /\ Good(LanesOf(r).recording, r)
      OBVIOUS
    <3>1. LaneIs(LanesOf(r).recording, RootLanes.recording.trace, RootLanes.recording.to \cup {},
                 RootLanes.recording.hides \cup world.hides["nested"])
      BY <1>8, NestedLanesAre
    <3>. QED
      BY <1>1, <1>6, <1>8, <3>1 DEF LaneIs, Live, HidesOf
  <2>4. ~Live(RootLanes.recording) => ~Live(LanesOf(r).recording)
    BY <1>8, NestedLanesAre
  <2>. QED
    BY <1>2, <2>1, <2>2, <2>3, <2>4 DEF Names
<1>. QED
  BY <1>7, <1>8

-----------------------------------------------------------------------------
(* What telling an event does to what has been told.                         *)

\* The events that tell a start, an end or neither.
MarkOf(kind) ==
  IF kind \in {"runStarted", "started"} THEN "begin"
  ELSE IF kind \in {"runFinished", "finished"} THEN "end" ELSE "none"
Marked(o, k, x) == {i \in DOMAIN o.log : MarkOf(o.log[i].kind) = k /\ o.log[i].span = x}

\* The start (or end) of x was told to A, each observer once; and to nobody.
ToldIn(o, k, x, A) ==
  /\ UNION {o.log[i].to : i \in Marked(o, k, x)} = A
  /\ \A i, j \in Marked(o, k, x) : i # j => o.log[i].to \cap o.log[j].to = {}
SilentIn(o, k, x) == Marked(o, k, x) = {}

EventsOf(o) == {o.log[i] : i \in DOMAIN o.log}
QuietEvents == {ev \in Events : MarkOf(ev.kind) = "none" /\ ev.carries = {} /\ ev.says = {}}
Spoken(o) == {ev.span : ev \in EventsOf(o)} \cup {q.span : q \in o.pending}

\* From o to p the only start or end told is the one that K names, of x, to those in T.
Moves(o, p, K, x, T) ==
  \A k \in {"begin", "end"}, y \in Spans :
    /\ \A A \in SUBSET Everyone : ToldIn(o, k, y, A) =>
         IF k = K /\ y = x THEN A \cap T = {} => ToldIn(p, k, y, A \cup T) ELSE ToldIn(p, k, y, A)
    /\ ~(k = K /\ y = x) => (SilentIn(o, k, y) => SilentIn(p, k, y))

\* The events told from o to p are in M, or tell no start or end and nothing of the state.
Speaks(o, p, K, x, T, M) ==
  /\ p \in ObsRecords
  /\ o.memory \subseteq p.memory
  /\ Spoken(p) \subseteq Spoken(o) \cup {x}
  /\ EventsOf(p) \subseteq EventsOf(o) \cup QuietEvents \cup M
  /\ Moves(o, p, K, x, T)

\* Nothing said says nothing to nobody.
LEMMA SpeaksNothing ==
  ASSUME NEW o \in ObsRecords, NEW K, NEW x, NEW M
  PROVE  Speaks(o, o, K, x, {}, M)
  BY DEF Speaks, Moves

\* What is said twice of the same start or end, to different observers, is said to them all.
LEMMA SpeaksTwice ==
  ASSUME NEW o, NEW q, NEW p, NEW K, NEW x, NEW S \in SUBSET Everyone, NEW T \in SUBSET Everyone, NEW M,
         Speaks(o, q, K, x, S, M), Speaks(q, p, K, x, T, M), S \cap T = {}
  PROVE  Speaks(o, p, K, x, S \cup T, M)
<1>1. Moves(o, p, K, x, S \cup T)
  <2>. SUFFICES ASSUME NEW k \in {"begin", "end"}, NEW y \in Spans
                PROVE  /\ \A A \in SUBSET Everyone : ToldIn(o, k, y, A) =>
                            IF k = K /\ y = x THEN A \cap (S \cup T) = {} => ToldIn(p, k, y, A \cup (S \cup T))
                            ELSE ToldIn(p, k, y, A)
                       /\ ~(k = K /\ y = x) => (SilentIn(o, k, y) => SilentIn(p, k, y))
    BY DEF Moves
  <2>1. CASE k = K /\ y = x
    <3>. SUFFICES ASSUME NEW A \in SUBSET Everyone, ToldIn(o, k, y, A), A \cap (S \cup T) = {}
                  PROVE  ToldIn(p, k, y, A \cup (S \cup T))
      BY <2>1
    <3>1. A \cap S = {} /\ (A \cup S) \cap T = {} /\ A \cup S \in SUBSET Everyone
          /\ (A \cup S) \cup T = A \cup (S \cup T)
      OBVIOUS
    <3>2. ToldIn(q, k, y, A \cup S)
      BY <2>1, <3>1 DEF Speaks, Moves
    <3>. QED
      BY <2>1, <3>1, <3>2 DEF Speaks, Moves
  <2>2. CASE ~(k = K /\ y = x)
    BY <2>2 DEF Speaks, Moves
  <2>. QED
    BY <2>1, <2>2
<1>. QED
  BY <1>1 DEF Speaks

\* Quiet events around it leave what is said as it is.
LEMMA SpeaksAfterQuiet ==
  ASSUME NEW o, NEW q, NEW p, NEW K, NEW x, NEW S, NEW T, NEW M,
         Speaks(o, q, "none", x, S, M), Speaks(q, p, K, x, T, M)
  PROVE  Speaks(o, p, K, x, T, M)
<1>1. \A k \in {"begin", "end"}, y \in Spans :
        /\ \A A \in SUBSET Everyone : ToldIn(o, k, y, A) => ToldIn(q, k, y, A)
        /\ SilentIn(o, k, y) => SilentIn(q, k, y)
  BY DEF Speaks, Moves
<1>2. Moves(o, p, K, x, T)
  BY <1>1 DEF Speaks, Moves
<1>. QED
  BY <1>2 DEF Speaks
\* What tells of a span, and then says nothing of any, tells of it.
LEMMA SpeaksThenQuiet ==
  ASSUME NEW o, NEW q, NEW p, NEW K, NEW x, NEW S, NEW T \in SUBSET Everyone, NEW M,
         Speaks(o, q, K, x, T, M), Speaks(q, p, "none", x, S, M)
  PROVE  Speaks(o, p, K, x, T, M)
<1>1. \A k \in {"begin", "end"}, y \in Spans :
        /\ \A A \in SUBSET Everyone : ToldIn(q, k, y, A) => ToldIn(p, k, y, A)
        /\ SilentIn(q, k, y) => SilentIn(p, k, y)
  BY DEF Speaks, Moves
<1>2. Moves(o, p, K, x, T)
  BY <1>1 DEF Speaks, Moves
<1>. QED
  BY <1>2 DEF Speaks

\* Text added to what a trace remembers says nothing.
LEMMA RememberIs ==
  ASSUME NEW o \in ObsRecords, NEW l, NEW keys \in SUBSET Key,
         l.lane.trace \in Names \X Spans, l.lane.hides \in SUBSET Key
  PROVE  /\ Remember(o, l, keys) \in ObsRecords
         /\ Remember(o, l, keys).log = o.log /\ Remember(o, l, keys).pending = o.pending
         /\ Remember(o, l, keys).memory = o.memory \cup ({l.lane.trace} \X (keys \cap l.lane.hides))
<1>1. o.memory \cup ({l.lane.trace} \X (keys \cap l.lane.hides)) \in Memories
  BY DEF ObsRecords, Memories
<1>. QED
  BY <1>1 DEF ObsRecords, Remember

\* The events, what was spoken of and what was told, by the log and what is pending.
LEMMA AppendSpeaks ==
  ASSUME NEW o \in ObsRecords, NEW p \in ObsRecords, NEW ev \in Events,
         p.log = Append(o.log, ev)
  PROVE  /\ EventsOf(p) = EventsOf(o) \cup {ev}
         /\ Moves(o, p, MarkOf(ev.kind), ev.span, ev.to)
<1>. DEFINE n == Len(o.log)
            K == MarkOf(ev.kind)
<1>1. /\ o.log \in Seq(Events) /\ n \in Nat /\ DOMAIN o.log = 1..n /\ DOMAIN p.log = 1..(n + 1)
      /\ \A i \in 1..n : p.log[i] = o.log[i]
      /\ p.log[n + 1] = ev
  BY DEF ObsRecords
<1>. HIDE DEF n
<1>2. DOMAIN p.log = DOMAIN o.log \cup {n + 1} /\ n + 1 \notin DOMAIN o.log
  BY <1>1
<1>3. EventsOf(p) = EventsOf(o) \cup {ev}
  BY <1>1, <1>2 DEF EventsOf
<1>4. \A k, y : Marked(p, k, y) = Marked(o, k, y) \cup (IF k = K /\ y = ev.span THEN {n + 1} ELSE {})
  BY <1>1, <1>2 DEF Marked
<1>5. \A k, y : Marked(o, k, y) \subseteq DOMAIN o.log
  BY DEF Marked
<1>6. Moves(o, p, K, ev.span, ev.to)
  <2>. HIDE DEF K
  <2>. SUFFICES ASSUME NEW k \in {"begin", "end"}, NEW y \in Spans
                PROVE  /\ \A A \in SUBSET Everyone : ToldIn(o, k, y, A) =>
                            IF k = K /\ y = ev.span THEN A \cap ev.to = {} => ToldIn(p, k, y, A \cup ev.to)
                            ELSE ToldIn(p, k, y, A)
                       /\ ~(k = K /\ y = ev.span) => (SilentIn(o, k, y) => SilentIn(p, k, y))
    BY DEF Moves
  <2>. DEFINE I == Marked(o, k, y)
              J == Marked(p, k, y)
  <2>1. I \subseteq DOMAIN o.log /\ \A i \in I : p.log[i] = o.log[i]
    BY <1>1, <1>5
  <2>2. CASE k = K /\ y = ev.span
    <3>1. J = I \cup {n + 1} /\ n + 1 \notin I
      BY <1>2, <1>4, <1>5, <2>2
    <3>. HIDE DEF I, J
    <3>. SUFFICES ASSUME NEW A \in SUBSET Everyone, UNION {o.log[i].to : i \in I} = A,
                         \A i, j \in I : i # j => o.log[i].to \cap o.log[j].to = {},
                         A \cap ev.to = {}
                  PROVE  /\ UNION {p.log[i].to : i \in J} = A \cup ev.to
                         /\ \A i, j \in J : i # j => p.log[i].to \cap p.log[j].to = {}
      BY <2>2 DEF ToldIn, I, J
    <3>2. UNION {p.log[i].to : i \in J} = A \cup ev.to
      BY <1>1, <2>1, <3>1
    <3>3. ASSUME NEW i \in J, NEW j \in J, i # j
          PROVE  p.log[i].to \cap p.log[j].to = {}
      <4>1. CASE i \in I /\ j \in I
        BY <2>1, <3>3, <4>1
      <4>2. CASE i = n + 1
        <5>1. j \in I
          BY <3>1, <3>3, <4>2
        <5>. QED
          BY <1>1, <2>1, <4>2, <5>1
      <4>3. CASE j = n + 1
        <5>1. i \in I
          BY <3>1, <3>3, <4>3
        <5>. QED
          BY <1>1, <2>1, <4>3, <5>1
      <4>. QED
        BY <3>1, <3>3, <4>1, <4>2, <4>3
    <3>. QED
      BY <3>2, <3>3
  <2>3. CASE ~(k = K /\ y = ev.span)
    <3>1. J = I
      <4>1. J = I \cup (IF k = K /\ y = ev.span THEN {n + 1} ELSE {})
        BY <1>4
      <4>. QED
        BY <2>3, <4>1
    <3>. HIDE DEF I, J
    <3>2. \A A \in SUBSET Everyone : ToldIn(o, k, y, A) => ToldIn(p, k, y, A)
      BY <2>1, <3>1 DEF ToldIn, I, J
    <3>3. SilentIn(o, k, y) => SilentIn(p, k, y)
      BY <3>1 DEF SilentIn, I, J
    <3>. QED
      BY <2>3, <3>2, <3>3
  <2>. QED
    BY <2>2, <2>3
<1>. QED
  BY <1>3, <1>6

\* The event delivered.
EventIs(kind, span, to, detail) ==
  [kind |-> kind, span |-> span, to |-> to, carries |-> detail.carries, says |-> detail.says,
   decision |-> detail.decision]

\* An event about a span, delivered, tells of it.
LEMMA DeliverSpeaks ==
  ASSUME NEW o \in ObsRecords, NEW kind \in EventKinds, NEW span \in Spans, NEW to \in SUBSET Everyone,
         NEW detail, detail.carries \in SUBSET Key, detail.says \in SUBSET Key,
         detail.decision \in Decisions, NEW M,
         EventIs(kind, span, to, detail) \in QuietEvents \cup M
  PROVE  /\ Speaks(o, Deliver(o, kind, span, to, detail), MarkOf(kind), span, to, M)
         /\ Deliver(o, kind, span, to, detail).memory = o.memory
         /\ Deliver(o, kind, span, to, detail).pending = o.pending
<1>. DEFINE ev == EventIs(kind, span, to, detail)
            p == Deliver(o, kind, span, to, detail)
<1>1. ev \in Events
  BY DEF EventIs, Events
<1>2. p = [o EXCEPT !.log = Append(@, ev)]
  BY DEF Deliver, EventIs
<1>3. ev.kind = kind /\ ev.span = span /\ ev.to = to
  BY DEF EventIs
<1>. HIDE DEF ev, p
<1>4. p \in ObsRecords /\ p.log = Append(o.log, ev) /\ p.memory = o.memory /\ p.pending = o.pending
  <2>1. Append(o.log, ev) \in Seq(Events)
    BY <1>1 DEF ObsRecords
  <2>. QED
    BY <1>2, <2>1 DEF ObsRecords
<1>5. EventsOf(p) = EventsOf(o) \cup {ev} /\ Moves(o, p, MarkOf(kind), span, to)
  BY <1>1, <1>3, <1>4, AppendSpeaks
<1>6. Spoken(p) \subseteq Spoken(o) \cup {span}
  BY <1>3, <1>4, <1>5 DEF Spoken
<1>7. ev \in QuietEvents \cup M
  BY DEF ev
<1>. QED
  BY <1>4, <1>5, <1>6, <1>7 DEF Speaks, p

\* Quiet events are told about anything, to anybody.
LEMMA QuietSpeaks ==
  ASSUME NEW o, NEW p, NEW x, NEW T, NEW M, Speaks(o, p, "none", x, T, M), x \in Spoken(o), NEW y, NEW S
  PROVE  Speaks(o, p, "none", y, S, M)
<1>1. Moves(o, p, "none", y, S)
  BY DEF Speaks, Moves
<1>2. Spoken(p) \subseteq Spoken(o) \cup {y}
  BY DEF Speaks
<1>. QED
  BY <1>1, <1>2 DEF Speaks

\* A lane of a run as an operation sees it.
LaneFits(l) ==
  /\ l.run \in Spans /\ l.name \in Names /\ l.lane = LanesOf(l.run)[l.name] /\ Live(l.lane)
  /\ l.lane.trace \in Names \X Spans /\ l.lane.to \in SUBSET Everyone
  /\ l.lane.hides \in SUBSET Key /\ l.lane.hides = HidesOf(l.run)

\* What is noted of a decision is a decision.
LEMMA DecisionsAre ==
  /\ NoDecision \in Decisions
  /\ \A d \in Decisions, kind \in {"rejected", "taken"}, taken \in {"none", "rewind", "skip", "fail"} :
       Noted(d, kind, taken) \in Decisions
<1>1. NoDecision \in Decisions
  BY DEF NoDecision, Decisions
<1>2. ASSUME NEW d \in Decisions, NEW kind \in {"rejected", "taken"},
             NEW taken \in {"none", "rewind", "skip", "fail"}
      PROVE  Noted(d, kind, taken) \in Decisions
  <2>1. [d EXCEPT !.rejected = TRUE] \in Decisions
    BY DEF Decisions
  <2>2. [d EXCEPT !.taken = taken] \in Decisions
    BY DEF Decisions
  <2>. QED
    BY <2>1, <2>2 DEF Noted
<1>. QED
  BY <1>1, <1>2

\* The resolution of an execution that was pending.
LEMMA DeliverResolvedSpeaks ==
  ASSUME NEW o \in ObsRecords, NEW l, LaneFits(l), NEW e \in Spans, NEW d \in Decisions, NEW M
  PROVE  /\ Speaks(o, DeliverResolved(o, l, e, d), "none", e, Resolves(l), M)
         /\ DeliverResolved(o, l, e, d).memory = o.memory
<1>. DEFINE detail == [Quiet EXCEPT !.decision = d]
<1>1. detail.carries = {} /\ detail.says = {} /\ detail.decision = d
  BY DEF Quiet
<1>. HIDE DEF detail
<1>2. DeliverResolved(o, l, e, d) = Deliver(o, "resolved", e, Resolves(l), detail)
  BY DEF DeliverResolved, detail
<1>3. Resolves(l) \in SUBSET Everyone /\ "resolved" \in EventKinds
  BY DEF LaneFits, Resolves, EventKinds
<1>4. EventIs("resolved", e, Resolves(l), detail) \in QuietEvents
  BY <1>1, <1>3 DEF EventIs, QuietEvents, Events, MarkOf
<1>5. MarkOf("resolved") = "none"
  BY DEF MarkOf
<1>6. detail.carries \in SUBSET Key /\ detail.says \in SUBSET Key /\ detail.decision \in Decisions
  BY <1>1
<1>. QED
  BY <1>2, <1>3, <1>4, <1>5, <1>6, DeliverSpeaks

\* Resolving what is pending on a lane tells of no start and no end.
LEMMA ResolvePendingSpeaks ==
  ASSUME NEW o \in ObsRecords, NEW l, LaneFits(l), NEW x, NEW S, NEW M
  PROVE  /\ Speaks(o, ResolvePending(o, l), "none", x, S, M)
         /\ ResolvePending(o, l).memory = o.memory
<1>1. CASE PendingOf(o, l) = {}
  <2>1. ResolvePending(o, l) = o
    BY <1>1 DEF ResolvePending
  <2>. QED
    BY <2>1 DEF Speaks, Moves
<1>2. CASE PendingOf(o, l) # {}
  <2>. DEFINE q == CHOOSE q \in PendingOf(o, l) : TRUE
              rest == [o EXCEPT !.pending = @ \ {q}]
  <2>1. q \in o.pending
    BY <1>2 DEF PendingOf
  <2>2. q \in Pendings
    BY <2>1 DEF ObsRecords
  <2>. HIDE DEF q
  <2>3. q.span \in Spans /\ q.decision \in Decisions
    BY <2>2 DEF Pendings
  <2>4. /\ rest \in ObsRecords /\ rest.log = o.log /\ rest.memory = o.memory
        /\ rest.pending = o.pending \ {q}
    BY DEF ObsRecords
  <2>5. ResolvePending(o, l) = DeliverResolved(rest, l, q.span, q.decision)
    BY <1>2 DEF ResolvePending, q
  <2>. HIDE DEF rest
  <2>6. Speaks(rest, ResolvePending(o, l), "none", q.span, Resolves(l), M)
        /\ ResolvePending(o, l).memory = rest.memory
    BY <2>3, <2>4, <2>5, DeliverResolvedSpeaks
  <2>7. EventsOf(rest) = EventsOf(o)
    BY <2>4 DEF EventsOf
  <2>8. Spoken(rest) \cup {q.span} \subseteq Spoken(o)
    BY <2>1, <2>4, <2>7 DEF Spoken
  <2>9. \A k, y, A : (ToldIn(rest, k, y, A) <=> ToldIn(o, k, y, A)) /\ (SilentIn(rest, k, y) <=> SilentIn(o, k, y))
    BY <2>4 DEF ToldIn, SilentIn, Marked
  <2>10. Moves(o, ResolvePending(o, l), "none", x, S)
    BY <2>6, <2>9 DEF Speaks, Moves
  <2>. QED
    BY <2>4, <2>6, <2>7, <2>8, <2>10 DEF Speaks
<1>. QED
  BY <1>1, <1>2

\* Text that a lane removes: what its trace remembers in m and the writes it is shown with x.
Clean(says, x, lane, m) ==
  /\ Live(lane)
  /\ \A k \in says : <<lane.trace, k>> \notin m /\ (~IsRun(x) => k \notin Writes[StepOf(x)] \cap lane.hides)
BeginEvents(x) ==
  {ev \in Events : MarkOf(ev.kind) = "begin" /\ ev.span = x
                   /\ ev.carries \cap HidesOf(At(x)) = {} /\ ev.says = {}}
EndEvents(x, text, m) ==
  {ev \in Events : /\ MarkOf(ev.kind) = "end" /\ ev.span = x /\ ev.carries \cap HidesOf(At(x)) = {}
                   /\ ev.says \subseteq text
                   /\ \E name \in Names : Clean(ev.says, x, LanesOf(At(x))[name], m)}
RemembersIn(o, lane, keys) == \A k \in keys \cap lane.hides : <<lane.trace, k>> \in o.memory

\* A live lane of a run fits it.
LEMMA LaneIsFit ==
  ASSUME world \in Worlds, NEW r \in Spans, NEW name \in Names, Live(LanesOf(r)[name])
  PROVE  /\ LaneFits(Lane(r, name)) /\ Lane(r, name).run = r /\ Lane(r, name).name = name
         /\ Lane(r, name).lane = LanesOf(r)[name]
<1>1. /\ Lane(r, name).run = r /\ Lane(r, name).name = name
      /\ Lane(r, name).lane = LanesOf(r)[name]
  BY DEF Lane
<1>. QED
  BY <1>1, LiveLaneIs DEF LaneFits

\* Whatever is remembered first, what is said is said from there.
LEMMA RememberSpeaks ==
  ASSUME NEW o \in ObsRecords, NEW l, LaneFits(l), NEW keys \in SUBSET Key,
         NEW p, NEW K, NEW x, NEW T, NEW M, Speaks(Remember(o, l, keys), p, K, x, T, M)
  PROVE  Speaks(o, p, K, x, T, M) /\ RemembersIn(p, l.lane, keys)
<1>. DEFINE q == Remember(o, l, keys)
<1>1. /\ q \in ObsRecords /\ q.log = o.log /\ q.pending = o.pending
      /\ q.memory = o.memory \cup ({l.lane.trace} \X (keys \cap l.lane.hides))
  BY RememberIs DEF LaneFits
<1>. HIDE DEF q
<1>2. Speaks(q, p, K, x, T, M)
  BY DEF q
<1>3. /\ EventsOf(q) = EventsOf(o) /\ Spoken(q) = Spoken(o)
      /\ \A k, y, A : (ToldIn(q, k, y, A) <=> ToldIn(o, k, y, A)) /\ (SilentIn(q, k, y) <=> SilentIn(o, k, y))
  BY <1>1 DEF EventsOf, Spoken, ToldIn, SilentIn, Marked
<1>4. Moves(o, p, K, x, T)
  BY <1>2, <1>3 DEF Speaks, Moves
<1>5. RemembersIn(p, l.lane, keys)
  BY <1>1, <1>2 DEF RemembersIn, Speaks
<1>. QED
  BY <1>1, <1>2, <1>3, <1>4, <1>5 DEF Speaks
\* A run's start.
LEMMA RunStartedSpeaks ==
  ASSUME NEW o \in ObsRecords, NEW l, LaneFits(l), IsRun(l.run)
  PROVE  /\ Speaks(o, RunStartedOn(o, l), "begin", l.run, l.lane.to, BeginEvents(l.run))
         /\ RemembersIn(RunStartedOn(o, l), l.lane, Inputs[PipelineOf(l.run)])
<1>. DEFINE keys == Inputs[PipelineOf(l.run)]
            q == Remember(o, l, keys)
            detail == Carrying(Shown(l, keys))
<1>1. keys \in SUBSET Key
  BY ReadsAssumption DEF PipelineOf
<1>2. RunStartedOn(o, l) = Deliver(q, "runStarted", l.run, l.lane.to, detail)
  BY DEF RunStartedOn
<1>3. detail.carries = keys \ l.lane.hides /\ detail.says = {} /\ detail.decision = NoDecision
  BY DEF Carrying, Quiet, Shown
<1>. HIDE DEF keys, detail
<1>4. q \in ObsRecords
  BY <1>1, RememberIs DEF LaneFits
<1>5. /\ "runStarted" \in EventKinds /\ MarkOf("runStarted") = "begin" /\ l.run \in Spans
      /\ l.lane.to \in SUBSET Everyone /\ At(l.run) = l.run
  BY DEF EventKinds, MarkOf, LaneFits, At
<1>6. detail.carries \in SUBSET Key /\ detail.says \in SUBSET Key /\ detail.decision \in Decisions
  BY <1>1, <1>3, DecisionsAre
<1>7. EventIs("runStarted", l.run, l.lane.to, detail) \in BeginEvents(l.run)
  BY <1>3, <1>5, <1>6 DEF EventIs, BeginEvents, Events, LaneFits
<1>8. Speaks(q, RunStartedOn(o, l), "begin", l.run, l.lane.to, BeginEvents(l.run))
  <2>. HIDE DEF q
  <2>. QED
    BY <1>2, <1>4, <1>5, <1>6, <1>7, DeliverSpeaks
<1>. QED
  BY <1>1, <1>8, RememberSpeaks DEF keys

\* An execution as a lane of its run sees it.
ExecutionOn(l, e) == e \in Spans /\ ~IsRun(e) /\ StepOf(e) \in Step /\ RunOf(e) = l.run

\* An execution's start, and the resolution of the one before it.
LEMMA StartsSpeaks ==
  ASSUME NEW o \in ObsRecords, NEW l, LaneFits(l), NEW e, ExecutionOn(l, e)
  PROVE  /\ Speaks(o, Starts(o, l, e), "begin", e, l.lane.to, BeginEvents(e))
         /\ RemembersIn(Starts(o, l, e), l.lane, Reads[StepOf(e)])
<1>. DEFINE keys == Reads[StepOf(e)]
            q == Remember(o, l, keys)
            detail == Carrying(Shown(l, keys))
<1>1. keys \in SUBSET Key
  BY ReadsAssumption DEF ExecutionOn
<1>2. Starts(o, l, e) = Deliver(q, "started", e, l.lane.to, detail)
  BY DEF Starts
<1>3. detail.carries = keys \ l.lane.hides /\ detail.says = {} /\ detail.decision = NoDecision
  BY DEF Carrying, Quiet, Shown
<1>. HIDE DEF keys, detail
<1>4. q \in ObsRecords
  BY <1>1, RememberIs DEF LaneFits
<1>5. /\ "started" \in EventKinds /\ MarkOf("started") = "begin" /\ e \in Spans
      /\ l.lane.to \in SUBSET Everyone /\ At(e) = l.run
  BY DEF EventKinds, MarkOf, LaneFits, At, ExecutionOn
<1>6. detail.carries \in SUBSET Key /\ detail.says \in SUBSET Key /\ detail.decision \in Decisions
  BY <1>1, <1>3, DecisionsAre
<1>7. EventIs("started", e, l.lane.to, detail) \in BeginEvents(e)
  BY <1>3, <1>5, <1>6 DEF EventIs, BeginEvents, Events, LaneFits
<1>8. Speaks(q, Starts(o, l, e), "begin", e, l.lane.to, BeginEvents(e))
  <2>. HIDE DEF q
  <2>. QED
    BY <1>2, <1>4, <1>5, <1>6, <1>7, DeliverSpeaks
<1>. QED
  BY <1>1, <1>8, RememberSpeaks DEF keys

\* On a live lane the start of an execution is told once, to those the lane delivers to, and what the
\* execution reads is remembered.
LEMMA StartedSpeaks ==
  ASSUME NEW o \in ObsRecords, NEW l, LaneFits(l), NEW e, ExecutionOn(l, e)
  PROVE  /\ Speaks(o, StartedOn(o, l, e), "begin", e, l.lane.to, BeginEvents(e))
         /\ RemembersIn(StartedOn(o, l, e), l.lane, Reads[StepOf(e)])
<1>. DEFINE q == IF TopLevel(e) THEN ResolvePending(o, l) ELSE o
<1>1. Speaks(o, q, "none", e, {}, BeginEvents(e))
  <2>1. Speaks(o, o, "none", e, {}, BeginEvents(e))
    BY SpeaksNothing
  <2>2. Speaks(o, ResolvePending(o, l), "none", e, {}, BeginEvents(e))
    BY ResolvePendingSpeaks
  <2>. QED
    BY <2>1, <2>2
<1>2. StartedOn(o, l, e) = Starts(q, l, e)
  BY DEF StartedOn
<1>. HIDE DEF q
<1>3. q \in ObsRecords
  BY <1>1 DEF Speaks
<1>4. /\ Speaks(q, Starts(q, l, e), "begin", e, l.lane.to, BeginEvents(e))
      /\ RemembersIn(Starts(q, l, e), l.lane, Reads[StepOf(e)])
  BY <1>3, StartsSpeaks
<1>5. Speaks(o, Starts(q, l, e), "begin", e, l.lane.to, BeginEvents(e))
  BY <1>1, <1>4, SpeaksAfterQuiet
<1>. QED
  BY <1>2, <1>4, <1>5

\* An execution's end, and its resolution if it is at once.
LEMMA FinishesSpeaks ==
  ASSUME NEW o \in ObsRecords, NEW l, LaneFits(l), NEW e, ExecutionOn(l, e),
         NEW succeeded \in BOOLEAN, NEW text \in SUBSET Key
  PROVE  /\ Speaks(o, Finishes(o, l, e, succeeded, text), "end", e, l.lane.to, EndEvents(e, text, o.memory))
         /\ RemembersIn(Finishes(o, l, e, succeeded, text), l.lane, Writes[StepOf(e)])
<1>. DEFINE writes == Writes[StepOf(e)]
            q == Remember(o, l, writes)
            keys == Reads[StepOf(e)] \cup (IF succeeded THEN writes ELSE {})
            detail == [Quiet EXCEPT !.carries = Shown(l, keys), !.says = Scrub(q, l, text)]
<1>1. keys \in SUBSET Key /\ writes \in SUBSET Key
  BY ReadsAssumption DEF ExecutionOn
<1>2. Finishes(o, l, e, succeeded, text) = Deliver(q, "finished", e, l.lane.to, detail)
  BY DEF Finishes
<1>3. detail.carries = keys \ l.lane.hides /\ detail.says = Scrub(q, l, text) /\ detail.decision = NoDecision
  BY DEF Quiet, Shown
<1>. HIDE DEF keys, detail
<1>4. /\ q \in ObsRecords
      /\ q.memory = o.memory \cup ({l.lane.trace} \X (writes \cap l.lane.hides))
  BY <1>1, RememberIs DEF LaneFits
<1>5. Scrub(q, l, text) \subseteq text /\ Clean(Scrub(q, l, text), e, l.lane, o.memory)
  BY <1>4 DEF Scrub, Clean, LaneFits
<1>. HIDE DEF writes
<1>6. /\ "finished" \in EventKinds /\ MarkOf("finished") = "end" /\ e \in Spans
      /\ l.lane.to \in SUBSET Everyone /\ At(e) = l.run
  BY DEF EventKinds, MarkOf, LaneFits, At, ExecutionOn
<1>7. detail.carries \in SUBSET Key /\ detail.says \in SUBSET Key /\ detail.decision \in Decisions
  BY <1>1, <1>3, <1>5, DecisionsAre
<1>8. EventIs("finished", e, l.lane.to, detail) \in EndEvents(e, text, o.memory)
  <2>. DEFINE ev == EventIs("finished", e, l.lane.to, detail)
  <2>1. ev \in Events
    BY <1>6, <1>7 DEF EventIs, Events
  <2>2. ev.kind = "finished" /\ ev.span = e /\ ev.carries = detail.carries /\ ev.says = detail.says
    BY DEF EventIs
  <2>. HIDE DEF ev
  <2>3. ev.carries \cap HidesOf(At(e)) = {}
    BY <1>3, <1>6, <2>2 DEF LaneFits
  <2>4. \E name \in Names : Clean(ev.says, e, LanesOf(At(e))[name], o.memory)
    BY <1>3, <1>5, <1>6, <2>2 DEF LaneFits
  <2>5. ev.says \subseteq text
    BY <1>3, <1>5, <2>2
  <2>. QED
    BY <1>6, <2>1, <2>2, <2>3, <2>4, <2>5 DEF EndEvents, ev
<1>9. Speaks(q, Finishes(o, l, e, succeeded, text), "end", e, l.lane.to, EndEvents(e, text, o.memory))
  <2>. HIDE DEF q
  <2>. QED
    BY <1>2, <1>4, <1>6, <1>7, <1>8, DeliverSpeaks
<1>. QED
  BY <1>1, <1>9, RememberSpeaks DEF writes

\* On a live lane the end of an execution is told once, and what it wrote is remembered.
LEMMA FinishedSpeaks ==
  ASSUME NEW o \in ObsRecords, NEW l, LaneFits(l), NEW e, ExecutionOn(l, e),
         NEW succeeded \in BOOLEAN, NEW text \in SUBSET Key
  PROVE  /\ Speaks(o, FinishedOn(o, l, e, succeeded, text), "end", e, l.lane.to, EndEvents(e, text, o.memory))
         /\ RemembersIn(FinishedOn(o, l, e, succeeded, text), l.lane, Writes[StepOf(e)])
<1>. DEFINE told == Finishes(o, l, e, succeeded, text)
            M == EndEvents(e, text, o.memory)
            T == l.lane.to
<1>1. Speaks(o, told, "end", e, T, M) /\ RemembersIn(told, l.lane, Writes[StepOf(e)])
  BY FinishesSpeaks
<1>. HIDE DEF M
<1>2. told \in ObsRecords /\ T \in SUBSET Everyone /\ e \in Spans
  BY <1>1 DEF Speaks, LaneFits, ExecutionOn
<1>3. CASE Resolves(l) = {}
  BY <1>1, <1>3 DEF FinishedOn, M
<1>4. CASE Resolves(l) # {} /\ ~TopLevel(e)
  <2>. DEFINE p == DeliverResolved(told, l, e, NoDecision)
  <2>1. FinishedOn(o, l, e, succeeded, text) = p
    BY <1>4 DEF FinishedOn
  <2>. HIDE DEF told
  <2>2. Speaks(told, p, "none", e, Resolves(l), M) /\ p.memory = told.memory
    BY <1>2, DecisionsAre, DeliverResolvedSpeaks
  <2>. HIDE DEF p
  <2>3. Speaks(o, p, "end", e, T, M)
    BY <1>1, <1>2, <2>2, SpeaksThenQuiet
  <2>4. RemembersIn(p, l.lane, Writes[StepOf(e)])
    BY <1>1, <2>2 DEF RemembersIn
  <2>. QED
    BY <2>1, <2>3, <2>4 DEF M
<1>5. CASE Resolves(l) # {} /\ TopLevel(e)
  <2>. DEFINE new == [run |-> l.run, lane |-> l.name, span |-> e, decision |-> NoDecision]
              rest == (told.pending \ PendingOf(told, l)) \cup {new}
              p == [told EXCEPT !.pending = rest]
  <2>1. FinishedOn(o, l, e, succeeded, text) = p
    BY <1>5 DEF FinishedOn
  <2>2. new \in Pendings /\ new.span = e
    BY <1>2, DecisionsAre DEF Pendings, LaneFits
  <2>. HIDE DEF told, new
  <2>3. told.pending \in SUBSET Pendings
    BY <1>2 DEF ObsRecords
  <2>4. rest \in SUBSET Pendings
    BY <2>2, <2>3
  <2>5. {q.span : q \in rest} \subseteq {q.span : q \in told.pending} \cup {e}
    BY <2>2
  <2>. HIDE DEF rest
  <2>6. p \in ObsRecords /\ p.log = told.log /\ p.memory = told.memory /\ p.pending = rest
    BY <1>2, <2>4 DEF ObsRecords
  <2>. HIDE DEF p
  <2>7. EventsOf(p) = EventsOf(told) /\ Spoken(p) \subseteq Spoken(told) \cup {e}
    BY <2>5, <2>6 DEF EventsOf, Spoken
  <2>8. Moves(told, p, "none", e, {})
    <3>1. \A k, y, A : (ToldIn(told, k, y, A) <=> ToldIn(p, k, y, A)) /\ (SilentIn(told, k, y) <=> SilentIn(p, k, y))
      BY <2>6 DEF ToldIn, SilentIn, Marked
    <3>. QED
      BY <3>1 DEF Moves
  <2>9. Speaks(told, p, "none", e, {}, M)
    BY <2>6, <2>7, <2>8 DEF Speaks
  <2>10. Speaks(o, p, "end", e, T, M)
    BY <1>1, <1>2, <2>9, SpeaksThenQuiet
  <2>11. RemembersIn(p, l.lane, Writes[StepOf(e)])
    BY <1>1, <2>6 DEF RemembersIn
  <2>. QED
    BY <2>1, <2>10, <2>11 DEF M
<1>. QED
  BY <1>3, <1>4, <1>5

\* A run's end, after the resolution of its last execution.
LEMMA RunFinishedSpeaks ==
  ASSUME NEW o \in ObsRecords, NEW l, LaneFits(l), IsRun(l.run), NEW text \in SUBSET Key
  PROVE  Speaks(o, RunFinishedOn(o, l, text), "end", l.run, l.lane.to, EndEvents(l.run, text, o.memory))
<1>. DEFINE detail == [Quiet EXCEPT !.says = Scrub(o, l, text)]
            q == ResolvePending(o, l)
            M == EndEvents(l.run, text, o.memory)
<1>1. RunFinishedOn(o, l, text) = Deliver(q, "runFinished", l.run, l.lane.to, detail)
  BY DEF RunFinishedOn
<1>2. detail.carries = {} /\ detail.says = Scrub(o, l, text) /\ detail.decision = NoDecision
  BY DEF Quiet
<1>3. Scrub(o, l, text) \subseteq text /\ Clean(Scrub(o, l, text), l.run, l.lane, o.memory)
  BY DEF Scrub, Clean, LaneFits
<1>. HIDE DEF detail
<1>4. Speaks(o, q, "none", l.run, {}, M)
  BY ResolvePendingSpeaks
<1>5. /\ "runFinished" \in EventKinds /\ MarkOf("runFinished") = "end" /\ l.run \in Spans
      /\ l.lane.to \in SUBSET Everyone /\ At(l.run) = l.run
  BY DEF EventKinds, MarkOf, LaneFits, At
<1>6. detail.carries \in SUBSET Key /\ detail.says \in SUBSET Key /\ detail.decision \in Decisions
  BY <1>2, <1>3, DecisionsAre
<1>7. EventIs("runFinished", l.run, l.lane.to, detail) \in M
  <2>. DEFINE ev == EventIs("runFinished", l.run, l.lane.to, detail)
  <2>1. ev \in Events
    BY <1>5, <1>6 DEF EventIs, Events
  <2>2. ev.kind = "runFinished" /\ ev.span = l.run /\ ev.carries = {} /\ ev.says = Scrub(o, l, text)
    BY <1>2 DEF EventIs
  <2>. HIDE DEF ev
  <2>3. \E name \in Names : Clean(ev.says, l.run, LanesOf(At(l.run))[name], o.memory)
    BY <1>3, <1>5, <2>2 DEF LaneFits
  <2>. QED
    BY <1>3, <1>5, <2>1, <2>2, <2>3 DEF EndEvents, ev
<1>. HIDE DEF q, M
<1>8. q \in ObsRecords
  BY <1>4 DEF Speaks
<1>9. Speaks(q, RunFinishedOn(o, l, text), "end", l.run, l.lane.to, M)
  BY <1>1, <1>5, <1>6, <1>7, <1>8, DeliverSpeaks
<1>10. Speaks(o, RunFinishedOn(o, l, text), "end", l.run, l.lane.to, M)
  BY <1>4, <1>9, SpeaksAfterQuiet
<1>. QED
  BY <1>10 DEF M

\* A decision.
LEMMA DecidedSpeaks ==
  ASSUME NEW o \in ObsRecords, NEW l, LaneFits(l), NEW kind \in {"rejected", "taken"},
         NEW taken \in {"none", "rewind", "skip", "fail"}, NEW S
  PROVE  Speaks(o, DecidedOn(o, l, kind, taken), "none", l.run, S, {})
<1>. DEFINE mine == PendingOf(o, l)
            Note(q) == [q EXCEPT !.decision = Noted(@, kind, taken)]
            noted == {Note(q) : q \in mine}
            rest == (o.pending \ mine) \cup noted
            p == [o EXCEPT !.pending = rest]
            T == l.lane.to \cap TransitionObserver
            detail == [Quiet EXCEPT !.decision = Noted(NoDecision, kind, taken)]
<1>1. DecidedOn(o, l, kind, taken) = Deliver(p, kind, l.run, T, detail)
  BY DEF DecidedOn
<1>2. detail.carries = {} /\ detail.says = {} /\ detail.decision \in Decisions
  BY DecisionsAre DEF Quiet
<1>. HIDE DEF detail
<1>3. o.pending \in SUBSET Pendings /\ mine \subseteq o.pending
  BY DEF ObsRecords, PendingOf
<1>4. ASSUME NEW q \in mine
      PROVE  Note(q) \in Pendings /\ Note(q).span = q.span
  <2>1. q \in Pendings
    BY <1>3
  <2>2. Noted(q.decision, kind, taken) \in Decisions
    BY <2>1, DecisionsAre DEF Pendings
  <2>. QED
    BY <2>1, <2>2 DEF Pendings
<1>. HIDE DEF mine, Note
<1>5. rest \in SUBSET Pendings
  BY <1>3, <1>4
<1>6. {q.span : q \in rest} \subseteq {q.span : q \in o.pending}
  BY <1>3, <1>4
<1>. HIDE DEF rest
<1>7. p \in ObsRecords /\ p.log = o.log /\ p.memory = o.memory /\ p.pending = rest
  BY <1>5 DEF ObsRecords
<1>. HIDE DEF p
<1>8. EventsOf(p) = EventsOf(o) /\ Spoken(p) \subseteq Spoken(o)
  BY <1>6, <1>7 DEF EventsOf, Spoken
<1>9. \A k, y, A : (ToldIn(o, k, y, A) <=> ToldIn(p, k, y, A)) /\ (SilentIn(o, k, y) <=> SilentIn(p, k, y))
  BY <1>7 DEF ToldIn, SilentIn, Marked
<1>10. Moves(o, p, "none", l.run, {})
  BY <1>9 DEF Moves
<1>11. Speaks(o, p, "none", l.run, {}, {})
  BY <1>7, <1>8, <1>10 DEF Speaks
<1>12. kind \in EventKinds /\ MarkOf(kind) = "none" /\ l.run \in Spans /\ T \in SUBSET Everyone
  BY DEF EventKinds, MarkOf, LaneFits
<1>13. EventIs(kind, l.run, T, detail) \in QuietEvents
  BY <1>2, <1>12 DEF EventIs, QuietEvents, Events
<1>. HIDE DEF T
<1>14. Speaks(p, Deliver(p, kind, l.run, T, detail), "none", l.run, T, {})
  BY <1>2, <1>7, <1>12, <1>13, DeliverSpeaks
<1>15. Speaks(o, Deliver(p, kind, l.run, T, detail), "none", l.run, T, {})
  BY <1>11, <1>14, SpeaksAfterQuiet
<1>16. Moves(o, Deliver(p, kind, l.run, T, detail), "none", l.run, S)
  BY <1>15 DEF Speaks, Moves
<1>. QED
  BY <1>1, <1>15, <1>16 DEF Speaks

\* Two lanes tell of one thing to the observers of both.
LEMMA SpeaksMore ==
  ASSUME NEW o, NEW p, NEW K, NEW x, NEW T, NEW M, NEW N, M \subseteq N, Speaks(o, p, K, x, T, M)
  PROVE  Speaks(o, p, K, x, T, N)
  BY DEF Speaks

\* What both lanes of a run say is said to its whole audience.
LEMMA BothLanes ==
  ASSUME world \in Worlds, NEW o \in ObsRecords, NEW r \in Spans, NEW q, NEW p, NEW K, NEW x, NEW M,
         Live(LanesOf(r).own) => Speaks(o, q, K, x, LanesOf(r).own.to, M),
         ~Live(LanesOf(r).own) => q = o,
         Live(LanesOf(r).recording) => Speaks(q, p, K, x, LanesOf(r).recording.to, M),
         ~Live(LanesOf(r).recording) => p = q
  PROVE  Speaks(o, p, K, x, Watchers(r), M)
<1>. DEFINE S == To(LanesOf(r).own)
            T == To(LanesOf(r).recording)
<1>1. S \in SUBSET Everyone /\ T \in SUBSET Everyone
  BY LiveLaneIs DEF To, Names
<1>2. S \cup T = Watchers(r) /\ S \cap T = {}
  BY LanesSplit
<1>3. Speaks(o, q, K, x, S, M)
  BY SpeaksNothing DEF To
<1>4. q \in ObsRecords
  BY <1>3 DEF Speaks
<1>5. Speaks(q, p, K, x, T, M)
  BY <1>4, SpeaksNothing DEF To
<1>. HIDE DEF S, T
<1>6. Speaks(o, p, K, x, S \cup T, M)
  BY <1>1, <1>2, <1>3, <1>5, SpeaksTwice
<1>. QED
  BY <1>2, <1>6

\* Both lanes remember what each is shown.
RememberedBy(p, r, keys) ==
  \A name \in Names : Live(LanesOf(r)[name]) => RemembersIn(p, LanesOf(r)[name], keys)

\* A lane of a run remembers the keys that the tellings over both its lanes remember.
LEMMA BothRemember ==
  ASSUME NEW o, NEW r \in Spans, NEW q, NEW p, NEW keys,
         Live(LanesOf(r).own) => RemembersIn(q, LanesOf(r).own, keys),
         Live(LanesOf(r).recording) => RemembersIn(p, LanesOf(r).recording, keys),
         q.memory \subseteq p.memory
  PROVE  RememberedBy(p, r, keys)
  BY DEF RememberedBy, Names, RemembersIn

\* The start of a run is told to its watchers, and its inputs are remembered.
LEMMA TellRunStartedSpeaks ==
  ASSUME world \in Worlds, NEW o \in ObsRecords, NEW r \in Spans, IsRun(r)
  PROVE  /\ Speaks(o, TellRunStarted(o, r), "begin", r, Watchers(r), BeginEvents(r))
         /\ RememberedBy(TellRunStarted(o, r), r, Inputs[PipelineOf(r)])
<1>. DEFINE own == LanesOf(r).own
            recording == LanesOf(r).recording
            keys == Inputs[PipelineOf(r)]
            M == BeginEvents(r)
            q == IF Live(own) THEN RunStartedOn(o, Lane(r, "own")) ELSE o
            p == IF Live(recording) THEN RunStartedOn(q, Lane(r, "recording")) ELSE q
<1>1. TellRunStarted(o, r) = p
  BY DEF TellRunStarted, OverLanes, OnLane, Lane
<1>2. "own" \in Names /\ "recording" \in Names
  BY DEF Names
<1>3. Live(own) => Speaks(o, q, "begin", r, own.to, M) /\ RemembersIn(q, own, keys)
  BY <1>2, LaneIsFit, RunStartedSpeaks
<1>4. q \in ObsRecords
  BY <1>3 DEF Speaks
<1>. HIDE DEF q
<1>5. Live(recording) => Speaks(q, p, "begin", r, recording.to, M) /\ RemembersIn(p, recording, keys)
  BY <1>2, <1>4, LaneIsFit, RunStartedSpeaks
<1>6. q.memory \subseteq p.memory
  BY <1>5 DEF Speaks
<1>7. (~Live(own) => q = o) /\ (~Live(recording) => p = q)
  BY DEF q
<1>. HIDE DEF p, M, keys
<1>8. Speaks(o, p, "begin", r, Watchers(r), M)
  BY <1>3, <1>5, <1>7, BothLanes
<1>9. RememberedBy(p, r, keys)
  BY <1>3, <1>5, <1>6, BothRemember
<1>. QED
  BY <1>1, <1>8, <1>9 DEF M, keys

\* An execution, by its span alone.
IsExecution(e) == e \in Spans /\ ~IsRun(e) /\ StepOf(e) \in Step

\* The start of an execution is told to the watchers of its run, and what it reads is remembered.
LEMMA TellStartedSpeaks ==
  ASSUME world \in Worlds, NEW o \in ObsRecords, NEW e, IsExecution(e)
  PROVE  /\ Speaks(o, TellStarted(o, e), "begin", e, Watchers(RunOf(e)), BeginEvents(e))
         /\ RememberedBy(TellStarted(o, e), RunOf(e), Reads[StepOf(e)])
<1>. DEFINE r == RunOf(e)
            own == LanesOf(r).own
            recording == LanesOf(r).recording
            keys == Reads[StepOf(e)]
            M == BeginEvents(e)
            q == IF Live(own) THEN StartedOn(o, Lane(r, "own"), e) ELSE o
            p == IF Live(recording) THEN StartedOn(q, Lane(r, "recording"), e) ELSE q
<1>1. TellStarted(o, e) = p
  BY DEF TellStarted, OverLanes, OnLane, Lane
<1>2. r \in Spans /\ "own" \in Names /\ "recording" \in Names
  BY RunOfIs DEF IsExecution, Names
<1>. HIDE DEF r
<1>3. \A name : Lane(r, name).run = r => ExecutionOn(Lane(r, name), e)
  BY DEF IsExecution, ExecutionOn, r
<1>4. Live(own) => Speaks(o, q, "begin", e, own.to, M) /\ RemembersIn(q, own, keys)
  BY <1>2, <1>3, LaneIsFit, StartedSpeaks
<1>5. q \in ObsRecords
  BY <1>4 DEF Speaks
<1>. HIDE DEF q
<1>6. Live(recording) => Speaks(q, p, "begin", e, recording.to, M) /\ RemembersIn(p, recording, keys)
  BY <1>2, <1>3, <1>5, LaneIsFit, StartedSpeaks
<1>7. q.memory \subseteq p.memory
  BY <1>6 DEF Speaks
<1>8. (~Live(own) => q = o) /\ (~Live(recording) => p = q)
  BY DEF q
<1>. HIDE DEF p, M, keys
<1>9. Speaks(o, p, "begin", e, Watchers(r), M)
  BY <1>2, <1>4, <1>6, <1>8, BothLanes
<1>10. RememberedBy(p, r, keys)
  BY <1>2, <1>4, <1>6, <1>7, BothRemember
<1>. QED
  BY <1>1, <1>9, <1>10 DEF M, keys, r

\* Less in memory removes less.
LEMMA EndEventsMore ==
  ASSUME NEW x, NEW text, NEW m, NEW n, m \subseteq n
  PROVE  EndEvents(x, text, n) \subseteq EndEvents(x, text, m)
  BY DEF EndEvents, Clean

\* The end of an execution is told to the watchers of its run, and what it wrote is remembered.
LEMMA TellFinishedSpeaks ==
  ASSUME world \in Worlds, NEW o \in ObsRecords, NEW e, IsExecution(e),
         NEW succeeded \in BOOLEAN, NEW text \in SUBSET Key
  PROVE  /\ Speaks(o, TellFinished(o, e, succeeded, text), "end", e, Watchers(RunOf(e)),
                   EndEvents(e, text, o.memory))
         /\ RememberedBy(TellFinished(o, e, succeeded, text), RunOf(e), Writes[StepOf(e)])
<1>. DEFINE r == RunOf(e)
            own == LanesOf(r).own
            recording == LanesOf(r).recording
            keys == Writes[StepOf(e)]
            M == EndEvents(e, text, o.memory)
            q == IF Live(own) THEN FinishedOn(o, Lane(r, "own"), e, succeeded, text) ELSE o
            p == IF Live(recording) THEN FinishedOn(q, Lane(r, "recording"), e, succeeded, text) ELSE q
<1>1. TellFinished(o, e, succeeded, text) = p
  BY DEF TellFinished, OverLanes, OnLane, Lane
<1>2. r \in Spans /\ "own" \in Names /\ "recording" \in Names
  BY RunOfIs DEF IsExecution, Names
<1>. HIDE DEF r
<1>3. \A name : Lane(r, name).run = r => ExecutionOn(Lane(r, name), e)
  BY DEF IsExecution, ExecutionOn, r
<1>4. Live(own) => Speaks(o, q, "end", e, own.to, M) /\ RemembersIn(q, own, keys)
  BY <1>2, <1>3, LaneIsFit, FinishedSpeaks
<1>5. q \in ObsRecords /\ o.memory \subseteq q.memory
  BY <1>4 DEF Speaks
<1>. HIDE DEF q
<1>6. Live(recording) => Speaks(q, p, "end", e, recording.to, EndEvents(e, text, q.memory))
                         /\ RemembersIn(p, recording, keys)
  BY <1>2, <1>3, <1>5, LaneIsFit, FinishedSpeaks
<1>7. EndEvents(e, text, q.memory) \subseteq M
  BY <1>5, EndEventsMore
<1>. HIDE DEF M
<1>8. Live(recording) => Speaks(q, p, "end", e, recording.to, M)
  BY <1>6, <1>7, SpeaksMore
<1>9. q.memory \subseteq p.memory
  BY <1>6 DEF Speaks
<1>10. (~Live(own) => q = o) /\ (~Live(recording) => p = q)
  BY DEF q
<1>. HIDE DEF p, keys
<1>11. Speaks(o, p, "end", e, Watchers(r), M)
  BY <1>2, <1>4, <1>8, <1>10, BothLanes
<1>12. RememberedBy(p, r, keys)
  BY <1>2, <1>4, <1>6, <1>9, BothRemember
<1>. QED
  BY <1>1, <1>11, <1>12 DEF M, keys, r

\* The end of a run is told to its watchers.
LEMMA TellRunFinishedSpeaks ==
  ASSUME world \in Worlds, NEW o \in ObsRecords, NEW r \in Spans, IsRun(r), NEW text \in SUBSET Key
  PROVE  Speaks(o, TellRunFinished(o, r, text), "end", r, Watchers(r), EndEvents(r, text, o.memory))
<1>. DEFINE own == LanesOf(r).own
            recording == LanesOf(r).recording
            M == EndEvents(r, text, o.memory)
            q == IF Live(own) THEN RunFinishedOn(o, Lane(r, "own"), text) ELSE o
            p == IF Live(recording) THEN RunFinishedOn(q, Lane(r, "recording"), text) ELSE q
<1>1. TellRunFinished(o, r, text) = p
  BY DEF TellRunFinished, OverLanes, OnLane, Lane
<1>2. "own" \in Names /\ "recording" \in Names
  BY DEF Names
<1>3. Live(own) => Speaks(o, q, "end", r, own.to, M)
  BY <1>2, LaneIsFit, RunFinishedSpeaks
<1>4. q \in ObsRecords /\ o.memory \subseteq q.memory
  BY <1>3 DEF Speaks
<1>. HIDE DEF q
<1>5. Live(recording) => Speaks(q, p, "end", r, recording.to, EndEvents(r, text, q.memory))
  BY <1>2, <1>4, LaneIsFit, RunFinishedSpeaks
<1>6. EndEvents(r, text, q.memory) \subseteq M
  BY <1>4, EndEventsMore
<1>. HIDE DEF M
<1>7. Live(recording) => Speaks(q, p, "end", r, recording.to, M)
  BY <1>5, <1>6, SpeaksMore
<1>8. (~Live(own) => q = o) /\ (~Live(recording) => p = q)
  BY DEF q
<1>. HIDE DEF p
<1>9. Speaks(o, p, "end", r, Watchers(r), M)
  BY <1>3, <1>7, <1>8, BothLanes
<1>. QED
  BY <1>1, <1>9 DEF M

\* What a flow decides is told as neither a start nor an end.
LEMMA TellDecisionSpeaks ==
  ASSUME world \in Worlds, NEW o \in ObsRecords, NEW r \in Spans, NEW kind \in {"rejected", "taken"},
         NEW taken \in {"none", "rewind", "skip", "fail"}
  PROVE  Speaks(o, TellDecision(o, r, kind, taken), "none", r, {}, {})
<1>. DEFINE own == LanesOf(r).own
            recording == LanesOf(r).recording
            q == IF Live(own) THEN DecidedOn(o, Lane(r, "own"), kind, taken) ELSE o
            p == IF Live(recording) THEN DecidedOn(q, Lane(r, "recording"), kind, taken) ELSE q
<1>1. TellDecision(o, r, kind, taken) = p
  BY DEF TellDecision, OverLanes, OnLane, Lane
<1>2. "own" \in Names /\ "recording" \in Names
  BY DEF Names
<1>3. Speaks(o, q, "none", r, {}, {})
  BY <1>2, LaneIsFit, DecidedSpeaks, SpeaksNothing
<1>4. q \in ObsRecords
  BY <1>3 DEF Speaks
<1>. HIDE DEF q
<1>5. Speaks(q, p, "none", r, {}, {})
  <2>1. CASE Live(recording)
    <3>1. LaneFits(Lane(r, "recording")) /\ Lane(r, "recording").run = r
      BY <1>2, <2>1, LaneIsFit
    <3>. QED
      BY <1>4, <2>1, <3>1, DecidedSpeaks
  <2>2. CASE ~Live(recording)
    BY <1>4, <2>2, SpeaksNothing
  <2>. QED
    BY <2>1, <2>2
<1>. HIDE DEF p
<1>6. Speaks(o, p, "none", r, {}, {})
  BY <1>3, <1>5, SpeaksAfterQuiet
<1>. QED
  BY <1>1, <1>6

\* A resolution is told as neither a start nor an end.
LEMMA TellResolvedSpeaks ==
  ASSUME world \in Worlds, NEW o \in ObsRecords, NEW r \in Spans
  PROVE  Speaks(o, TellResolved(o, r), "none", r, {}, {})
<1>. DEFINE own == LanesOf(r).own
            recording == LanesOf(r).recording
            q == IF Live(own) THEN ResolvePending(o, Lane(r, "own")) ELSE o
            p == IF Live(recording) THEN ResolvePending(q, Lane(r, "recording")) ELSE q
<1>1. TellResolved(o, r) = p
  BY DEF TellResolved, OverLanes, OnLane, Lane
<1>2. "own" \in Names /\ "recording" \in Names
  BY DEF Names
<1>3. Speaks(o, q, "none", r, {}, {})
  BY <1>2, LaneIsFit, ResolvePendingSpeaks, SpeaksNothing
<1>4. q \in ObsRecords
  BY <1>3 DEF Speaks
<1>. HIDE DEF q
<1>5. Speaks(q, p, "none", r, {}, {})
  <2>1. CASE Live(recording)
    <3>1. LaneFits(Lane(r, "recording")) /\ Lane(r, "recording").run = r
      BY <1>2, <2>1, LaneIsFit
    <3>. QED
      BY <1>4, <2>1, <3>1, ResolvePendingSpeaks
  <2>2. CASE ~Live(recording)
    BY <1>4, <2>2, SpeaksNothing
  <2>. QED
    BY <2>1, <2>2
<1>. HIDE DEF p
<1>6. Speaks(o, p, "none", r, {}, {})
  BY <1>3, <1>5, SpeaksAfterQuiet
<1>. QED
  BY <1>1, <1>6

-----------------------------------------------------------------------------
(* How runs and executions start and end.                                    *)

Marks == (Step \cup {"run"}) \X Nat

\* An execution is a span of a step.
LEMMA ExecutionsAre ==
  ASSUME TypeInv, SpansFit, NEW e \in Executions
  PROVE  IsExecution(e) /\ e \in DOMAIN status /\ e # RootRun /\ ExecutionFits(e)
<1>1. e \in DOMAIN status /\ ~IsRun(e) /\ e \in Spans
  BY DEF Executions, TypeInv
<1>2. e # RootRun
  BY <1>1 DEF IsRun
<1>3. ExecutionFits(e)
  BY <1>1, <1>2 DEF SpansFit
<1>. QED
  BY <1>1, <1>2, <1>3 DEF IsExecution, ExecutionFits

\* What a span was appended to has started, and what is within a span with it.
LEMMA ParentStarted ==
  ASSUME TypeInv, SpansFit, NEW x \in DOMAIN status, x # RootRun
  PROVE  /\ Parent(x) \in DOMAIN status /\ Parent(x) \in Spans /\ x \in Spans
         /\ Last(x) \in Marks /\ x = Append(Parent(x), Last(x))
         /\ Within(x, Parent(x)) /\ x # Parent(x)
<1>1. x \in Spans
  BY DEF TypeInv
<1>2. Parent(x) \in Spans /\ Last(x) \in Marks /\ x = Append(Parent(x), Last(x)) /\ Len(Parent(x)) = Len(x) - 1
  BY <1>1, SpanShape DEF RootRun, Marks
<1>3. Within(x, Parent(x))
  <2>. DEFINE p == Parent(x)
              a == Last(x)
  <2>1. p \in Spans /\ a \in (Step \cup {"run"}) \X Nat /\ x = Append(p, a)
    BY <1>2 DEF Marks
  <2>. HIDE DEF p, a
  <2>2. Within(p, p)
    BY <2>1, WithinSelf
  <2>3. Within(Append(p, a), p)
    BY <2>1, <2>2, WithinAppend
  <2>. QED
    BY <2>1, <2>3 DEF p
<1>4. Len(x) \in Nat /\ Len(Parent(x)) \in Nat
  BY <1>1, <1>2 DEF Spans
<1>5. SubSeq(x, 1, Len(Parent(x))) = Parent(x)
  BY <1>1, <1>2, <1>3, WithinIs
<1>6. Len(Parent(x)) \in 0..Len(x)
  BY <1>2, <1>4
<1>7. Parent(x) \in DOMAIN status
  BY <1>5, <1>6 DEF SpansFit
<1>8. x # Parent(x)
  BY <1>2, <1>4
<1>. QED
  BY <1>1, <1>2, <1>3, <1>7, <1>8

\* What is inside a span is within something that was appended to it.
LEMMA ChildAround ==
  ASSUME TypeInv, SpansFit, NEW x \in DOMAIN status, NEW y \in Inside(x)
  PROVE  \E c \in DOMAIN status : c # RootRun /\ Parent(c) = x /\ Within(y, c) /\ c \in Inside(x)
<1>1. y \in DOMAIN status /\ Within(y, x) /\ y # x /\ x \in Spans /\ y \in Spans
  BY DEF Inside, TypeInv
<1>2. Len(x) <= Len(y) /\ SubSeq(y, 1, Len(x)) = x /\ Len(x) \in Nat /\ Len(y) \in Nat
  BY <1>1, WithinIs DEF Spans
<1>3. SubSeq(y, 1, Len(y)) = y
  BY <1>1 DEF Spans
<1>4. Len(x) # Len(y)
  <2>1. ASSUME Len(x) = Len(y) PROVE FALSE
    BY ONLY <1>1, <1>2, <1>3, <2>1
  <2>. QED
    BY <2>1
<1>. DEFINE n == Len(x) + 1
            c == SubSeq(y, 1, n)
<1>5. n \in 0..Len(y) /\ n \in Nat /\ n # 0
  BY <1>2, <1>4
<1>. HIDE DEF n
<1>6. c \in Spans /\ Within(y, c) /\ Len(c) = n
  BY <1>1, <1>5, WithinPart
<1>7. c \in DOMAIN status
  BY <1>1, <1>5 DEF SpansFit
<1>8. SubSeq(c, 1, Len(x)) = SubSeq(y, 1, Len(x))
  BY <1>1, <1>2, <1>5, <1>6 DEF n, Spans
<1>. HIDE DEF c
<1>9. Parent(c) = SubSeq(c, 1, Len(x))
  <2>1. Len(c) - 1 = Len(x)
    BY <1>2, <1>6 DEF n
  <2>. QED
    BY <2>1 DEF Parent, Front
<1>10. c # RootRun /\ c # x
  BY <1>2, <1>5, <1>6 DEF RootRun, n
<1>11. Within(c, x)
  BY <1>2, <1>7, <1>8, <1>9, <1>10, ParentStarted
<1>. QED
  BY <1>2, <1>6, <1>7, <1>8, <1>9, <1>10, <1>11 DEF Inside

\* A span with nothing running appended to it has nothing running inside.
LEMMA NothingRuns ==
  ASSUME TypeInv, SpansFit, NEW x \in DOMAIN status,
         \A c \in DOMAIN status : c # RootRun /\ Parent(c) = x => status[c] # "running"
  PROVE  \A y \in Inside(x) : status[y] # "running"
<1>. SUFFICES ASSUME NEW y \in Inside(x), status[y] = "running" PROVE FALSE
  OBVIOUS
<1>1. PICK c \in DOMAIN status : c # RootRun /\ Parent(c) = x /\ Within(y, c)
  BY ChildAround
<1>2. y \in DOMAIN status
  BY DEF Inside
<1>3. status[c] = "running"
  BY <1>1, <1>2 DEF SpansFit
<1>. QED
  BY <1>1, <1>3

\* What ended has nothing running inside.
LEMMA EndedInside ==
  ASSUME SpansFit, NEW x \in DOMAIN status, status[x] # "running"
  PROVE  \A y \in Inside(x) : status[y] # "running"
  BY DEF SpansFit, Inside

\* The run of what was appended to a run or an execution is what it is told of at.
LEMMA AtAppend ==
  ASSUME NEW p \in Spans, NEW a \in Marks
  PROVE  RunOf(Append(p, a)) = At(p)
  BY RunOfAppend DEF At, Marks

\* The next execution of a step is a new one.
LEMMA NextIsNew ==
  ASSUME TypeInv, SpansFit, NEW p \in DOMAIN status, NEW s \in Step
  PROVE  LET e == NextExecution(At(p), p, s)
         IN /\ e \notin DOMAIN status /\ IsExecution(e) /\ e \in Spans
            /\ Parent(e) = p /\ StepOf(e) = s /\ RunOf(e) = At(p)
            /\ \E a \in Marks : e = Append(p, a)
            /\ Last(e)[2] = Cardinality(Alike(At(p), s)) + 1
            /\ IsFiniteSet(Alike(At(p), s)) /\ Cardinality(Alike(At(p), s)) \in Nat
<1>. DEFINE n == Cardinality(Alike(At(p), s))
            a == <<s, 1 + n>>
            e == NextExecution(At(p), p, s)
<1>1. p \in Spans
  BY DEF TypeInv
<1>2. IsFiniteSet(Alike(At(p), s)) /\ n \in Nat
  <2>1. Alike(At(p), s) \subseteq DOMAIN status
    BY DEF Alike, Executions
  <2>2. IsFiniteSet(Alike(At(p), s))
    BY <2>1, FS_Subset DEF TypeInv
  <2>. QED
    BY <2>2, FS_CardinalityType
<1>3. e = Append(p, a)
  BY DEF NextExecution, Alike
<1>. HIDE DEF n
<1>4. a \in Marks /\ a # RunMark /\ a[1] = s /\ a[2] = n + 1
  BY <1>2 DEF Marks, RunMark
<1>. HIDE DEF a, e
<1>5. e \in Spans /\ Parent(e) = p /\ Last(e) = a /\ ~IsRun(e)
  BY <1>1, <1>3, <1>4, SpanAppend DEF Marks
<1>6. RunOf(e) = At(p) /\ StepOf(e) = s
  BY <1>1, <1>3, <1>4, <1>5, AtAppend DEF StepOf
<1>7. ASSUME e \in DOMAIN status PROVE FALSE
  <2>1. e \in Executions
    BY <1>5, <1>7 DEF Executions
  <2>2. Last(e)[2] \in 1..Cardinality(Alike(RunOf(e), StepOf(e)))
    BY <2>1, ExecutionsAre DEF ExecutionFits
  <2>3. n + 1 \in 1..n
    BY <1>4, <1>5, <1>6, <2>2 DEF n
  <2>. QED
    BY <1>2, <2>3
<1>8. IsExecution(e)
  BY <1>5, <1>6 DEF IsExecution
<1>. QED
  BY <1>2, <1>3, <1>4, <1>5, <1>6, <1>7, <1>8 DEF e, n

\* The span that starts: the run, or one appended to a running span.
Appended(p, x) ==
  /\ p \in DOMAIN status /\ status[p] = "running" /\ x \in Spans
  /\ \E a \in Marks : x = Append(p, a)
Starting(x) ==
  /\ x \notin DOMAIN status
  /\ IF x = RootRun THEN DOMAIN status = {} ELSE \E p : Appended(p, x)

\* What a function is with one more argument.
LEMMA WithIs ==
  ASSUME NEW f, NEW x, NEW v
  PROVE  /\ DOMAIN With(f, x, v) = DOMAIN f \cup {x}
         /\ With(f, x, v)[x] = v
         /\ \A y \in DOMAIN f : y # x => With(f, x, v)[y] = f[y]
  BY DEF With

\* A function with one more argument maps into the same values.
LEMMA WithTyped ==
  ASSUME NEW f, NEW x, NEW T, NEW v \in T, f \in [DOMAIN f -> T]
  PROVE  With(f, x, v) \in [DOMAIN With(f, x, v) -> T]
  BY DEF With

\* What is around a new span is running.
LEMMA AroundStarting ==
  ASSUME TypeInv, SpansFit, NEW x \in Spans, Starting(x), NEW y \in DOMAIN status
  PROVE  /\ ~Within(y, x)
         /\ Within(x, y) => status[y] = "running"
<1>1. y \in Spans /\ y # x
  BY DEF TypeInv, Starting
<1>2. ~Within(y, x)
  <2>. SUFFICES ASSUME Within(y, x) PROVE FALSE
    OBVIOUS
  <2>1. SubSeq(y, 1, Len(x)) = x /\ Len(x) <= Len(y)
    BY <1>1, WithinIs
  <2>2. Len(x) \in 0..Len(y)
    BY <1>1, <2>1 DEF Spans
  <2>3. SubSeq(y, 1, Len(x)) \in DOMAIN status
    BY <2>2 DEF SpansFit
  <2>. QED
    BY <2>1, <2>3 DEF Starting
<1>3. ASSUME Within(x, y) PROVE status[y] = "running"
  <2>1. x # RootRun
    BY DEF Starting
  <2>2. PICK p : Appended(p, x)
    BY <2>1 DEF Starting
  <2>3. PICK a \in Marks : x = Append(p, a)
    BY <2>2 DEF Appended
  <2>4. p \in DOMAIN status /\ p \in Spans /\ status[p] = "running"
    BY <2>2 DEF Appended, TypeInv
  <2>5. Within(p, y)
    BY <1>1, <1>3, <2>3, <2>4, WithinAppend DEF Marks
  <2>. QED
    BY <2>4, <2>5 DEF SpansFit
<1>. QED
  BY <1>2, <1>3

\* Spans fit when one starts.
LEMMA SpansStart ==
  ASSUME TypeInv, SpansFit, NEW x \in Spans, Starting(x), NEW v \in Statuses,
         status' = With(status, x, v), world' = world,
         x # RootRun => IF IsRun(x) THEN RunFits(x) ELSE ExecutionFits(x)'
  PROVE  /\ SpansFit'
         /\ status' \in [DOMAIN status' -> Statuses] /\ DOMAIN status' \subseteq Spans
         /\ IsFiniteSet(DOMAIN status')
         /\ Executions' = Executions \cup (IF IsRun(x) THEN {} ELSE {x})
         /\ DOMAIN status' = DOMAIN status \cup {x} /\ status'[x] = v
         /\ \A y \in DOMAIN status : status'[y] = status[y]
<1>1. /\ DOMAIN status' = DOMAIN status \cup {x} /\ status'[x] = v
      /\ \A y \in DOMAIN status : status'[y] = status[y]
  BY DEF With, Starting
<1>2. status' \in [DOMAIN status' -> Statuses]
  BY WithTyped DEF TypeInv
<1>3. DOMAIN status' \subseteq Spans /\ IsFiniteSet(DOMAIN status')
  BY <1>1, FS_AddElement DEF TypeInv
<1>4. Executions' = Executions \cup (IF IsRun(x) THEN {} ELSE {x})
  BY <1>1 DEF Executions
<1>5. SpansFit'
  <2>1. RootRun \in DOMAIN status'
    <3>1. CASE x = RootRun
      BY <1>1, <3>1
    <3>2. CASE x # RootRun
      <4>1. DOMAIN status # {}
        BY <3>2 DEF Starting, Appended
      <4>. QED
        BY <1>1, <4>1 DEF SpansFit
    <3>. QED
      BY <3>1, <3>2
  <2>2. ASSUME NEW y \in DOMAIN status', y # RootRun
        PROVE  IF IsRun(y) THEN RunFits(y) ELSE ExecutionFits(y)'
    <3>1. CASE y = x
      BY <2>2, <3>1
    <3>2. CASE y # x
      <4>1. y \in DOMAIN status
        BY <1>1, <3>2
      <4>2. IF IsRun(y) THEN RunFits(y) ELSE ExecutionFits(y)
        BY <2>2, <4>1 DEF SpansFit
      <4>3. ASSUME ~IsRun(y) PROVE ExecutionFits(y)'
        <5>. DEFINE S == Alike(RunOf(y), StepOf(y))
        <5>1. ExecutionFits(y)
          BY <4>2, <4>3
        <5>2. S \subseteq S'
          BY <1>4 DEF Alike
        <5>3. IsFiniteSet(S') /\ IsFiniteSet(S)
          <6>1. S' \subseteq DOMAIN status' /\ S \subseteq DOMAIN status
            BY DEF Alike, Executions
          <6>. QED
            BY <1>3, <6>1, FS_Subset DEF TypeInv
        <5>4. Cardinality(S) <= Cardinality(S') /\ Cardinality(S) \in Nat /\ Cardinality(S') \in Nat
          <6>. HIDE DEF S
          <6>. QED
            BY <5>2, <5>3, FS_Subset, FS_CardinalityType
        <5>5. Last(y)[2] \in 1..Cardinality(S)
          BY <5>1 DEF ExecutionFits
        <5>6. Last(y)[2] \in 1..Cardinality(S')
          <6>. HIDE DEF S
          <6>. QED
            BY <5>4, <5>5
        <5>7. \A r : StepsOf(r)' = StepsOf(r)
          BY DEF StepsOf
        <5>. QED
          BY <5>1, <5>6, <5>7 DEF ExecutionFits
      <4>. QED
        BY <4>2, <4>3
    <3>. QED
      BY <3>1, <3>2
  <2>3. ASSUME NEW y \in DOMAIN status', NEW i \in 0..Len(y)
        PROVE  SubSeq(y, 1, i) \in DOMAIN status'
    <3>1. CASE y # x
      BY <1>1, <2>3, <3>1 DEF SpansFit
    <3>2. CASE y = x
      <4>0. x \in Spans
        OBVIOUS
      <4>1. CASE i = Len(x)
        <5>1. SubSeq(x, 1, Len(x)) = x
          BY <4>0 DEF Spans
        <5>. QED
          BY <1>1, <3>2, <4>1, <5>1
      <4>2. CASE i # Len(x)
        <5>1. x # RootRun
          <6>1. ASSUME x = RootRun PROVE FALSE
            <7>1. Len(x) = 0
              BY <6>1 DEF RootRun
            <7>. QED
              BY <2>3, <3>2, <4>2, <7>1
          <6>. QED
            BY <6>1
        <5>2. PICK p : Appended(p, x)
          BY <5>1 DEF Starting
        <5>3. PICK a \in Marks : x = Append(p, a)
          BY <5>2 DEF Appended
        <5>4. p \in DOMAIN status /\ p \in Spans
          BY <5>2 DEF Appended, TypeInv
        <5>5. Len(x) = Len(p) + 1 /\ Len(p) \in Nat /\ \A j \in 1..Len(p) : x[j] = p[j]
          BY <5>3, <5>4 DEF Spans
        <5>6. i \in 0..Len(p)
          BY <2>3, <3>2, <4>2, <5>5
        <5>7. SubSeq(x, 1, i) = SubSeq(p, 1, i)
          BY <5>5, <5>6 DEF Spans
        <5>. QED
          BY <1>1, <3>2, <5>4, <5>6, <5>7 DEF SpansFit
      <4>. QED
        BY <4>1, <4>2
    <3>. QED
      BY <3>1, <3>2
  <2>4. ASSUME NEW y \in DOMAIN status', NEW z \in DOMAIN status', Within(z, y), status'[z] = "running"
        PROVE  status'[y] = "running"
    <3>1. CASE y = x /\ z = x
      BY <2>4, <3>1
    <3>2. CASE y = x /\ z # x
      BY <1>1, <2>4, <3>2, AroundStarting
    <3>3. CASE y # x /\ z = x
      BY <1>1, <2>4, <3>3, AroundStarting
    <3>4. CASE y # x /\ z # x
      BY <1>1, <2>4, <3>4 DEF SpansFit
    <3>. QED
      BY <3>1, <3>2, <3>3, <3>4
  <2>5. \A y \in DOMAIN status' \ {RootRun} : IF IsRun(y) THEN RunFits(y) ELSE ExecutionFits(y)'
    BY <2>2
  <2>. QED
    BY <2>1, <2>3, <2>4, <2>5 DEF SpansFit, RunFits
<1>. QED
  BY <1>1, <1>2, <1>3, <1>4, <1>5

\* Spans fit when one ends inside which nothing runs, or a held one fails after all.
LEMMA SpansEnd ==
  ASSUME TypeInv, SpansFit, NEW x \in DOMAIN status, NEW v \in {"succeeded", "failed"},
         \A y \in Inside(x) : status[y] # "running",
         status' = [status EXCEPT ![x] = v], world' = world
  PROVE  /\ SpansFit'
         /\ status' \in [DOMAIN status' -> Statuses] /\ DOMAIN status' \subseteq Spans
         /\ IsFiniteSet(DOMAIN status')
         /\ Executions' = Executions /\ DOMAIN status' = DOMAIN status /\ status'[x] = v
         /\ \A y \in DOMAIN status : y # x => status'[y] = status[y]
<1>1. /\ DOMAIN status' = DOMAIN status /\ status'[x] = v
      /\ \A y \in DOMAIN status : y # x => status'[y] = status[y]
  BY DEF TypeInv
<1>2. status' \in [DOMAIN status' -> Statuses]
  BY DEF TypeInv, Statuses
<1>3. DOMAIN status' \subseteq Spans /\ IsFiniteSet(DOMAIN status')
  BY <1>1 DEF TypeInv
<1>4. Executions' = Executions
  BY <1>1 DEF Executions
<1>5. SpansFit'
  <2>1. \A y : ExecutionFits(y)' <=> ExecutionFits(y)
    <3>1. \A r : StepsOf(r)' = StepsOf(r)
      BY DEF StepsOf
    <3>2. \A r, s : Alike(r, s)' = Alike(r, s)
      BY <1>4 DEF Alike
    <3>. QED
      BY <3>1, <3>2 DEF ExecutionFits
  <2>2. ASSUME NEW y \in DOMAIN status', NEW z \in DOMAIN status', Within(z, y), status'[z] = "running"
        PROVE  status'[y] = "running"
    <3>1. z # x /\ status[z] = "running"
      BY <1>1, <2>2
    <3>2. status[y] = "running"
      BY <1>1, <2>2, <3>1 DEF SpansFit
    <3>3. y # x
      BY <1>1, <2>2, <3>1 DEF Inside
    <3>. QED
      BY <1>1, <3>2, <3>3
  <2>3. \A y \in DOMAIN status' : \A i \in 0..Len(y) : SubSeq(y, 1, i) \in DOMAIN status'
    BY <1>1 DEF SpansFit
  <2>4. \A y \in DOMAIN status' \ {RootRun} : IF IsRun(y) THEN RunFits(y) ELSE ExecutionFits(y)'
    BY <1>1, <2>1 DEF SpansFit
  <2>5. DOMAIN status' # {} => RootRun \in DOMAIN status'
    BY <1>1 DEF SpansFit
  <2>. QED
    BY <2>2, <2>3, <2>4, <2>5 DEF SpansFit, RunFits
<1>. QED
  BY <1>1, <1>2, <1>3, <1>4, <1>5

-----------------------------------------------------------------------------
(* How the flows of the runs move.                                           *)

\* The steps of a run are steps, and those of nested runs stand in no wrapper.
LEMMA StepsAre ==
  ASSUME world \in Worlds, NEW r
  PROVE  /\ StepsOf(r) \in Seq(Step) /\ Len(StepsOf(r)) \in Nat \ {0}
         /\ DOMAIN StepsOf(r) = 1..Len(StepsOf(r))
         /\ \A i \in DOMAIN StepsOf(r) :
              /\ StepsOf(r)[i] \in Step /\ StepsOf(r)[i] \in Range(StepsOf(r))
              /\ Wrappers[StepsOf(r)[i]] \in Nat
              /\ r # RootRun => StepsOf(r)[i] \in Inner /\ Wrappers[StepsOf(r)[i]] = 0
<1>1. StepsOf(r) \in Seq(Step) /\ StepsOf(r) # <<>>
  BY StructureAssumption DEF StepsOf
<1>2. IsInner(Inner)
  <2>1. \E S \in SUBSET Step : IsInner(S)
    BY StructureAssumption DEF IsInner
  <2>. QED
    BY <2>1 DEF Inner
<1>3. Len(StepsOf(r)) \in Nat \ {0} /\ DOMAIN StepsOf(r) = 1..Len(StepsOf(r))
  BY <1>1
<1>4. ASSUME NEW i \in DOMAIN StepsOf(r)
      PROVE  /\ StepsOf(r)[i] \in Step /\ StepsOf(r)[i] \in Range(StepsOf(r))
             /\ Wrappers[StepsOf(r)[i]] \in Nat
             /\ r # RootRun => StepsOf(r)[i] \in Inner /\ Wrappers[StepsOf(r)[i]] = 0
  <2>1. StepsOf(r)[i] \in Step /\ StepsOf(r)[i] \in Range(StepsOf(r))
    BY <1>1, <1>3, <1>4 DEF Range
  <2>2. Wrappers[StepsOf(r)[i]] \in Nat
    BY <2>1, StructureAssumption
  <2>3. r # RootRun => StepsOf(r)[i] \in Inner /\ Wrappers[StepsOf(r)[i]] = 0
    BY <1>2, <2>1 DEF StepsOf, IsInner
  <2>. QED
    BY <2>1, <2>2, <2>3
<1>. QED
  BY <1>1, <1>3, <1>4

\* The children of inner steps are inner steps.
LEMMA InnerIs == Inner \in SUBSET Step /\ IsInner(Inner)
<1>1. \E S \in SUBSET Step : IsInner(S)
  BY StructureAssumption DEF IsInner
<1>. QED
  BY <1>1 DEF Inner

\* A new execution, in a run or a composite that is running.
LEMMA ExecutionStarts ==
  ASSUME StructureInv, NEW p \in DOMAIN status, status[p] = "running", NEW s \in Step,
         NEW v \in Statuses, world' = world,
         IF IsRun(p) THEN s \in Range(StepsOf(p)) ELSE s \in Children[StepOf(p)],
         At(p) # RootRun => s \in Inner,
         NEW e, e = NextExecution(At(p), p, s), status' = With(status, e, v)
  PROVE  /\ Starting(e) /\ IsExecution(e) /\ Parent(e) = p /\ StepOf(e) = s /\ RunOf(e) = At(p)
         /\ SpansFit'
         /\ status' \in [DOMAIN status' -> Statuses] /\ DOMAIN status' \subseteq Spans
         /\ IsFiniteSet(DOMAIN status')
         /\ Executions' = Executions \cup {e} /\ e \notin Executions
         /\ DOMAIN status' = DOMAIN status \cup {e} /\ status'[e] = v
         /\ \A y \in DOMAIN status : status'[y] = status[y]
<1>1. TypeInv /\ SpansFit
  BY DEF StructureInv
<1>2. /\ e \notin DOMAIN status /\ IsExecution(e) /\ e \in Spans
      /\ Parent(e) = p /\ StepOf(e) = s /\ RunOf(e) = At(p)
      /\ \E a \in Marks : e = Append(p, a)
      /\ Last(e)[2] = Cardinality(Alike(At(p), s)) + 1
      /\ IsFiniteSet(Alike(At(p), s)) /\ Cardinality(Alike(At(p), s)) \in Nat
  BY <1>1, NextIsNew
<1>3. Starting(e)
  <2>1. e # RootRun
    BY <1>2 DEF IsExecution, IsRun
  <2>. QED
    BY <1>2, <2>1 DEF Starting, Appended
<1>4. ExecutionFits(e)'
  <2>1. Executions' = Executions \cup {e} /\ e \notin Executions
    BY <1>2 DEF Executions, With, IsExecution
  <2>2. Alike(At(p), s)' = Alike(At(p), s) \cup {e} /\ e \notin Alike(At(p), s)
    BY <1>2, <2>1 DEF Alike
  <2>3. Cardinality(Alike(At(p), s)') = Cardinality(Alike(At(p), s)) + 1
    BY <1>2, <2>2, FS_AddElement
  <2>4. Last(e)[2] \in 1..Cardinality(Alike(At(p), s)')
    BY <1>2, <2>3
  <2>5. \A r : StepsOf(r)' = StepsOf(r)
    BY DEF StepsOf
  <2>. QED
    BY <1>2, <2>4, <2>5 DEF ExecutionFits
<1>5. ~IsRun(e) /\ e \in Spans
  BY <1>2 DEF IsExecution
<1>. HIDE DEF StructureInv
<1>6. /\ SpansFit'
      /\ status' \in [DOMAIN status' -> Statuses] /\ DOMAIN status' \subseteq Spans
      /\ IsFiniteSet(DOMAIN status')
      /\ Executions' = Executions \cup (IF IsRun(e) THEN {} ELSE {e})
      /\ DOMAIN status' = DOMAIN status \cup {e} /\ status'[e] = v
      /\ \A y \in DOMAIN status : status'[y] = status[y]
  BY <1>1, <1>3, <1>4, <1>5, SpansStart
<1>7. e \notin Executions
  BY <1>2 DEF Executions
<1>. QED
  BY <1>2, <1>3, <1>5, <1>6, <1>7

\* The flow of a run stands where it does while others move.
LEMMA FlowStays ==
  ASSUME StructureInv, world' = world, NEW r \in DOMAIN flow, flow'[r] = flow[r],
         Executions \subseteq Executions', status'[r] = status[r],
         \A y \in Executions : Parent(y) = r => status'[y] = status[y],
         \A y \in Executions' : Parent(y) = r => y \in Executions,
         r = RootRun => held' = held
  PROVE  FlowFits(r, flow[r])'
<1>. DEFINE f == flow[r]
<1>1. FlowFits(r, f)
  BY DEF StructureInv, FlowInv
<1>2. \A q : StepsOf(q)' = StepsOf(q)
  BY DEF StepsOf
<1>3. world \in Worlds
  BY DEF StructureInv, TypeInv
<1>4. f.at \in DOMAIN StepsOf(r)
  BY <1>1 DEF FlowFits
<1>5. r # RootRun => f.phase \notin {"returned", "retry", "failing"}
  BY <1>1, <1>3, <1>4, StepsAre DEF FlowFits
<1>6. Visited(r, f) => Visited(r, f)'
  <2>. SUFFICES ASSUME Visited(r, f) PROVE Visited(r, f)'
    OBVIOUS
  <2>1. f.last \in Executions /\ Parent(f.last) = r
    BY DEF Visited
  <2>2. f.last \in Executions' /\ status'[f.last] = status[f.last]
    BY <2>1
  <2>3. f' = f
    OBVIOUS
  <2>4. r = RootRun => held' = held
    OBVIOUS
  <2>. HIDE DEF f
  <2>. QED
    BY <1>2, <1>5, <2>1, <2>2, <2>3, <2>4 DEF Visited
<1>7. f' = f
  OBVIOUS
<1>. HIDE DEF f
<1>8. FlowFits(r, f)'
  BY <1>1, <1>2, <1>6, <1>7 DEF FlowFits
<1>. QED
  BY <1>8 DEF f

\* What is held stays held while other runs move.
LEMMA HeldStays ==
  ASSUME StructureInv, world' = world, Executions \subseteq Executions', held' = held,
         held # NoSpan => flow'[RootRun] = flow[RootRun] /\ status'[held] = status[held]
  PROVE  HeldFits'
<1>1. HeldFits
  BY DEF StructureInv, FlowInv
<1>2. StepsOf(RootRun)' = StepsOf(RootRun)
  BY DEF StepsOf
<1>. QED
  BY <1>1, <1>2 DEF HeldFits

\* The spans after a step, and what a step of run r may change of them.
SpansTyped ==
  /\ SpansFit
  /\ status \in [DOMAIN status -> Statuses] /\ DOMAIN status \subseteq Spans /\ IsFiniteSet(DOMAIN status)
MovesOnly(r) ==
  /\ world' = world
  /\ {x \in DOMAIN status' : IsRun(x)} = DOMAIN flow
  /\ DOMAIN status \subseteq DOMAIN status'
  /\ \A y \in Executions' \ Executions : Parent(y) = r
  /\ \A y \in DOMAIN status : status'[y] # status[y] => y \in Executions /\ Parent(y) = r
  /\ r # RootRun => held' = held
DecidedTyped == decided \in [DOMAIN decided -> Decisions] /\ DOMAIN decided \subseteq Executions

\* A step of one run keeps the structure if it does of that run.
LEMMA RunMoves ==
  ASSUME StructureInv, NEW r \in DOMAIN flow, NEW g \in Flows, flow' = [flow EXCEPT ![r] = g],
         SpansTyped', MovesOnly(r), DecidedTyped', held' \in Spans,
         FlowFits(r, g)', r = RootRun => HeldFits'
  PROVE  StructureInv'
<1>1. TypeInv /\ SpansFit /\ FlowInv
  BY DEF StructureInv
<1>2. /\ DOMAIN flow' = DOMAIN flow /\ flow'[r] = g
      /\ \A q \in DOMAIN flow : q # r => flow'[q] = flow[q]
  BY <1>1 DEF TypeInv
<1>3. flow' \in [DOMAIN flow' -> Flows]
  BY <1>1, <1>2 DEF TypeInv
<1>4. world \in Worlds /\ world' = world
  BY <1>1 DEF TypeInv, MovesOnly
<1>5. TypeInv'
  <2>1. DOMAIN flow' = {x \in DOMAIN status' : IsRun(x)}
    BY <1>2 DEF MovesOnly
  <2>. QED
    BY <1>3, <1>4, <2>1 DEF TypeInv, SpansTyped, DecidedTyped
<1>6. Executions \subseteq Executions'
  BY DEF Executions, MovesOnly
<1>7. \A q \in DOMAIN flow : q \in DOMAIN status /\ IsRun(q)
  BY <1>1 DEF TypeInv
<1>8. ASSUME NEW q \in DOMAIN flow, q # r
      PROVE  FlowFits(q, flow[q])'
  <2>1. status'[q] = status[q]
    BY <1>7, <1>8 DEF MovesOnly, Executions
  <2>2. \A y \in Executions : Parent(y) = q => status'[y] = status[y]
    BY <1>8 DEF MovesOnly, Executions
  <2>3. \A y \in Executions' : Parent(y) = q => y \in Executions
    BY <1>8 DEF MovesOnly
  <2>4. q = RootRun => held' = held
    BY <1>8 DEF MovesOnly
  <2>. HIDE DEF StructureInv
  <2>. QED
    BY <1>2, <1>4, <1>6, <1>8, <2>1, <2>2, <2>3, <2>4, FlowStays
<1>9. HeldFits'
  <2>1. CASE r = RootRun
    BY <2>1
  <2>2. CASE r # RootRun
    <3>1. held' = held
      BY <2>2 DEF MovesOnly
    <3>2. ASSUME held # NoSpan
          PROVE  flow'[RootRun] = flow[RootRun] /\ status'[held] = status[held]
      <4>1. held \in Executions /\ Parent(held) = RootRun
        BY <1>1, <3>2 DEF FlowInv, HeldFits
      <4>2. status'[held] = status[held]
        BY <2>2, <4>1 DEF MovesOnly, Executions
      <4>3. RootRun \in DOMAIN flow
        <5>1. RootRun \in DOMAIN status
          BY <1>1, <4>1 DEF SpansFit, Executions
        <5>. QED
          BY <1>1, <5>1 DEF TypeInv, IsRun
      <4>. QED
        BY <1>2, <2>2, <4>2, <4>3
    <3>. HIDE DEF StructureInv
    <3>. QED
      BY <1>4, <1>6, <3>1, <3>2, HeldStays
  <2>. QED
    BY <2>1, <2>2
<1>10. FlowFits(r, flow[r])'
  BY <1>2
<1>11. \A q \in DOMAIN flow' : FlowFits(q, flow[q])'
  BY <1>2, <1>8, <1>10
<1>12. FlowInv'
  BY <1>9, <1>11 DEF FlowInv
<1>. QED
  BY <1>5, <1>12 DEF StructureInv, SpansTyped

\* The run a flow belongs to.
LEMMA FlowIs ==
  ASSUME StructureInv, NEW r \in DOMAIN flow
  PROVE  /\ world \in Worlds /\ r \in DOMAIN status /\ r \in Spans /\ IsRun(r) /\ At(r) = r
         /\ flow[r] \in Flows /\ FlowFits(r, flow[r]) /\ HeldFits
         /\ Current(r) = StepsOf(r)[flow[r].at] /\ Current(r) \in Step
         /\ Current(r) \in Range(StepsOf(r)) /\ Wrappers[Current(r)] \in Nat
         /\ r # RootRun => Current(r) \in Inner /\ ~Wrapped(r)
<1>1. TypeInv /\ FlowInv
  BY DEF StructureInv
<1>2. /\ world \in Worlds /\ r \in DOMAIN status /\ r \in Spans /\ IsRun(r) /\ At(r) = r
      /\ flow[r] \in Flows /\ FlowFits(r, flow[r]) /\ HeldFits
  BY <1>1 DEF TypeInv, FlowInv, At
<1>3. flow[r].at \in DOMAIN StepsOf(r)
  BY <1>2 DEF FlowFits
<1>. QED
  BY <1>2, <1>3, StepsAre DEF Current, Wrapped

\* A run's flow starts an execution.
LEMMA FlowStarts ==
  ASSUME StructureInv, NEW r \in DOMAIN flow, flow[r].phase \in {"visit", "retry"},
         NEW e, e = NextExecution(r, r, Current(r)), status' = With(status, e, "running"),
         NEW tries \in Nat,
         flow' = [flow EXCEPT ![r] = [[flow[r] EXCEPT !.phase = "running", !.last = e] EXCEPT !.tries = tries]],
         flow[r].phase = "retry" => Wrapped(r),
         UNCHANGED <<world, held, decided>>
  PROVE  StructureInv' /\ Starting(e) /\ IsExecution(e) /\ RunOf(e) = r /\ StepOf(e) = Current(r)
         /\ Parent(e) = r /\ DOMAIN status' = DOMAIN status \cup {e} /\ status'[e] = "running"
         /\ (\A y \in DOMAIN status : status'[y] = status[y])
<1>1. /\ world \in Worlds /\ r \in DOMAIN status /\ r \in Spans /\ IsRun(r) /\ At(r) = r
      /\ flow[r] \in Flows /\ FlowFits(r, flow[r]) /\ HeldFits
      /\ Current(r) = StepsOf(r)[flow[r].at] /\ Current(r) \in Step
      /\ Current(r) \in Range(StepsOf(r)) /\ Wrappers[Current(r)] \in Nat
      /\ r # RootRun => Current(r) \in Inner /\ ~Wrapped(r)
  BY FlowIs
<1>2. status[r] = "running"
  BY <1>1 DEF FlowFits
<1>3. /\ Starting(e) /\ IsExecution(e) /\ Parent(e) = r /\ StepOf(e) = Current(r) /\ RunOf(e) = r
      /\ SpansFit'
      /\ status' \in [DOMAIN status' -> Statuses] /\ DOMAIN status' \subseteq Spans
      /\ IsFiniteSet(DOMAIN status')
      /\ Executions' = Executions \cup {e} /\ e \notin Executions
      /\ DOMAIN status' = DOMAIN status \cup {e} /\ status'[e] = "running"
      /\ \A y \in DOMAIN status : status'[y] = status[y]
  <2>1. "running" \in Statuses
    BY DEF Statuses
  <2>. QED
    BY <1>1, <1>2, <2>1, ExecutionStarts
<1>4. SpansTyped'
  BY <1>3 DEF SpansTyped
<1>5. MovesOnly(r)
  <2>1. {x \in DOMAIN status' : IsRun(x)} = DOMAIN flow
    BY <1>3 DEF StructureInv, TypeInv, IsExecution
  <2>. QED
    BY <1>3, <2>1 DEF MovesOnly
<1>6. DecidedTyped'
  BY <1>3 DEF StructureInv, TypeInv, DecidedTyped
<1>7. PICK g \in Flows : /\ g = [[flow[r] EXCEPT !.phase = "running", !.last = e] EXCEPT !.tries = tries]
                         /\ g.phase = "running" /\ g.last = e /\ g.at = flow[r].at
  <2>. DEFINE h == [[flow[r] EXCEPT !.phase = "running", !.last = e] EXCEPT !.tries = tries]
  <2>1. h \in Flows /\ h.phase = "running" /\ h.last = e /\ h.at = flow[r].at
    BY <1>1, <1>3 DEF Flows, Phases, IsExecution
  <2>. QED
    BY <2>1
<1>8. FlowFits(r, g)'
  <2>1. StepsOf(r)' = StepsOf(r)
    BY DEF StepsOf
  <2>2. \A x \in Executions' : Parent(x) = r /\ status'[x] = "running" => x = e
    <3>1. \A x \in Executions : Parent(x) = r => status[x] # "running"
      BY <1>1 DEF FlowFits
    <3>. QED
      BY <1>3, <3>1 DEF Executions
  <2>3. Visited(r, g)'
    BY <1>1, <1>3, <1>7, <2>1 DEF Visited
  <2>4. status'[r] = "running"
    BY <1>1, <1>2, <1>3
  <2>5. g.at \in DOMAIN StepsOf(r)'
    BY <1>1, <1>7, <2>1 DEF FlowFits
  <2>. QED
    BY <1>7, <2>1, <2>2, <2>3, <2>4, <2>5 DEF FlowFits
<1>9. ASSUME r = RootRun PROVE HeldFits'
  <2>. SUFFICES ASSUME held # NoSpan
                PROVE  /\ held \in Executions' /\ Parent(held) = RootRun /\ status'[held] = "succeeded"
                       /\ flow'[RootRun].phase \in {"running", "returned", "retry", "failing"}
                       /\ Wrappers[StepsOf(RootRun)'[flow'[RootRun].at]] > 0
                       /\ StepOf(held) = StepsOf(RootRun)'[flow'[RootRun].at]
    BY DEF HeldFits
  <2>1. /\ held \in Executions /\ Parent(held) = RootRun /\ status[held] = "succeeded"
        /\ flow[RootRun].phase \in {"running", "returned", "retry", "failing"}
        /\ Wrappers[StepsOf(RootRun)[flow[RootRun].at]] > 0
        /\ StepOf(held) = StepsOf(RootRun)[flow[RootRun].at]
    BY <1>1 DEF HeldFits
  <2>2. StepsOf(RootRun)' = StepsOf(RootRun)
    BY DEF StepsOf
  <2>3. flow'[RootRun] = g
    BY <1>7, <1>9 DEF StructureInv, TypeInv
  <2>4. held \in Executions' /\ status'[held] = "succeeded"
    BY <1>3, <2>1 DEF Executions
  <2>5. flow'[RootRun].phase = "running" /\ flow'[RootRun].at = flow[RootRun].at
    BY <1>7, <1>9, <2>3
  <2>6. StepsOf(RootRun)'[flow'[RootRun].at] = StepsOf(RootRun)[flow[RootRun].at]
    BY <2>2, <2>5
  <2>. HIDE DEF StructureInv
  <2>. QED
    BY ONLY <2>1, <2>4, <2>5, <2>6
<1>10. held' \in Spans
  BY DEF StructureInv, TypeInv
<1>11. flow' = [flow EXCEPT ![r] = g]
  BY <1>7
<1>. HIDE DEF StructureInv
<1>12. StructureInv'
  BY <1>4, <1>5, <1>6, <1>7, <1>8, <1>9, <1>10, <1>11, RunMoves
<1>. QED
  BY <1>3, <1>12

\* What a flow decides, and what it tells of that.
Directions == {"next", "again", "end", "fail"}
IsDecision(d) == d.decision \in Decisions /\ d.to \in Directions

\* The decision of a visit, and where it leads.
LEMMA DecisionIs ==
  ASSUME NEW rejected \in BOOLEAN, NEW taken \in {"none", "rewind", "skip", "fail"}, NEW to \in Directions
  PROVE  IsDecision(Decision(rejected, taken, to))
  BY DEF IsDecision, Decision, Decisions

\* The decisions of a flow are decisions.
LEMMA FlowDecides ==
  ASSUME NEW r, flow[r] \in Flows,
         NEW d \in SuccessDecisions(r) \cup FailureDecisions(r)
  PROVE  IsDecision(d)
<1>. DEFINE R == IF flow[r].rewinding THEN BOOLEAN ELSE {FALSE}
<1>1. R \subseteq BOOLEAN /\ TRUE \in BOOLEAN /\ FALSE \in BOOLEAN
  OBVIOUS
<1>2. \E rejected \in BOOLEAN, taken \in {"none", "rewind", "skip", "fail"}, to \in Directions :
        d = Decision(rejected, taken, to)
  <2>1. /\ "next" \in Directions /\ "again" \in Directions /\ "end" \in Directions /\ "fail" \in Directions
    BY DEF Directions
  <2>2. CASE r # RootRun
    BY <2>1, <2>2 DEF SuccessDecisions, FailureDecisions
  <2>3. CASE r = RootRun /\ d \in SuccessDecisions(r)
    <3>1. SuccessDecisions(r) = (UNION {{Decision(rejected, "none", "next")} \cup Ending(rejected) : rejected \in R})
                                \cup Rewinds(r, FALSE)
      BY <2>3 DEF SuccessDecisions
    <3>2. CASE d \in Rewinds(r, FALSE)
      BY <1>1, <2>1, <3>2 DEF Rewinds
    <3>3. CASE d \notin Rewinds(r, FALSE)
      <4>. HIDE DEF R
      <4>1. PICK rejected \in R : d \in {Decision(rejected, "none", "next")} \cup Ending(rejected)
        BY <2>3, <3>1, <3>3
      <4>2. rejected \in BOOLEAN
        BY <1>1
      <4>. QED
        BY <2>1, <4>1, <4>2 DEF Ending
    <3>. QED
      BY <3>2, <3>3
  <2>4. CASE r = RootRun /\ d \in FailureDecisions(r)
    <3>. DEFINE Q == IF flow[r].rewinding THEN {Decision(TRUE, "none", "next")} ELSE {}
    <3>1. FailureDecisions(r)
          = (UNION {{Decision(rejected, "none", "fail")} \cup Ending(rejected) \cup Rewinds(r, rejected) :
                      rejected \in R}) \cup Q
      BY <2>4 DEF FailureDecisions
    <3>2. CASE d \in Q
      BY <1>1, <2>1, <3>2
    <3>3. CASE d \notin Q
      <4>. HIDE DEF R, Q
      <4>1. PICK rejected \in R :
              d \in {Decision(rejected, "none", "fail")} \cup Ending(rejected) \cup Rewinds(r, rejected)
        BY <2>4, <3>1, <3>3
      <4>2. rejected \in BOOLEAN
        BY <1>1
      <4>. QED
        BY <2>1, <4>1, <4>2 DEF Ending, Rewinds
    <3>. QED
      BY <3>2, <3>3
  <2>. QED
    BY <2>2, <2>3, <2>4
<1>. QED
  BY <1>2, DecisionIs

\* What is to be told of a decision is told in some order and ends with the resolution.
LEMMA TodoIs ==
  ASSUME NEW d \in Decisions
  PROVE  Todo(d) \in Seq({"rejected", "taken", "resolve"}) /\ Todo(d) # <<>>
<1>. DEFINE T == {"rejected", "taken", "resolve"}
            a == IF d.rejected THEN <<"rejected">> ELSE <<>>
            b == IF d.taken # "none" THEN <<"taken">> ELSE <<>>
            c == <<"resolve">>
<1>1. a \in Seq(T) /\ b \in Seq(T) /\ c \in Seq(T) /\ Len(c) = 1
  OBVIOUS
<1>2. Todo(d) = (a \o b) \o c
  BY DEF Todo
<1>. HIDE DEF a, b, c, T
<1>3. a \o b \in Seq(T)
  BY <1>1
<1>4. (a \o b) \o c \in Seq(T) /\ Len((a \o b) \o c) = Len(a \o b) + 1
  <2>1. ASSUME NEW S, NEW u \in Seq(S), NEW w \in Seq(S), Len(w) = 1
        PROVE  u \o w \in Seq(S) /\ Len(u \o w) = Len(u) + 1
    BY <2>1, ConcatIs
  <2>. QED
    BY ONLY <1>1, <1>3, <2>1
<1>5. Len((a \o b) \o c) # 0
  BY <1>3, <1>4
<1>. QED
  BY <1>2, <1>4, <1>5 DEF T

\* A visit that is decided.
LEMMA DecideStep ==
  ASSUME StructureInv, NEW r \in DOMAIN flow, NEW e, NEW d, IsDecision(d), Decide(r, e, d),
         status[r] = "running", e \in Executions', Parent(e) = r, StepOf(e) = Current(r), status'[e] # "running",
         \A x \in Executions' : Parent(x) = r => status'[x] # "running",
         SpansTyped', MovesOnly(r), r = RootRun => held' = NoSpan
  PROVE  StructureInv'
<1>1. /\ world \in Worlds /\ r \in DOMAIN status /\ r \in Spans /\ IsRun(r) /\ At(r) = r
      /\ flow[r] \in Flows /\ FlowFits(r, flow[r]) /\ HeldFits
      /\ Current(r) = StepsOf(r)[flow[r].at] /\ Current(r) \in Step
      /\ Current(r) \in Range(StepsOf(r)) /\ Wrappers[Current(r)] \in Nat
      /\ r # RootRun => Current(r) \in Inner /\ ~Wrapped(r)
  BY FlowIs
<1>. DEFINE h == [flow[r] EXCEPT !.phase = "decided", !.todo = Todo(d.decision), !.last = e,
                                 !.decision = d.decision, !.to = d.to]
<1>2. d.decision \in Decisions /\ d.to \in {"next", "again", "end", "fail"}
      /\ Todo(d.decision) \in Seq({"rejected", "taken", "resolve"}) /\ Todo(d.decision) # <<>>
  BY TodoIs DEF IsDecision, Directions
<1>3. e \in Spans /\ e \in DOMAIN status'
  BY DEF SpansTyped, Executions
<1>4. flow' = [flow EXCEPT ![r] = h]
  BY DEF Decide
<1>5. h \in Flows /\ h.phase = "decided" /\ h.last = e /\ h.at = flow[r].at /\ h.todo # <<>>
  BY <1>1, <1>2, <1>3 DEF Flows, Phases
<1>6. PICK g \in Flows : g = h /\ g.phase = "decided" /\ g.last = e /\ g.at = flow[r].at /\ g.todo # <<>>
  BY <1>5
<1>7. flow' = [flow EXCEPT ![r] = g]
  BY <1>4, <1>6
<1>. HIDE DEF h
<1>8. status'[r] = status[r]
  BY <1>1 DEF MovesOnly, Executions
<1>9. FlowFits(r, g)'
  <2>1. StepsOf(r)' = StepsOf(r)
    BY DEF StepsOf, MovesOnly
  <2>2. Visited(r, g)'
    BY <1>1, <1>6, <2>1 DEF Visited
  <2>3. g.at \in DOMAIN StepsOf(r)'
    BY <1>1, <1>6, <2>1 DEF FlowFits
  <2>. QED
    BY <1>6, <1>8, <2>1, <2>2, <2>3 DEF FlowFits
<1>10. r = RootRun => HeldFits'
  BY DEF HeldFits
<1>11. held' \in Spans
  <2>1. NoSpan \in Spans
    BY DEF NoSpan, Spans
  <2>2. held \in Spans
    BY DEF StructureInv, TypeInv
  <2>. QED
    BY <2>1, <2>2 DEF MovesOnly
<1>12. DecidedTyped'
  <2>1. decided \in [DOMAIN decided -> Decisions] /\ DOMAIN decided \subseteq Executions
    BY DEF StructureInv, TypeInv
  <2>2. decided' = With(decided, e, d.decision)
    BY DEF Decide
  <2>3. DOMAIN decided' = DOMAIN decided \cup {e}
    BY <2>2 DEF With
  <2>4. decided' \in [DOMAIN decided' -> Decisions]
    BY <1>2, <2>1, <2>2, WithTyped
  <2>5. Executions \subseteq Executions'
    BY DEF Executions, MovesOnly
  <2>. QED
    BY <2>1, <2>3, <2>4, <2>5 DEF DecidedTyped
<1>. HIDE DEF StructureInv
<1>. QED
  BY <1>7, <1>9, <1>10, <1>11, <1>12, RunMoves

\* An execution in wrappers that is over while its wrapper goes on.
LEMMA HoldStep ==
  ASSUME StructureInv, NEW r \in DOMAIN flow, Wrapped(r), NEW g \in Flows, flow' = [flow EXCEPT ![r] = g],
         g.phase \in {"returned", "retry", "failing"}, g.at = flow[r].at, g.last \in Executions',
         Parent(g.last) = r, StepOf(g.last) = Current(r), status'[g.last] # "running",
         status[r] = "running",
         \A x \in Executions' : Parent(x) = r => status'[x] # "running",
         g.phase = "returned" => held' = g.last,
         g.phase # "returned" => status'[g.last] = "failed" \/ held' = g.last,
         held' # NoSpan => /\ held' \in Executions' /\ Parent(held') = r /\ status'[held'] = "succeeded"
                           /\ StepOf(held') = Current(r),
         SpansTyped', MovesOnly(r), decided' = decided
  PROVE  StructureInv'
<1>1. /\ world \in Worlds /\ r \in DOMAIN status /\ r \in Spans /\ IsRun(r) /\ At(r) = r
      /\ flow[r] \in Flows /\ FlowFits(r, flow[r]) /\ HeldFits
      /\ Current(r) = StepsOf(r)[flow[r].at] /\ Current(r) \in Step
      /\ Current(r) \in Range(StepsOf(r)) /\ Wrappers[Current(r)] \in Nat
      /\ r # RootRun => Current(r) \in Inner /\ ~Wrapped(r)
  BY FlowIs
<1>2. r = RootRun /\ Wrappers[Current(r)] > 0
  BY <1>1 DEF Wrapped
<1>3. status'[r] = status[r]
  BY <1>1 DEF MovesOnly, Executions
<1>4. StepsOf(r)' = StepsOf(r)
  BY DEF StepsOf, MovesOnly
<1>5. FlowFits(r, g)'
  <2>1. Visited(r, g)'
    BY <1>1, <1>4 DEF Visited
  <2>2. g.at \in DOMAIN StepsOf(r)'
    BY <1>1, <1>4 DEF FlowFits
  <2>. QED
    BY <1>1, <1>2, <1>3, <1>4, <2>1, <2>2 DEF FlowFits
<1>6. flow'[r] = g
  BY DEF StructureInv, TypeInv
<1>7. HeldFits'
  <2>1. /\ flow'[RootRun].phase \in {"running", "returned", "retry", "failing"}
        /\ flow'[RootRun].at = flow[RootRun].at
    BY <1>2, <1>6
  <2>2. StepsOf(RootRun)'[flow'[RootRun].at] = Current(RootRun)
    BY <1>1, <1>2, <1>4, <2>1
  <2>. HIDE DEF StructureInv
  <2>. QED
    BY <1>2, <2>1, <2>2 DEF HeldFits
<1>8. held' \in Spans
  <2>1. CASE held' = NoSpan
    BY <2>1 DEF NoSpan, Spans
  <2>2. CASE held' # NoSpan
    BY <2>2 DEF SpansTyped, Executions
  <2>. QED
    BY <2>1, <2>2
<1>9. DecidedTyped'
  <2>1. Executions \subseteq Executions'
    BY DEF Executions, MovesOnly
  <2>. QED
    BY <2>1 DEF DecidedTyped, StructureInv, TypeInv
<1>. HIDE DEF StructureInv
<1>. QED
  BY <1>5, <1>7, <1>8, <1>9, RunMoves

-----------------------------------------------------------------------------
(* What each step starts and what end it tells.                              *)

\* The end of x has not been told: it runs, or a wrapper holds its report.
Untold(x) == status[x] = "running" \/ (x = held /\ x # NoSpan)

\* A step in which the spans of N start and the ends of those of O are told.
Accounts(N, O) ==
  /\ world' = world
  /\ DOMAIN status' = DOMAIN status \cup N
  /\ \A x \in N : Starting(x)
  /\ O \subseteq DOMAIN status'
  /\ \A x \in DOMAIN status' : Untold(x)' <=> (x \in DOMAIN status => Untold(x)) /\ x \notin O
  /\ \A x \in DOMAIN status : status[x] # "running" => status'[x] # "running"
  /\ \A x \in O \cap DOMAIN status : Untold(x) /\ \A y \in Inside(x) : status[y] # "running"
  /\ \A x \in O, y \in N : Within(y, x) => y = x
  /\ \A x \in DOMAIN status' : status'[x] = "failed" => x \in O \/ (x \in DOMAIN status /\ status[x] = "failed")

HeldSet == IF held = NoSpan THEN {} ELSE {held}

\* The start of a span that runs.
LEMMA StartAccounts ==
  ASSUME TypeInv, NEW x, Starting(x), status' = With(status, x, "running"), UNCHANGED <<world, held>>
  PROVE  Accounts({x}, {})
<1>1. /\ DOMAIN status' = DOMAIN status \cup {x} /\ status'[x] = "running"
      /\ \A y \in DOMAIN status : status'[y] = status[y]
  BY DEF With, Starting
<1>. QED
  BY <1>1 DEF Accounts, Untold

\* A step that starts nothing and ends nothing.
LEMMA QuietAccounts ==
  ASSUME UNCHANGED <<world, status, held>>
  PROVE  Accounts({}, {})
  BY DEF Accounts, Untold

\* The end of a span that ran, or that was held.
LEMMA EndAccounts ==
  ASSUME StructureInv, NEW x \in DOMAIN status, NEW v \in {"succeeded", "failed"}, status' = [status EXCEPT ![x] = v],
         \A y \in Inside(x) : status[y] # "running", world' = world,
         \/ status[x] = "running" /\ held' = held /\ x # RootRun
         \/ status[x] = "running" /\ held' = held /\ held = NoSpan
         \/ x = held /\ held # NoSpan /\ held' = NoSpan
  PROVE  Accounts({}, {x})
<1>1. /\ DOMAIN status' = DOMAIN status /\ status'[x] = v
      /\ \A y \in DOMAIN status : y # x => status'[y] = status[y]
  BY DEF StructureInv, TypeInv
<1>2. held # NoSpan => held \in DOMAIN status /\ status[held] = "succeeded"
  BY DEF StructureInv, FlowInv, HeldFits, Executions
<1>3. Untold(x)
  BY DEF Untold
<1>4. \A y \in DOMAIN status' : Untold(y)' <=> Untold(y) /\ y # x
  BY <1>1, <1>2 DEF Untold
<1>. HIDE DEF StructureInv
<1>. QED
  BY <1>1, <1>3, <1>4 DEF Accounts

\* What is held: nothing, or a success of the step the run's flow is in.
LEMMA HeldIs ==
  ASSUME StructureInv, held # NoSpan
  PROVE  /\ held \in Executions /\ held \in DOMAIN status /\ status[held] = "succeeded"
         /\ \A y \in Inside(held) : status[y] # "running"
         /\ Parent(held) = RootRun
  <1>1. held \in Executions /\ held \in DOMAIN status /\ status[held] = "succeeded" /\ Parent(held) = RootRun
    BY DEF StructureInv, FlowInv, HeldFits, Executions
  <1>. QED
    BY <1>1, EndedInside DEF StructureInv

\* The release of what is held, while nothing else but x, if it is, ends or starts.
LEMMA ReleaseAccounts ==
  ASSUME StructureInv, UNCHANGED <<world, status>>, held' = NoSpan
  PROVE  Accounts({}, HeldSet)
<1>1. CASE held = NoSpan
  <2>1. HeldSet = {}
    BY <1>1 DEF HeldSet
  <2>2. held' = held
    BY <1>1
  <2>. QED
    BY <2>1, <2>2, QuietAccounts
<1>2. CASE held # NoSpan
  <2>1. HeldSet = {held}
    BY <1>2 DEF HeldSet
  <2>2. /\ held \in DOMAIN status /\ status[held] = "succeeded"
        /\ \A y \in Inside(held) : status[y] # "running"
    BY <1>2, HeldIs
  <2>. HIDE DEF StructureInv
  <2>. QED
    BY <1>2, <2>1, <2>2 DEF Accounts, Untold
<1>. QED
  BY <1>1, <1>2

\* A held success makes way for the next one.
LEMMA ReplaceAccounts ==
  ASSUME StructureInv, world' = world, NEW x \in DOMAIN status, status[x] = "running", x # RootRun,
         status' = [status EXCEPT ![x] = "succeeded"], held' = x
  PROVE  Accounts({}, HeldSet)
<1>1. /\ DOMAIN status' = DOMAIN status /\ status'[x] = "succeeded"
      /\ \A y \in DOMAIN status : y # x => status'[y] = status[y]
  BY DEF StructureInv, TypeInv
<1>2. held # NoSpan => /\ held \in DOMAIN status /\ status[held] = "succeeded"
                       /\ \A y \in Inside(held) : status[y] # "running"
  BY HeldIs
<1>3. HeldSet \subseteq DOMAIN status /\ \A y \in HeldSet : y = held /\ held # NoSpan
  BY <1>2 DEF HeldSet
<1>4. held # NoSpan => held \in HeldSet
  BY DEF HeldSet
<1>. HIDE DEF StructureInv, HeldSet
<1>5. \A y \in DOMAIN status' : Untold(y)' <=> Untold(y) /\ y \notin HeldSet
  BY <1>1, <1>2, <1>3, <1>4 DEF Untold, NoSpan, RootRun
<1>6. \A y \in HeldSet : Untold(y) /\ \A z \in Inside(y) : status[z] # "running"
  BY <1>2, <1>3 DEF Untold
<1>. QED
  BY <1>1, <1>3, <1>5, <1>6 DEF Accounts

\* A held success makes way for an execution that starts and is over, held or told.
LEMMA StandInAccounts ==
  ASSUME StructureInv, world' = world, NEW x \in Spans, Starting(x), x # RootRun,
         NEW v \in {"succeeded", "failed"}, status' = With(status, x, v), NEW O,
         \/ v = "succeeded" /\ held' = x /\ O = HeldSet
         \/ held' = NoSpan /\ O = HeldSet \cup {x}
  PROVE  Accounts({x}, O)
<1>1. /\ DOMAIN status' = DOMAIN status \cup {x} /\ status'[x] = v /\ x \notin DOMAIN status
      /\ \A y \in DOMAIN status : status'[y] = status[y]
  BY DEF With, Starting
<1>2. held # NoSpan => /\ held \in DOMAIN status /\ status[held] = "succeeded"
                       /\ \A y \in Inside(held) : status[y] # "running"
  BY HeldIs
<1>3. HeldSet \subseteq DOMAIN status /\ \A y \in HeldSet : y = held /\ held # NoSpan
  BY <1>2 DEF HeldSet
<1>4. held # NoSpan => held \in HeldSet
  BY DEF HeldSet
<1>. HIDE DEF StructureInv, HeldSet
<1>5. \A y \in DOMAIN status' : Untold(y)' <=> (y \in DOMAIN status => Untold(y)) /\ y \notin O
  BY <1>1, <1>2, <1>3, <1>4 DEF Untold, NoSpan, RootRun
<1>6. \A y \in O \cap DOMAIN status : Untold(y) /\ \A z \in Inside(y) : status[z] # "running"
  BY <1>1, <1>2, <1>3 DEF Untold
<1>7. \A y \in O : Within(x, y) => y = x
  <2>1. held # NoSpan => ~Within(x, held)
    BY <1>2, AroundStarting DEF StructureInv
  <2>. QED
    BY <1>1, <1>3, <2>1
<1>8. O \subseteq DOMAIN status'
  BY <1>1, <1>3
<1>9. \A y \in DOMAIN status' : status'[y] = "failed" => y \in O \/ (y \in DOMAIN status /\ status[y] = "failed")
  BY <1>1
<1>. QED
  BY <1>1, <1>5, <1>6, <1>7, <1>8, <1>9 DEF Accounts

-----------------------------------------------------------------------------
(* Each step of the system keeps the structure and accounts for what it      *)
(* starts and ends.                                                          *)

\* A flow that starts an execution keeps the spans and the flows in their places, and only that execution begins.
LEMMA FlowStartAccounts ==
  ASSUME StructureInv, NEW r \in DOMAIN flow, StepStarts(r) \/ AttemptStarts(r),
         NEW e, e = NextExecution(r, r, Current(r))
  PROVE  /\ StructureInv' /\ Accounts({e}, {})
         /\ IsExecution(e) /\ RunOf(e) = r /\ StepOf(e) = Current(r) /\ Parent(e) = r
<1>1. /\ status' = With(status, e, "running")
      /\ UNCHANGED <<world, held, decided>>
  BY DEF StepStarts, AttemptStarts, Begin
<1>2. PICK tries \in Nat :
        flow' = [flow EXCEPT ![r] = [[flow[r] EXCEPT !.phase = "running", !.last = e] EXCEPT !.tries = tries]]
  <2>1. flow[r] \in Flows
    BY FlowIs
  <2>2. flow[r].tries \in Nat
    BY <2>1 DEF Flows
  <2>3. CASE AttemptStarts(r)
    <3>1. flow' = [flow EXCEPT ![r] = [[flow[r] EXCEPT !.phase = "running", !.last = e]
                                         EXCEPT !.tries = flow[r].tries + 1]]
      BY <2>1, <2>3 DEF AttemptStarts
    <3>2. flow[r].tries + 1 \in Nat
      BY <2>2
    <3>. QED
      BY ONLY <3>1, <3>2
  <2>4. CASE StepStarts(r)
    <3>1. flow' = [flow EXCEPT ![r] = [flow[r] EXCEPT !.phase = "running", !.last = e]]
      BY <2>1, <2>4 DEF StepStarts
    <3>2. [[flow[r] EXCEPT !.phase = "running", !.last = e] EXCEPT !.tries = flow[r].tries]
          = [flow[r] EXCEPT !.phase = "running", !.last = e]
      BY <2>1 DEF Flows
    <3>. QED
      BY <2>2, <3>1, <3>2
  <2>. QED
    BY <2>3, <2>4
<1>3. flow[r].phase \in {"visit", "retry"} /\ (flow[r].phase = "retry" => Wrapped(r))
  BY DEF StepStarts, AttemptStarts
<1>. HIDE DEF StructureInv
<1>4. StructureInv' /\ Starting(e) /\ IsExecution(e) /\ RunOf(e) = r /\ StepOf(e) = Current(r) /\ Parent(e) = r
  BY <1>1, <1>2, <1>3, FlowStarts
<1>5. TypeInv
  BY DEF StructureInv
<1>6. Accounts({e}, {})
  BY <1>1, <1>4, <1>5, StartAccounts
<1>. QED
  BY <1>4, <1>6

\* A child that starts keeps the spans and the flows in their places, and only it begins.
LEMMA ChildStartAccounts ==
  ASSUME StructureInv, NEW p \in Executions, NEW c \in Children[StepOf(p)], ChildStarts(p, c),
         NEW e, e = NextExecution(RunOf(p), p, c)
  PROVE  /\ StructureInv' /\ Accounts({e}, {})
         /\ IsExecution(e) /\ RunOf(e) = RunOf(p) /\ StepOf(e) = c /\ Parent(e) = p
<1>1. TypeInv /\ SpansFit /\ FlowInv
  BY DEF StructureInv
<1>2. IsExecution(p) /\ p \in DOMAIN status /\ p # RootRun /\ ExecutionFits(p) /\ ~IsRun(p) /\ p \in Spans
  BY <1>1, ExecutionsAre DEF IsExecution
<1>3. /\ status[p] = "running" /\ status' = With(status, e, "running")
      /\ UNCHANGED <<world, flow, held, decided>> /\ At(p) = RunOf(p)
  BY <1>2 DEF ChildStarts, Begin, At
<1>4. c \in Step
  BY <1>2, StructureAssumption DEF IsExecution
<1>5. RunOf(p) # RootRun => c \in Inner
  BY <1>2, InnerIs DEF ExecutionFits, IsInner
<1>6. "running" \in Statuses
  BY DEF Statuses
<1>. HIDE DEF StructureInv
<1>7. /\ Starting(e) /\ IsExecution(e) /\ Parent(e) = p /\ StepOf(e) = c /\ RunOf(e) = RunOf(p)
      /\ SpansFit'
      /\ status' \in [DOMAIN status' -> Statuses] /\ DOMAIN status' \subseteq Spans
      /\ IsFiniteSet(DOMAIN status')
      /\ Executions' = Executions \cup {e} /\ e \notin Executions
      /\ DOMAIN status' = DOMAIN status \cup {e} /\ status'[e] = "running"
      /\ \A y \in DOMAIN status : status'[y] = status[y]
  BY <1>2, <1>3, <1>4, <1>5, <1>6, ExecutionStarts
<1>8. TypeInv'
  <2>1. {x \in DOMAIN status' : IsRun(x)} = {x \in DOMAIN status : IsRun(x)}
    BY <1>7 DEF IsExecution
  <2>. QED
    BY <1>1, <1>3, <1>7, <2>1 DEF TypeInv
<1>9. ASSUME NEW r \in DOMAIN flow PROVE FlowFits(r, flow[r])'
  <2>1. r \in DOMAIN status /\ IsRun(r)
    BY <1>1 DEF TypeInv
  <2>2. \A y \in Executions' : Parent(y) = r => y \in Executions
    BY <1>2, <1>7, <2>1
  <2>3. \A y \in Executions : status'[y] = status[y]
    BY <1>7 DEF Executions
  <2>. QED
    BY <1>3, <1>7, <2>1, <2>2, <2>3, FlowStays
<1>10. HeldFits'
  <2>1. held # NoSpan => flow'[RootRun] = flow[RootRun] /\ status'[held] = status[held]
    BY <1>3, <1>7, HeldIs
  <2>. QED
    BY <1>3, <1>7, <2>1, HeldStays
<1>11. StructureInv'
  BY <1>3, <1>7, <1>8, <1>9, <1>10 DEF StructureInv, FlowInv
<1>12. Accounts({e}, {})
  BY <1>1, <1>3, <1>7, StartAccounts
<1>. QED
  BY <1>7, <1>11, <1>12

\* A run starts: the whole run, or that of a step that runs a pipeline.
LEMMA RunStartAccounts ==
  ASSUME StructureInv, NEW r, RunStarts(r),
         r = RootRun \/ \E e \in Executions : StepOf(e) \in ProgramSteps /\ r = NestedRun(e)
  PROVE  StructureInv' /\ Accounts({r}, {}) /\ IsRun(r) /\ r \in Spans
<1>1. TypeInv /\ SpansFit /\ FlowInv
  BY DEF StructureInv
<1>2. /\ r \notin DOMAIN status /\ status' = With(status, r, "running") /\ flow' = With(flow, r, NewFlow)
      /\ UNCHANGED <<world, held, decided>>
  BY DEF RunStarts
<1>3. "running" \in Statuses
  BY DEF Statuses
<1>4. r \in Spans /\ IsRun(r) /\ Starting(r) /\ (r # RootRun => RunFits(r))
  <2>1. CASE r = RootRun
    BY <1>1, <1>2, <2>1 DEF Starting, SpansFit, IsRun, RootRun, Spans
  <2>2. CASE r # RootRun
    <3>1. PICK e \in Executions : StepOf(e) \in ProgramSteps /\ r = NestedRun(e)
      BY <2>2
    <3>2. e \in Spans /\ ~IsRun(e) /\ e \in DOMAIN status
      BY <1>1, ExecutionsAre DEF IsExecution
    <3>3. RunMark \in Marks
      BY DEF RunMark, Marks
    <3>4. r = Append(e, RunMark) /\ r \in Spans /\ Parent(r) = e /\ IsRun(r)
      BY <3>1, <3>2, <3>3, SpanAppend DEF NestedRun, Marks
    <3>5. status[e] = "running"
      BY <2>2, <3>4 DEF RunStarts
    <3>6. Starting(r)
      BY <1>2, <2>2, <3>2, <3>3, <3>4, <3>5 DEF Starting, Appended
    <3>. QED
      BY <3>1, <3>2, <3>4, <3>6 DEF RunFits
  <2>. QED
    BY <2>1, <2>2
<1>. HIDE DEF StructureInv
<1>5. /\ SpansFit'
      /\ status' \in [DOMAIN status' -> Statuses] /\ DOMAIN status' \subseteq Spans
      /\ IsFiniteSet(DOMAIN status')
      /\ Executions' = Executions
      /\ DOMAIN status' = DOMAIN status \cup {r} /\ status'[r] = "running"
      /\ \A y \in DOMAIN status : status'[y] = status[y]
  BY <1>1, <1>2, <1>3, <1>4, SpansStart
<1>6. NewFlow \in Flows /\ NewFlow.at = 1 /\ NewFlow.phase = "visit"
  <2>1. NoDecision \in Decisions /\ NoSpan \in Spans /\ <<>> \in Seq({"rejected", "taken", "resolve"})
    BY DecisionsAre DEF NoSpan, Spans
  <2>. QED
    BY <2>1 DEF NewFlow, Flows, Phases
<1>7. /\ DOMAIN flow' = DOMAIN flow \cup {r} /\ flow'[r] = NewFlow /\ r \notin DOMAIN flow
      /\ \A q \in DOMAIN flow : flow'[q] = flow[q]
      /\ flow' \in [DOMAIN flow' -> Flows]
  <2>1. flow \in [DOMAIN flow -> Flows] /\ r \notin DOMAIN flow
    BY <1>1, <1>2 DEF TypeInv
  <2>2. flow' \in [DOMAIN flow' -> Flows]
    BY <1>2, <1>6, <2>1, WithTyped
  <2>. QED
    BY <1>2, <2>1, <2>2 DEF With
<1>8. TypeInv'
  <2>1. DOMAIN flow' = {x \in DOMAIN status' : IsRun(x)}
    BY <1>1, <1>4, <1>5, <1>7 DEF TypeInv
  <2>. QED
    BY <1>1, <1>2, <1>5, <1>7, <2>1 DEF TypeInv
<1>9. \A y \in Executions : Parent(y) # r
  BY <1>1, <1>2, ExecutionsAre, ParentStarted
<1>10. FlowFits(r, NewFlow)'
  <2>1. NewFlow.at \in DOMAIN StepsOf(r)'
    <3>1. 1 \in DOMAIN StepsOf(r)
      BY <1>1, StepsAre DEF TypeInv
    <3>2. StepsOf(r)' = StepsOf(r)
      BY <1>2 DEF StepsOf
    <3>. QED
      BY <1>6, <3>1, <3>2
  <2>2. NewFlow' = NewFlow
    BY DEF NewFlow, NoDecision, NoSpan
  <2>. QED
    BY <1>5, <1>6, <1>9, <2>1, <2>2 DEF FlowFits
<1>11. ASSUME NEW q \in DOMAIN flow PROVE FlowFits(q, flow[q])'
  <2>1. q \in DOMAIN status
    BY <1>1 DEF TypeInv
  <2>2. \A y \in Executions : status'[y] = status[y]
    BY <1>5 DEF Executions
  <2>. QED
    BY <1>2, <1>5, <1>7, <2>1, <2>2, FlowStays
<1>12. HeldFits'
  <2>1. held # NoSpan => flow'[RootRun] = flow[RootRun] /\ status'[held] = status[held]
    <3>. SUFFICES ASSUME held # NoSpan PROVE flow'[RootRun] = flow[RootRun] /\ status'[held] = status[held]
      OBVIOUS
    <3>1. held \in DOMAIN status
      BY HeldIs
    <3>2. RootRun \in DOMAIN flow
      BY <1>1, <3>1 DEF SpansFit, TypeInv, IsRun
    <3>. QED
      BY <1>5, <1>7, <3>1, <3>2
  <2>. QED
    BY <1>2, <1>5, <2>1, HeldStays
<1>13. FlowFits(r, flow[r])'
  BY <1>7, <1>10 DEF NewFlow, NoDecision, NoSpan
<1>14. StructureInv'
  BY <1>5, <1>7, <1>8, <1>11, <1>12, <1>13 DEF StructureInv, FlowInv
<1>15. Accounts({r}, {})
  BY <1>1, <1>2, <1>4, StartAccounts
<1>. QED
  BY <1>4, <1>14, <1>15

\* The flow of a run in a visit, and the execution it is about.
VisitFits(r, e) ==
  /\ status[r] = "running" /\ e \in Executions /\ e \in DOMAIN status /\ Parent(e) = r
  /\ StepOf(e) = Current(r) /\ IsExecution(e) /\ RunOf(e) = r /\ e # RootRun
  /\ \A x \in Executions : Parent(x) = r /\ x # e => status[x] # "running"
\* The execution of a visit is one of the flow's run, with nothing but what is in it running.
LEMMA VisitIs ==
  ASSUME StructureInv, NEW r \in DOMAIN flow,
         flow[r].phase \in {"running", "returned", "retry", "failing", "decided"}
  PROVE  /\ VisitFits(r, flow[r].last)
         /\ flow[r].phase = "running" <=> status[flow[r].last] = "running"
<1>1. /\ world \in Worlds /\ r \in DOMAIN status /\ r \in Spans /\ IsRun(r) /\ At(r) = r
      /\ flow[r] \in Flows /\ FlowFits(r, flow[r]) /\ HeldFits
      /\ Current(r) = StepsOf(r)[flow[r].at] /\ Current(r) \in Step
  BY FlowIs
<1>2. Visited(r, flow[r]) /\ status[r] = "running"
  BY <1>1 DEF FlowFits
<1>3. /\ flow[r].last \in Executions /\ Parent(flow[r].last) = r /\ StepOf(flow[r].last) = Current(r)
      /\ flow[r].phase = "running" <=> status[flow[r].last] = "running"
  BY <1>1, <1>2 DEF Visited
<1>. DEFINE e == flow[r].last
<1>. HIDE DEF e
<1>4. TypeInv /\ SpansFit
  BY DEF StructureInv
<1>5. e \in Executions /\ Parent(e) = r
  BY <1>3 DEF e
<1>6. IsExecution(e) /\ e \in DOMAIN status /\ e # RootRun
  BY <1>4, <1>5, ExecutionsAre
<1>7. RunOf(e) = r
  <2>1. e = Append(r, Last(e)) /\ Last(e) \in Marks
    BY <1>4, <1>5, <1>6, ParentStarted
  <2>. QED
    BY <1>1, <2>1, AtAppend
<1>8. \A x \in Executions : Parent(x) = r /\ x # e => status[x] # "running"
  BY <1>1 DEF FlowFits, e
<1>. QED
  BY <1>2, <1>3, <1>5, <1>6, <1>7, <1>8 DEF VisitFits, e

\* A step in wrappers has nothing inside.
LEMMA WrappedInside ==
  ASSUME StructureInv, NEW x \in Executions, Wrappers[StepOf(x)] > 0
  PROVE  Inside(x) = {}
<1>1. TypeInv /\ SpansFit
  BY DEF StructureInv
<1>2. x \in DOMAIN status /\ IsExecution(x) /\ x # RootRun
  BY <1>1, ExecutionsAre
<1>3. ASSUME NEW y \in Inside(x) PROVE FALSE
  <2>1. PICK c \in DOMAIN status : c # RootRun /\ Parent(c) = x
    BY <1>1, <1>2, ChildAround
  <2>2. Children[StepOf(x)] = {} /\ StepOf(x) \notin ProgramSteps
    BY <1>2, StructureAssumption DEF IsExecution
  <2>3. CASE IsRun(c)
    BY <1>1, <2>1, <2>2, <2>3 DEF SpansFit, RunFits
  <2>4. CASE ~IsRun(c)
    BY <1>1, <1>2, <2>1, <2>2, <2>4 DEF SpansFit, ExecutionFits, IsExecution
  <2>. QED
    BY <2>3, <2>4
<1>. QED
  BY <1>3

\* An execution of a run ends, or a held one fails after all.
Ends(r, x, v) ==
  /\ SpansTyped' /\ MovesOnly(r) /\ Executions' = Executions /\ status'[x] = v
  /\ \A y \in DOMAIN status : y # x => status'[y] = status[y]
\* What the end of a span leaves behind.
LEMMA EndsIs ==
  ASSUME StructureInv, NEW r \in DOMAIN flow, NEW x \in Executions, Parent(x) = r,
         \A y \in Inside(x) : status[y] # "running", NEW v \in {"succeeded", "failed"},
         status' = [status EXCEPT ![x] = v], world' = world, r # RootRun => held' = held
  PROVE  Ends(r, x, v)
<1>1. TypeInv /\ SpansFit
  BY DEF StructureInv
<1>2. x \in DOMAIN status
  BY <1>1, ExecutionsAre
<1>3. /\ SpansFit'
      /\ status' \in [DOMAIN status' -> Statuses] /\ DOMAIN status' \subseteq Spans
      /\ IsFiniteSet(DOMAIN status')
      /\ Executions' = Executions /\ DOMAIN status' = DOMAIN status /\ status'[x] = v
      /\ \A y \in DOMAIN status : y # x => status'[y] = status[y]
  BY <1>1, <1>2, SpansEnd
<1>4. SpansTyped'
  BY <1>3 DEF SpansTyped
<1>5. {y \in DOMAIN status' : IsRun(y)} = DOMAIN flow
  BY <1>1, <1>3 DEF TypeInv
<1>6. MovesOnly(r)
  BY <1>3, <1>5 DEF MovesOnly
<1>. QED
  BY <1>3, <1>4, <1>6 DEF Ends

\* No execution starts or ends.
LEMMA StandsStill ==
  ASSUME StructureInv, NEW r, UNCHANGED <<world, status>>, r # RootRun => held' = held
  PROVE  SpansTyped' /\ MovesOnly(r) /\ Executions' = Executions
<1>1. TypeInv /\ SpansFit
  BY DEF StructureInv
<1>2. Executions' = Executions
  BY DEF Executions
<1>3. SpansFit'
  BY <1>1 DEF SpansFit, RunFits, ExecutionFits, StepsOf, Executions, Alike
<1>4. SpansTyped'
  BY <1>1, <1>3 DEF SpansTyped, TypeInv
<1>5. MovesOnly(r)
  BY <1>1, <1>2 DEF MovesOnly, TypeInv
<1>. QED
  BY <1>2, <1>4, <1>5

\* A cache hit or a failed merge: an execution starts and is over at once.
LEMMA StandInIs ==
  ASSUME StructureInv, NEW r \in DOMAIN flow, status[r] = "running", Wrapped(r), NEW v \in {"succeeded", "failed"},
         NEW e, e = NextExecution(r, r, Current(r)), status' = With(status, e, v), world' = world,
         \A x \in Executions : Parent(x) = r => status[x] # "running"
  PROVE  /\ SpansTyped' /\ MovesOnly(r) /\ Executions' = Executions \cup {e} /\ e \notin Executions
         /\ Starting(e) /\ IsExecution(e) /\ Parent(e) = r /\ StepOf(e) = Current(r) /\ RunOf(e) = r
         /\ e # RootRun /\ status'[e] = v /\ (\A y \in DOMAIN status : status'[y] = status[y])
         /\ \A x \in Executions' : Parent(x) = r => status'[x] # "running"
         /\ r = RootRun
<1>1. /\ world \in Worlds /\ r \in DOMAIN status /\ r \in Spans /\ IsRun(r) /\ At(r) = r
      /\ Current(r) \in Step /\ Current(r) \in Range(StepsOf(r)) /\ r = RootRun
  BY FlowIs
<1>2. v \in Statuses
  BY DEF Statuses
<1>3. /\ Starting(e) /\ IsExecution(e) /\ Parent(e) = r /\ StepOf(e) = Current(r) /\ RunOf(e) = At(r)
      /\ SpansFit'
      /\ status' \in [DOMAIN status' -> Statuses] /\ DOMAIN status' \subseteq Spans
      /\ IsFiniteSet(DOMAIN status')
      /\ Executions' = Executions \cup {e} /\ e \notin Executions
      /\ DOMAIN status' = DOMAIN status \cup {e} /\ status'[e] = v
      /\ \A y \in DOMAIN status : status'[y] = status[y]
  BY <1>1, <1>2, ExecutionStarts
<1>4. SpansTyped'
  BY <1>3 DEF SpansTyped
<1>5. {y \in DOMAIN status' : IsRun(y)} = DOMAIN flow
  BY <1>3 DEF StructureInv, TypeInv, IsExecution
<1>6. MovesOnly(r)
  BY <1>1, <1>3, <1>5 DEF MovesOnly
<1>7. \A x \in Executions' : Parent(x) = r => status'[x] # "running"
  BY <1>3 DEF Executions
<1>8. e # RootRun
  BY <1>3 DEF IsExecution, IsRun
<1>. QED
  BY <1>1, <1>3, <1>4, <1>6, <1>7, <1>8

\* Nothing runs in an execution whose children are over.
LEMMA ChildrenOver ==
  ASSUME StructureInv, NEW e \in Executions, CanSucceed(e) \/ CanFail(e)
  PROVE  \A y \in Inside(e) : status[y] # "running"
<1>1. TypeInv /\ SpansFit
  BY DEF StructureInv
<1>2. e \in DOMAIN status
  BY <1>1, ExecutionsAre
<1>3. ASSUME NEW c \in DOMAIN status, c # RootRun, Parent(c) = e PROVE status[c] # "running"
  <2>1. c \in ChildrenOf(e)
    BY <1>1, <1>3, ParentStarted DEF ChildrenOf, Inside
  <2>. QED
    BY <2>1 DEF CanSucceed, CanFail
<1>. QED
  BY <1>1, <1>2, <1>3, NothingRuns

\* A nested execution ends.
LEMMA ChildEndAccounts ==
  ASSUME StructureInv, NEW e \in Executions, ChildEnds(e)
  PROVE  StructureInv' /\ Accounts({}, {e})
<1>1. TypeInv /\ SpansFit /\ FlowInv
  BY DEF StructureInv
<1>2. status[e] = "running" /\ ~IsRun(Parent(e)) /\ UNCHANGED <<world, flow, held, decided>>
  BY DEF ChildEnds, TopLevel
<1>3. PICK v \in {"succeeded", "failed"} : status' = [status EXCEPT ![e] = v]
  BY DEF ChildEnds
<1>4. \A y \in Inside(e) : status[y] # "running"
  <2>1. CanSucceed(e) \/ CanFail(e)
    BY DEF ChildEnds
  <2>. QED
    BY <2>1, ChildrenOver
<1>5. e \in DOMAIN status /\ e # RootRun /\ IsExecution(e)
  BY <1>1, ExecutionsAre
<1>6. /\ SpansFit'
      /\ status' \in [DOMAIN status' -> Statuses] /\ DOMAIN status' \subseteq Spans
      /\ IsFiniteSet(DOMAIN status')
      /\ Executions' = Executions /\ DOMAIN status' = DOMAIN status /\ status'[e] = v
      /\ \A y \in DOMAIN status : y # e => status'[y] = status[y]
  BY <1>1, <1>2, <1>3, <1>4, <1>5, SpansEnd
<1>7. TypeInv'
  BY <1>1, <1>2, <1>6 DEF TypeInv
<1>8. ASSUME NEW r \in DOMAIN flow PROVE FlowFits(r, flow[r])'
  <2>1. r \in DOMAIN status /\ IsRun(r)
    BY <1>1 DEF TypeInv
  <2>2. \A y \in Executions : Parent(y) = r => status'[y] = status[y]
    BY <1>2, <1>6, <2>1 DEF Executions
  <2>3. r # e
    BY <1>5, <2>1 DEF IsExecution
  <2>. HIDE DEF StructureInv
  <2>. QED
    BY <1>2, <1>6, <2>1, <2>2, <2>3, FlowStays
<1>. HIDE DEF StructureInv
<1>9. HeldFits'
  <2>1. held # NoSpan => flow'[RootRun] = flow[RootRun] /\ status'[held] = status[held]
    BY <1>2, <1>6, HeldIs
  <2>. QED
    BY <1>2, <1>6, <2>1, HeldStays
<1>10. StructureInv'
  BY <1>2, <1>6, <1>7, <1>8, <1>9 DEF StructureInv, FlowInv
<1>11. Accounts({}, {e})
  BY <1>2, <1>3, <1>4, <1>5, EndAccounts
<1>. QED
  BY <1>10, <1>11

\* The flow's step ends and is decided.
LEMMA StepEndAccounts ==
  ASSUME StructureInv, NEW r \in DOMAIN flow, StepEnds(r), NEW e, e = flow[r].last
  PROVE  StructureInv' /\ Accounts({}, {e})
<1>1. flow[r].phase = "running" /\ ~Wrapped(r) /\ UNCHANGED <<world, held>>
  BY DEF StepEnds
<1>2. VisitFits(r, e) /\ status[e] = "running"
  BY <1>1, VisitIs
<1>3. PICK v \in {"succeeded", "failed"} : status' = [status EXCEPT ![e] = v]
  BY DEF StepEnds
<1>4. CanSucceed(e) \/ CanFail(e)
  BY DEF StepEnds
<1>5. PICK d \in SuccessDecisions(r) \cup FailureDecisions(r) : Decide(r, e, d)
  BY DEF StepEnds
<1>6. \A y \in Inside(e) : status[y] # "running"
  BY <1>2, <1>4, ChildrenOver DEF VisitFits
<1>7. Ends(r, e, v)
  BY <1>1, <1>2, <1>3, <1>6, EndsIs DEF VisitFits
<1>8. IsDecision(d)
  BY <1>5, FlowIs, FlowDecides
<1>9. r = RootRun => held' = NoSpan
  BY <1>1, FlowIs DEF HeldFits, Wrapped
<1>10. \A x \in Executions' : Parent(x) = r => status'[x] # "running"
  BY <1>2, <1>7 DEF VisitFits, Ends, Executions
<1>11. StructureInv'
  <2>1. e \in Executions' /\ status'[e] # "running" /\ SpansTyped' /\ MovesOnly(r)
    BY <1>2, <1>7 DEF VisitFits, Ends
  <2>. HIDE DEF StructureInv
  <2>. QED
    BY <1>2, <1>5, <1>8, <1>9, <1>10, <2>1, DecideStep DEF VisitFits
<1>12. Accounts({}, {e})
  BY <1>1, <1>2, <1>3, <1>6, EndAccounts DEF VisitFits
<1>. QED
  BY <1>11, <1>12

\* The wrapped step of the whole run, whose success may be held.
LEMMA WrappedIs ==
  ASSUME StructureInv, NEW r \in DOMAIN flow, Wrapped(r)
  PROVE  /\ r = RootRun
         /\ \A x \in Executions : StepOf(x) = Current(r) => Inside(x) = {}
         /\ held # NoSpan => /\ held \in Executions /\ Parent(held) = r /\ StepOf(held) = Current(r)
                             /\ status[held] = "succeeded"
<1>1. /\ Current(r) = StepsOf(r)[flow[r].at] /\ HeldFits /\ r = RootRun
  BY FlowIs
<1>2. \A x \in Executions : StepOf(x) = Current(r) => Inside(x) = {}
  BY WrappedInside DEF Wrapped
<1>3. held # NoSpan => /\ held \in Executions /\ Parent(held) = r /\ StepOf(held) = Current(r)
                       /\ status[held] = "succeeded"
  BY <1>1 DEF HeldFits
<1>. QED
  BY <1>1, <1>2, <1>3

\* What the flow of an attempt comes to.
LEMMA PhaseIs ==
  ASSUME StructureInv, NEW r \in DOMAIN flow, NEW phase \in {"returned", "failing", "retry"},
         flow' = [flow EXCEPT ![r].phase = phase]
  PROVE  \E g \in Flows : /\ flow' = [flow EXCEPT ![r] = g]
                          /\ g.phase = phase /\ g.at = flow[r].at /\ g.last = flow[r].last
<1>. DEFINE h == [flow[r] EXCEPT !.phase = phase]
<1>1. flow[r] \in Flows
  BY FlowIs
<1>2. h \in Flows /\ h.phase = phase /\ h.at = flow[r].at /\ h.last = flow[r].last
  BY <1>1 DEF Flows, Phases
<1>3. flow' = [flow EXCEPT ![r] = h]
  OBVIOUS
<1>. QED
  BY <1>2, <1>3

\* A wrapped attempt succeeds.
LEMMA AttemptSucceedsAccounts ==
  ASSUME StructureInv, NEW r \in DOMAIN flow, AttemptSucceeds(r)
  PROVE  StructureInv' /\ Accounts({}, HeldSet)
<1>. DEFINE e == flow[r].last
<1>1. /\ flow[r].phase = "running" /\ Wrapped(r) /\ UNCHANGED <<world, decided>>
      /\ status' = [status EXCEPT ![e] = "succeeded"] /\ held' = e
  BY DEF AttemptSucceeds
<1>2. VisitFits(r, e) /\ status[e] = "running"
  BY <1>1, VisitIs
<1>3. r = RootRun /\ Inside(e) = {}
  BY <1>1, <1>2, WrappedIs DEF VisitFits
<1>4. Ends(r, e, "succeeded")
  BY <1>1, <1>2, <1>3, EndsIs DEF VisitFits
<1>5. PICK g \in Flows : flow' = [flow EXCEPT ![r] = g] /\ g.phase = "returned" /\ g.at = flow[r].at /\ g.last = e
  BY PhaseIs DEF AttemptSucceeds
<1>6. \A x \in Executions' : Parent(x) = r => status'[x] # "running"
  BY <1>2, <1>4 DEF VisitFits, Ends, Executions
<1>7. StructureInv'
  <2>1. g.last \in Executions' /\ status'[g.last] = "succeeded" /\ SpansTyped' /\ MovesOnly(r)
    BY <1>2, <1>4, <1>5 DEF VisitFits, Ends
  <2>2. Parent(g.last) = r /\ StepOf(g.last) = Current(r) /\ status[r] = "running"
    BY <1>2, <1>5 DEF VisitFits
  <2>3. held' = g.last
    BY <1>1, <1>5
  <2>. HIDE DEF StructureInv, e
  <2>. QED
    BY <1>1, <1>5, <1>6, <2>1, <2>2, <2>3, HoldStep
<1>8. Accounts({}, HeldSet)
  BY <1>1, <1>2, ReplaceAccounts DEF VisitFits
<1>. QED
  BY <1>7, <1>8

\* A wrapped attempt fails.
LEMMA AttemptFailsAccounts ==
  ASSUME StructureInv, NEW r \in DOMAIN flow, AttemptFails(r), NEW e, e = flow[r].last
  PROVE  StructureInv' /\ Accounts({}, {e})
<1>1. /\ flow[r].phase = "running" /\ Wrapped(r) /\ UNCHANGED <<world, held, decided>>
      /\ status' = [status EXCEPT ![e] = "failed"]
  BY DEF AttemptFails
<1>2. VisitFits(r, e) /\ status[e] = "running"
  BY <1>1, VisitIs
<1>3. r = RootRun /\ Inside(e) = {}
  BY <1>1, <1>2, WrappedIs DEF VisitFits
<1>4. Ends(r, e, "failed")
  BY <1>1, <1>2, <1>3, EndsIs DEF VisitFits
<1>5. PICK g \in Flows : /\ flow' = [flow EXCEPT ![r] = g] /\ g.phase \in {"failing", "retry"}
                         /\ g.at = flow[r].at /\ g.last = e
  <2>1. PICK phase \in {"returned", "failing", "retry"} :
          flow' = [flow EXCEPT ![r].phase = phase] /\ phase \in {"failing", "retry"}
    BY DEF AttemptFails
  <2>. QED
    BY <2>1, PhaseIs
<1>6. \A x \in Executions' : Parent(x) = r => status'[x] # "running"
  BY <1>2, <1>4 DEF VisitFits, Ends, Executions
<1>7. StructureInv'
  <2>1. g.last \in Executions' /\ status'[g.last] = "failed" /\ SpansTyped' /\ MovesOnly(r)
    BY <1>2, <1>4, <1>5 DEF VisitFits, Ends
  <2>2. Parent(g.last) = r /\ StepOf(g.last) = Current(r) /\ status[r] = "running"
    BY <1>2, <1>5 DEF VisitFits
  <2>3. held' # NoSpan => /\ held' \in Executions' /\ Parent(held') = r /\ status'[held'] = "succeeded"
                          /\ StepOf(held') = Current(r)
    BY <1>1, <1>2, <1>4, WrappedIs DEF Ends, Executions
  <2>. HIDE DEF StructureInv
  <2>. QED
    BY <1>1, <1>5, <1>6, <2>1, <2>2, <2>3, HoldStep
<1>8. Accounts({}, {e})
  BY <1>1, <1>2, <1>3, EndAccounts DEF VisitFits
<1>. QED
  BY <1>7, <1>8

\* The result of the inner wrapper is dropped.
LEMMA ResultDroppedAccounts ==
  ASSUME StructureInv, NEW r \in DOMAIN flow, ResultDropped(r)
  PROVE  StructureInv' /\ Accounts({}, {})
<1>. DEFINE e == flow[r].last
<1>1. flow[r].phase = "returned" /\ Wrappers[Current(r)] > 1 /\ UNCHANGED <<world, status, held, decided>>
  BY DEF ResultDropped
<1>2. VisitFits(r, e) /\ status[e] # "running"
  BY <1>1, VisitIs
<1>3. Wrapped(r)
  BY <1>1, FlowIs DEF Wrapped
<1>4. PICK g \in Flows : /\ flow' = [flow EXCEPT ![r] = g] /\ g.phase \in {"failing", "retry"}
                         /\ g.at = flow[r].at /\ g.last = e
  <2>1. PICK phase \in {"returned", "failing", "retry"} :
          flow' = [flow EXCEPT ![r].phase = phase] /\ phase \in {"failing", "retry"}
    BY DEF ResultDropped
  <2>. QED
    BY <2>1, PhaseIs
<1>5. SpansTyped' /\ MovesOnly(r) /\ Executions' = Executions
  BY <1>1, StandsStill
<1>6. held = e
  BY <1>1, FlowIs DEF FlowFits, Visited
<1>7. StructureInv'
  <2>1. /\ g.last \in Executions' /\ status'[g.last] # "running" /\ Parent(g.last) = r
        /\ StepOf(g.last) = Current(r) /\ status[r] = "running" /\ held' = g.last
    BY <1>1, <1>2, <1>4, <1>5, <1>6 DEF VisitFits
  <2>2. \A x \in Executions' : Parent(x) = r => status'[x] # "running"
    BY <1>1, <1>2, <1>5 DEF VisitFits
  <2>3. held' # NoSpan => /\ held' \in Executions' /\ Parent(held') = r /\ status'[held'] = "succeeded"
                          /\ StepOf(held') = Current(r)
    BY <1>1, <1>3, <1>5, WrappedIs
  <2>. HIDE DEF StructureInv, e
  <2>. QED
    BY <1>1, <1>3, <1>4, <1>5, <2>1, <2>2, <2>3, HoldStep
<1>8. Accounts({}, {})
  BY <1>1, QuietAccounts
<1>. QED
  BY <1>7, <1>8

\* A flow between attempts of a wrapped step has nothing running.
LEMMA NoneRunning ==
  ASSUME StructureInv, NEW r \in DOMAIN flow, flow[r].phase \notin {"running", "done"}
  PROVE  status[r] = "running" /\ \A x \in Executions : Parent(x) = r => status[x] # "running"
<1>1. FlowFits(r, flow[r])
  BY FlowIs
<1>. QED
  BY <1>1 DEF FlowFits

\* A cache hit stands in for an execution.
LEMMA CacheHitAccounts ==
  ASSUME StructureInv, NEW r \in DOMAIN flow, CacheHit(r), NEW e, e = NextExecution(r, r, Current(r))
  PROVE  /\ StructureInv' /\ Accounts({e}, HeldSet)
         /\ IsExecution(e) /\ RunOf(e) = r /\ StepOf(e) = Current(r) /\ Parent(e) = r
<1>1. /\ flow[r].phase \in {"visit", "retry"} /\ Wrapped(r) /\ UNCHANGED <<world, decided>>
      /\ status' = With(status, e, "succeeded") /\ held' = e
  BY DEF CacheHit
<1>2. status[r] = "running" /\ \A x \in Executions : Parent(x) = r => status[x] # "running"
  BY <1>1, NoneRunning
<1>3. /\ SpansTyped' /\ MovesOnly(r) /\ Executions' = Executions \cup {e} /\ e \notin Executions
      /\ Starting(e) /\ IsExecution(e) /\ Parent(e) = r /\ StepOf(e) = Current(r) /\ RunOf(e) = r
      /\ e # RootRun /\ status'[e] = "succeeded" /\ (\A y \in DOMAIN status : status'[y] = status[y])
      /\ \A x \in Executions' : Parent(x) = r => status'[x] # "running"
      /\ r = RootRun
  BY <1>1, <1>2, StandInIs
<1>4. e \in Spans
  BY <1>3 DEF IsExecution
<1>5. PICK g \in Flows : /\ flow' = [flow EXCEPT ![r] = g] /\ g.phase = "returned"
                         /\ g.at = flow[r].at /\ g.last = e
  <2>. DEFINE h == [flow[r] EXCEPT !.phase = "returned", !.last = e, !.tries = @ + 1]
  <2>1. flow[r] \in Flows
    BY FlowIs
  <2>2. flow[r].tries + 1 \in Nat
    BY <2>1 DEF Flows
  <2>3. h \in Flows /\ h.phase = "returned" /\ h.at = flow[r].at /\ h.last = e
    BY <1>4, <2>1, <2>2 DEF Flows, Phases
  <2>4. flow' = [flow EXCEPT ![r] = h]
    BY DEF CacheHit
  <2>. HIDE DEF h
  <2>. QED
    BY <2>3, <2>4
<1>6. StructureInv'
  <2>1. held' \in Executions' /\ Parent(held') = r /\ status'[held'] = "succeeded" /\ StepOf(held') = Current(r)
    BY <1>1, <1>3
  <2>. HIDE DEF StructureInv
  <2>. QED
    BY <1>1, <1>2, <1>3, <1>5, <2>1, HoldStep
<1>7. Accounts({e}, HeldSet)
  BY <1>1, <1>3, <1>4, StandInAccounts
<1>. QED
  BY <1>3, <1>6, <1>7

\* A wrapped step that returned or failed is decided, and what was held is told.
LEMMA ReleasedAccounts ==
  ASSUME StructureInv, NEW r \in DOMAIN flow, Commits(r) \/ WrapperFails(r)
  PROVE  StructureInv' /\ Accounts({}, HeldSet)
<1>. DEFINE e == flow[r].last
<1>1. flow[r].phase \in {"returned", "failing"} /\ UNCHANGED <<world, status>> /\ held' = NoSpan
  BY DEF Commits, WrapperFails
<1>2. VisitFits(r, e) /\ status[e] # "running"
  BY <1>1, VisitIs
<1>3. Wrapped(r)
  BY <1>1, FlowIs DEF FlowFits, Wrapped
<1>4. r = RootRun
  BY <1>3, WrappedIs
<1>5. PICK d : IsDecision(d) /\ Decide(r, e, d)
  <2>1. flow[r] \in Flows
    BY FlowIs
  <2>2. CASE \E d \in SuccessDecisions(r) \cup FailureDecisions(r) : Decide(r, e, d)
    BY <2>1, <2>2, FlowDecides
  <2>3. CASE Decide(r, e, Decision(FALSE, "none", "fail"))
    <3>1. "fail" \in Directions
      BY DEF Directions
    <3>2. IsDecision(Decision(FALSE, "none", "fail"))
      BY <3>1, DecisionIs
    <3>. QED
      BY <2>3, <3>2
  <2>. QED
    BY <2>2, <2>3 DEF Commits, WrapperFails
<1>6. SpansTyped' /\ MovesOnly(r) /\ Executions' = Executions
  BY <1>1, <1>4, StandsStill
<1>7. StructureInv'
  <2>1. e \in Executions' /\ status'[e] # "running" /\ Parent(e) = r /\ StepOf(e) = Current(r) /\ status[r] = "running"
    BY <1>1, <1>2, <1>6 DEF VisitFits
  <2>2. \A x \in Executions' : Parent(x) = r => status'[x] # "running"
    BY <1>1, <1>2, <1>6 DEF VisitFits
  <2>3. PICK x : x = e
    OBVIOUS
  <2>. HIDE DEF StructureInv, e
  <2>. QED
    BY <1>1, <1>5, <1>6, <2>1, <2>2, <2>3, DecideStep
<1>8. Accounts({}, HeldSet)
  BY <1>1, ReleaseAccounts
<1>. QED
  BY <1>7, <1>8

\* A transition fails the execution that was held.
LEMMA TransitionFailsAccounts ==
  ASSUME StructureInv, NEW r \in DOMAIN flow, TransitionFails(r)
  PROVE  StructureInv' /\ Accounts({}, {held}) /\ held # NoSpan /\ held \in Executions
<1>1. /\ flow[r].phase = "returned" /\ world' = world /\ held' = NoSpan
      /\ status' = [status EXCEPT ![held] = "failed"]
  BY DEF TransitionFails
<1>2. VisitFits(r, held) /\ flow[r].last = held
  <2>1. flow[r].last = held
    BY <1>1, FlowIs DEF FlowFits, Visited
  <2>. QED
    BY <1>1, <2>1, VisitIs
<1>3. Wrapped(r)
  BY <1>1, FlowIs DEF FlowFits, Wrapped
<1>4. r = RootRun /\ held \in Executions /\ held # NoSpan /\ Inside(held) = {}
  BY <1>2, <1>3, WrappedIs DEF VisitFits, NoSpan, RootRun
<1>5. PICK e : e = held
  OBVIOUS
<1>6. PICK d \in FailureDecisions(r) : Decide(r, e, d)
  BY <1>2, <1>5 DEF TransitionFails
<1>7. IsDecision(d)
  BY <1>6, FlowIs, FlowDecides
<1>8. Ends(r, e, "failed")
  BY <1>1, <1>2, <1>4, <1>5, EndsIs DEF VisitFits
<1>9. VisitFits(r, e)
  BY <1>2, <1>5
<1>10. StructureInv'
  <2>1. e \in Executions' /\ status'[e] # "running" /\ SpansTyped' /\ MovesOnly(r)
    BY <1>8, <1>9 DEF VisitFits, Ends
  <2>2. \A x \in Executions' : Parent(x) = r => status'[x] # "running"
    BY <1>8, <1>9 DEF VisitFits, Ends, Executions
  <2>. HIDE DEF StructureInv
  <2>. QED
    BY <1>1, <1>6, <1>7, <1>9, <2>1, <2>2, DecideStep DEF VisitFits
<1>11. Accounts({}, {held})
  BY <1>1, <1>4, <1>9, <1>5, EndAccounts DEF VisitFits
<1>. QED
  BY <1>4, <1>10, <1>11

\* A merge of the results fails, as an execution of its own.
LEMMA MergeFailsAccounts ==
  ASSUME StructureInv, NEW r \in DOMAIN flow, MergeFails(r), NEW e, e = NextExecution(r, r, Current(r))
  PROVE  /\ StructureInv' /\ Accounts({e}, HeldSet \cup {e})
         /\ IsExecution(e) /\ RunOf(e) = r /\ StepOf(e) = Current(r) /\ Parent(e) = r
<1>1. /\ flow[r].phase = "returned" /\ world' = world /\ status' = With(status, e, "failed") /\ held' = NoSpan
  BY DEF MergeFails
<1>2. Wrapped(r)
  BY <1>1, FlowIs DEF FlowFits, Wrapped
<1>3. status[r] = "running" /\ \A x \in Executions : Parent(x) = r => status[x] # "running"
  BY <1>1, NoneRunning
<1>4. /\ SpansTyped' /\ MovesOnly(r) /\ Executions' = Executions \cup {e} /\ e \notin Executions
      /\ Starting(e) /\ IsExecution(e) /\ Parent(e) = r /\ StepOf(e) = Current(r) /\ RunOf(e) = r
      /\ e # RootRun /\ status'[e] = "failed" /\ (\A y \in DOMAIN status : status'[y] = status[y])
      /\ \A x \in Executions' : Parent(x) = r => status'[x] # "running"
      /\ r = RootRun
  BY <1>1, <1>2, <1>3, StandInIs
<1>5. PICK d \in FailureDecisions(r) : Decide(r, e, d)
  BY DEF MergeFails
<1>6. IsDecision(d)
  BY <1>5, FlowIs, FlowDecides
<1>7. StructureInv'
  <2>. HIDE DEF StructureInv
  <2>1. e \in Executions' /\ status'[e] # "running"
    BY <1>4
  <2>. QED
    BY <1>1, <1>3, <1>4, <1>5, <1>6, <2>1, DecideStep
<1>8. e \in Spans
  BY <1>4 DEF IsExecution
<1>9. Accounts({e}, HeldSet \cup {e})
  BY <1>1, <1>4, <1>8, StandInAccounts
<1>. QED
  BY <1>4, <1>7, <1>9

\* What a flow comes to when it has told an event of what it decided.
LEMMA TellsTo ==
  ASSUME StructureInv, NEW r \in DOMAIN flow, Tells(r)
  PROVE  \E g \in Flows :
           /\ flow' = [flow EXCEPT ![r] = g] /\ g.last = flow[r].last
           /\ \/ g.phase = "decided" /\ g.at = flow[r].at /\ g.todo # <<>>
              \/ /\ g.phase \in {"visit", "ended"} /\ g.at \in DOMAIN StepsOf(r)
                 /\ g.at \in {flow[r].at, flow[r].at + 1}
<1>1. /\ world \in Worlds /\ flow[r] \in Flows /\ FlowFits(r, flow[r])
  BY FlowIs
<1>2. flow[r].phase = "decided" /\ flow[r].todo # <<>>
  BY <1>1 DEF Tells, FlowFits
<1>. DEFINE rest == [flow[r] EXCEPT !.todo = Tail(@)]
<1>3. /\ rest \in Flows /\ rest.phase = "decided" /\ rest.at = flow[r].at /\ rest.last = flow[r].last
      /\ rest.visits \in Nat /\ rest.at \in Nat
  <2>1. flow[r].todo \in Seq({"rejected", "taken", "resolve"})
    BY <1>1 DEF Flows
  <2>2. Tail(flow[r].todo) \in Seq({"rejected", "taken", "resolve"})
    BY <1>2, <2>1
  <2>. QED
    BY <1>1, <1>2, <2>2 DEF Flows
<1>4. flow' = [flow EXCEPT ![r] = IF rest.todo = <<>> THEN GoesOn(rest, r) ELSE rest]
  BY DEF Tells
<1>5. flow[r].at \in DOMAIN StepsOf(r)
  BY <1>1 DEF FlowFits
<1>6. PICK q \in Flows : /\ q = rest /\ q.phase = "decided" /\ q.at = flow[r].at /\ q.last = flow[r].last
                         /\ q.visits \in Nat /\ q.at \in Nat
  BY <1>3
<1>7. flow' = [flow EXCEPT ![r] = IF q.todo = <<>> THEN GoesOn(q, r) ELSE q]
  BY <1>4, <1>6
<1>. HIDE DEF rest
<1>8. CASE q.todo # <<>>
  BY <1>6, <1>7, <1>8
<1>9. CASE q.todo = <<>>
  <2>1. CASE q.to = "again"
    <3>. DEFINE h == [q EXCEPT !.phase = "visit", !.tries = 0, !.visits = @ + 1, !.rewinding = TRUE]
    <3>1. GoesOn(q, r) = h
      BY <2>1 DEF GoesOn
    <3>2. q.visits + 1 \in Nat
      BY <1>6
    <3>3. h \in Flows /\ h.phase = "visit" /\ h.at = q.at /\ h.last = q.last
      BY <1>6, <3>2 DEF Flows, Phases
    <3>. HIDE DEF h
    <3>. QED
      BY <1>5, <1>6, <1>7, <1>9, <3>1, <3>3
  <2>2. CASE q.to = "next" /\ q.at < Len(StepsOf(r))
    <3>. DEFINE h == [q EXCEPT !.phase = "visit", !.tries = 0, !.at = @ + 1, !.rewinding = FALSE]
    <3>1. GoesOn(q, r) = h
      BY <2>2 DEF GoesOn
    <3>2. q.at + 1 \in Nat /\ q.at + 1 \in DOMAIN StepsOf(r)
      <4>1. DOMAIN StepsOf(r) = 1..Len(StepsOf(r)) /\ Len(StepsOf(r)) \in Nat
        BY <1>1, StepsAre
      <4>. QED
        BY <1>5, <1>6, <2>2, <4>1
    <3>3. h \in Flows /\ h.phase = "visit" /\ h.at = q.at + 1 /\ h.last = q.last
      BY <1>6, <3>2 DEF Flows, Phases
    <3>. HIDE DEF h
    <3>. QED
      BY <1>5, <1>6, <1>7, <1>9, <3>1, <3>2, <3>3
  <2>3. CASE q.to # "again" /\ ~(q.to = "next" /\ q.at < Len(StepsOf(r)))
    <3>. DEFINE h == [q EXCEPT !.phase = "ended"]
    <3>1. GoesOn(q, r) = h
      BY <2>3 DEF GoesOn
    <3>3. h \in Flows /\ h.phase = "ended" /\ h.at = q.at /\ h.last = q.last
      BY <1>6 DEF Flows, Phases
    <3>. HIDE DEF h
    <3>. QED
      BY <1>5, <1>6, <1>7, <1>9, <3>1, <3>3
  <2>. QED
    BY <2>1, <2>2, <2>3
<1>. QED
  BY <1>8, <1>9

\* A flow that tells what it decided starts and ends nothing.
LEMMA TellsAccounts ==
  ASSUME StructureInv, NEW r \in DOMAIN flow, Tells(r)
  PROVE  StructureInv' /\ Accounts({}, {})
<1>1. flow[r].phase = "decided" /\ UNCHANGED <<world, status, held, decided>>
  BY DEF Tells
<1>2. PICK g \in Flows :
           /\ flow' = [flow EXCEPT ![r] = g] /\ g.last = flow[r].last
           /\ \/ g.phase = "decided" /\ g.at = flow[r].at /\ g.todo # <<>>
              \/ /\ g.phase \in {"visit", "ended"} /\ g.at \in DOMAIN StepsOf(r)
                 /\ g.at \in {flow[r].at, flow[r].at + 1}
  BY TellsTo
<1>3. VisitFits(r, flow[r].last) /\ status[flow[r].last] # "running"
  BY <1>1, VisitIs
<1>4. SpansTyped' /\ MovesOnly(r) /\ Executions' = Executions
  BY <1>1, StandsStill
<1>5. StepsOf(r)' = StepsOf(r)
  BY <1>1 DEF StepsOf
<1>6. FlowFits(r, flow[r]) /\ HeldFits /\ Current(r) = StepsOf(r)[flow[r].at] /\ held \in Spans /\ DecidedTyped
  BY FlowIs DEF StructureInv, TypeInv, DecidedTyped
<1>7. FlowFits(r, g)'
  <2>1. g.phase = "decided" => Visited(r, g)'
    BY <1>1, <1>2, <1>3, <1>4, <1>5, <1>6 DEF Visited, VisitFits
  <2>2. g.at \in DOMAIN StepsOf(r)'
    BY <1>2, <1>5, <1>6 DEF FlowFits
  <2>3. \A x \in Executions' : Parent(x) = r => status'[x] # "running"
    BY <1>1, <1>3, <1>4 DEF VisitFits
  <2>4. status'[r] = "running"
    BY <1>1, <1>3 DEF VisitFits
  <2>5. g.phase \in {"decided", "visit", "ended"}
    BY <1>2
  <2>. QED
    BY <1>2, <2>1, <2>2, <2>3, <2>4, <2>5 DEF FlowFits
<1>8. r = RootRun => HeldFits'
  BY <1>1, <1>6 DEF HeldFits
<1>9. DecidedTyped' /\ held' \in Spans
  BY <1>1, <1>4, <1>6 DEF DecidedTyped
<1>10. StructureInv'
  <2>. HIDE DEF StructureInv
  <2>. QED
    BY <1>2, <1>4, <1>7, <1>8, <1>9, RunMoves
<1>11. Accounts({}, {})
  BY <1>1, QuietAccounts
<1>. QED
  BY <1>10, <1>11

\* A run ends when its flow has.
LEMMA RunEndAccounts ==
  ASSUME StructureInv, NEW r \in DOMAIN flow, RunEnds(r)
  PROVE  /\ StructureInv' /\ Accounts({}, {r}) /\ IsRun(r) /\ r \in Spans /\ Executions' = Executions
         /\ \A y \in Inside(r) : status[y] # "running"
<1>1. TypeInv /\ SpansFit /\ FlowInv
  BY DEF StructureInv
<1>2. /\ flow[r].phase = "ended" /\ UNCHANGED <<world, held, decided>>
      /\ flow' = [flow EXCEPT ![r].phase = "done"]
  BY DEF RunEnds
<1>3. PICK v \in {"succeeded", "failed"} : status' = [status EXCEPT ![r] = v]
  BY DEF RunEnds
<1>4. /\ r \in DOMAIN status /\ r \in Spans /\ IsRun(r) /\ flow[r] \in Flows /\ FlowFits(r, flow[r]) /\ HeldFits
  BY FlowIs
<1>5. status[r] = "running" /\ \A x \in Executions : Parent(x) = r => status[x] # "running"
  BY <1>2, NoneRunning
<1>6. ASSUME NEW c \in DOMAIN status, c # RootRun, Parent(c) = r PROVE status[c] # "running"
  <2>1. ~IsRun(c)
    BY <1>1, <1>4, <1>6 DEF SpansFit, RunFits
  <2>. QED
    BY <1>5, <1>6, <2>1 DEF Executions
<1>7. \A y \in Inside(r) : status[y] # "running"
  BY <1>1, <1>4, <1>6, NothingRuns
<1>8. /\ SpansFit'
      /\ status' \in [DOMAIN status' -> Statuses] /\ DOMAIN status' \subseteq Spans
      /\ IsFiniteSet(DOMAIN status')
      /\ Executions' = Executions /\ DOMAIN status' = DOMAIN status /\ status'[r] = v
      /\ \A y \in DOMAIN status : y # r => status'[y] = status[y]
  BY <1>1, <1>2, <1>3, <1>4, <1>7, SpansEnd
<1>. DEFINE h == [flow[r] EXCEPT !.phase = "done"]
<1>9. PICK g \in Flows : flow' = [flow EXCEPT ![r] = g] /\ g.phase = "done" /\ g.at = flow[r].at
  <2>1. h \in Flows /\ h.phase = "done" /\ h.at = flow[r].at
    BY <1>4 DEF Flows, Phases
  <2>2. flow' = [flow EXCEPT ![r] = h]
    BY <1>2
  <2>. QED
    BY <2>1, <2>2
<1>. HIDE DEF h
<1>10. /\ DOMAIN flow' = DOMAIN flow /\ flow'[r] = g /\ flow' \in [DOMAIN flow' -> Flows]
       /\ \A q \in DOMAIN flow : q # r => flow'[q] = flow[q]
  BY <1>1, <1>9 DEF TypeInv
<1>11. TypeInv'
  BY <1>1, <1>2, <1>8, <1>10 DEF TypeInv
<1>12. FlowFits(r, g)'
  <2>1. StepsOf(r)' = StepsOf(r)
    BY <1>2 DEF StepsOf
  <2>2. g.at \in DOMAIN StepsOf(r)'
    BY <1>4, <1>9, <2>1 DEF FlowFits
  <2>3. ~IsRun(r) \/ \A x \in Executions : x # r
    BY DEF Executions
  <2>4. \A x \in Executions' : Parent(x) = r => status'[x] # "running"
    BY <1>4, <1>5, <1>8, <2>3 DEF Executions
  <2>. QED
    BY <1>9, <2>2, <2>4 DEF FlowFits
<1>13. ASSUME NEW q \in DOMAIN flow, q # r PROVE FlowFits(q, flow[q])'
  <2>1. q \in DOMAIN status
    BY <1>1 DEF TypeInv
  <2>2. \A y \in Executions : status'[y] = status[y]
    BY <1>4, <1>8 DEF Executions
  <2>. HIDE DEF StructureInv
  <2>. QED
    BY <1>2, <1>8, <1>10, <1>13, <2>1, <2>2, FlowStays
<1>14. r = RootRun => held = NoSpan
  BY <1>2, <1>4 DEF HeldFits
<1>15. HeldFits'
  <2>1. ASSUME held # NoSpan PROVE flow'[RootRun] = flow[RootRun] /\ status'[held] = status[held]
    <3>1. held \in Executions /\ held \in DOMAIN status
      BY <2>1, HeldIs
    <3>2. RootRun \in DOMAIN flow
      BY <1>1, <3>1 DEF SpansFit, TypeInv, IsRun
    <3>3. held # r
      BY <1>4, <3>1 DEF Executions
    <3>. QED
      BY <1>8, <1>10, <1>14, <2>1, <3>1, <3>2, <3>3
  <2>. HIDE DEF StructureInv
  <2>. QED
    BY <1>2, <1>8, <2>1, HeldStays
<1>16. StructureInv'
  <2>1. \A q \in DOMAIN flow' : FlowFits(q, flow[q])'
    BY <1>10, <1>12, <1>13
  <2>. QED
    BY <1>8, <1>11, <1>15, <2>1 DEF StructureInv, FlowInv
<1>17. Accounts({}, {r})
  BY <1>2, <1>3, <1>4, <1>5, <1>7, <1>14, EndAccounts
<1>. QED
  BY <1>4, <1>7, <1>8, <1>16, <1>17

-----------------------------------------------------------------------------
(* What has been told of the spans in B, that started, and of those in E,    *)
(* whose ends were told.                                                     *)

BeginKeys(x) == IF IsRun(x) THEN Inputs[PipelineOf(x)] ELSE Reads[StepOf(x)]
EndKeys(x) == IF IsRun(x) THEN {} ELSE Writes[StepOf(x)]
Telling(o, B, E) ==
  /\ o \in ObsRecords /\ Spoken(o) \subseteq B
  /\ \A x \in Spans : x \in B => ToldIn(o, "begin", x, Watchers(At(x))) /\ RememberedBy(o, At(x), BeginKeys(x))
  /\ \A x \in Spans : x \in E => ToldIn(o, "end", x, Watchers(At(x))) /\ RememberedBy(o, At(x), EndKeys(x))
  /\ \A x \in Spans : x \notin E => SilentIn(o, "end", x)

TellsBegin(o, p, x) ==
  /\ x \in Spans /\ Speaks(o, p, "begin", x, Watchers(At(x)), BeginEvents(x))
  /\ RememberedBy(p, At(x), BeginKeys(x))
TellsEnd(o, p, x, text) ==
  /\ x \in Spans /\ Speaks(o, p, "end", x, Watchers(At(x)), EndEvents(x, text, o.memory))
  /\ RememberedBy(p, At(x), EndKeys(x))

\* The audience is of observers there are.
LEMMA WatchersAre ==
  ASSUME world \in Worlds, NEW r
  PROVE  Watchers(r) \in SUBSET Everyone
  BY DEF Watchers, Everyone

\* What is remembered stays remembered.
LEMMA RememberedStays ==
  ASSUME NEW o, NEW p, o.memory \subseteq p.memory, NEW r, NEW keys, RememberedBy(o, r, keys)
  PROVE  RememberedBy(p, r, keys)
  BY DEF RememberedBy, RemembersIn

\* Nobody was told what was not spoken of.
LEMMA SilentTold ==
  ASSUME NEW o, NEW k, NEW x, SilentIn(o, k, x)
  PROVE  ToldIn(o, k, x, {})
  BY DEF SilentIn, ToldIn
\* Of a span that no event is about nothing has been told.
LEMMA UnspokenSilent ==
  ASSUME NEW o, NEW k, NEW x, x \notin Spoken(o)
  PROVE  SilentIn(o, k, x)
  BY DEF Spoken, EventsOf, SilentIn, Marked

\* A start that is told.
LEMMA BeginTelling ==
  ASSUME world \in Worlds, NEW o, NEW B, NEW E, Telling(o, B, E), NEW p, NEW x, x \notin B, TellsBegin(o, p, x)
  PROVE  Telling(p, B \cup {x}, E)
<1>. DEFINE T == Watchers(At(x))
<1>1. /\ x \in Spans /\ p \in ObsRecords /\ o.memory \subseteq p.memory
      /\ Spoken(p) \subseteq Spoken(o) \cup {x} /\ Moves(o, p, "begin", x, T)
      /\ RememberedBy(p, At(x), BeginKeys(x))
  BY DEF TellsBegin, Speaks
<1>2. Spoken(p) \subseteq B \cup {x}
  BY <1>1 DEF Telling
<1>3. ASSUME NEW y \in Spans, y \in B \cup {x}
      PROVE  ToldIn(p, "begin", y, Watchers(At(y))) /\ RememberedBy(p, At(y), BeginKeys(y))
  <2>1. CASE y = x
    <3>1. ToldIn(o, "begin", x, {})
      BY SilentTold, UnspokenSilent DEF Telling
    <3>2. {} \in SUBSET Everyone /\ {} \cap T = {} /\ {} \cup T = T
      OBVIOUS
    <3>. HIDE DEF T
    <3>3. ToldIn(p, "begin", x, T)
      BY <1>1, <3>1, <3>2 DEF Moves
    <3>. QED
      BY <1>1, <2>1, <3>3 DEF T
  <2>2. CASE y # x
    <3>1. ToldIn(o, "begin", y, Watchers(At(y))) /\ RememberedBy(o, At(y), BeginKeys(y))
      BY <1>3, <2>2 DEF Telling
    <3>2. Watchers(At(y)) \in SUBSET Everyone
      BY WatchersAre
    <3>3. ToldIn(p, "begin", y, Watchers(At(y)))
      BY <1>1, <2>2, <3>1, <3>2 DEF Moves
    <3>. QED
      BY <1>1, <3>1, <3>3, RememberedStays
  <2>. QED
    BY <2>1, <2>2
<1>4. ASSUME NEW y \in Spans, y \in E
      PROVE  ToldIn(p, "end", y, Watchers(At(y))) /\ RememberedBy(p, At(y), EndKeys(y))
  <2>1. ToldIn(o, "end", y, Watchers(At(y))) /\ RememberedBy(o, At(y), EndKeys(y))
    BY <1>4 DEF Telling
  <2>2. Watchers(At(y)) \in SUBSET Everyone
    BY WatchersAre
  <2>3. ToldIn(p, "end", y, Watchers(At(y)))
    BY <1>1, <2>1, <2>2 DEF Moves
  <2>. QED
    BY <1>1, <2>1, <2>3, RememberedStays
<1>5. ASSUME NEW y \in Spans, y \notin E PROVE SilentIn(p, "end", y)
  BY <1>1, <1>5 DEF Moves, Telling
<1>. QED
  BY <1>1, <1>2, <1>3, <1>4, <1>5 DEF Telling

\* An end that is told.
LEMMA EndTelling ==
  ASSUME world \in Worlds, NEW o, NEW B, NEW E, Telling(o, B, E), NEW p, NEW x \in B, x \notin E,
         NEW text, TellsEnd(o, p, x, text)
  PROVE  Telling(p, B, E \cup {x})
<1>. DEFINE T == Watchers(At(x))
<1>1. /\ x \in Spans /\ p \in ObsRecords /\ o.memory \subseteq p.memory
      /\ Spoken(p) \subseteq Spoken(o) \cup {x} /\ Moves(o, p, "end", x, T)
      /\ RememberedBy(p, At(x), EndKeys(x))
  BY DEF TellsEnd, Speaks
<1>2. Spoken(p) \subseteq B
  BY <1>1 DEF Telling
<1>3. ASSUME NEW y \in Spans, y \in E \cup {x}
      PROVE  ToldIn(p, "end", y, Watchers(At(y))) /\ RememberedBy(p, At(y), EndKeys(y))
  <2>1. CASE y = x
    <3>1. ToldIn(o, "end", x, {})
      BY <1>1, SilentTold DEF Telling
    <3>2. {} \in SUBSET Everyone /\ {} \cap T = {} /\ {} \cup T = T
      OBVIOUS
    <3>. HIDE DEF T
    <3>3. ToldIn(p, "end", x, T)
      BY <1>1, <3>1, <3>2 DEF Moves
    <3>. QED
      BY <1>1, <2>1, <3>3 DEF T
  <2>2. CASE y # x
    <3>1. ToldIn(o, "end", y, Watchers(At(y))) /\ RememberedBy(o, At(y), EndKeys(y))
      BY <1>3, <2>2 DEF Telling
    <3>2. Watchers(At(y)) \in SUBSET Everyone
      BY WatchersAre
    <3>3. ToldIn(p, "end", y, Watchers(At(y)))
      BY <1>1, <2>2, <3>1, <3>2 DEF Moves
    <3>. QED
      BY <1>1, <3>1, <3>3, RememberedStays
  <2>. QED
    BY <2>1, <2>2
<1>4. ASSUME NEW y \in Spans, y \in B
      PROVE  ToldIn(p, "begin", y, Watchers(At(y))) /\ RememberedBy(p, At(y), BeginKeys(y))
  <2>1. ToldIn(o, "begin", y, Watchers(At(y))) /\ RememberedBy(o, At(y), BeginKeys(y))
    BY <1>4 DEF Telling
  <2>2. Watchers(At(y)) \in SUBSET Everyone
    BY WatchersAre
  <2>3. ToldIn(p, "begin", y, Watchers(At(y)))
    BY <1>1, <2>1, <2>2 DEF Moves
  <2>. QED
    BY <1>1, <2>1, <2>3, RememberedStays
<1>5. ASSUME NEW y \in Spans, y \notin E \cup {x} PROVE SilentIn(p, "end", y)
  BY <1>1, <1>5 DEF Moves, Telling
<1>. QED
  BY <1>1, <1>2, <1>3, <1>4, <1>5 DEF Telling

\* What is told between starts and ends.
LEMMA QuietTelling ==
  ASSUME world \in Worlds, NEW o, NEW B, NEW E, Telling(o, B, E), NEW p, NEW x \in B,
         Speaks(o, p, "none", x, {}, {})
  PROVE  Telling(p, B, E)
<1>1. /\ p \in ObsRecords /\ o.memory \subseteq p.memory
      /\ Spoken(p) \subseteq Spoken(o) \cup {x} /\ Moves(o, p, "none", x, {})
  BY DEF Speaks
<1>2. ASSUME NEW k \in {"begin", "end"}, NEW y \in Spans
      PROVE  /\ ToldIn(o, k, y, Watchers(At(y))) => ToldIn(p, k, y, Watchers(At(y)))
             /\ SilentIn(o, k, y) => SilentIn(p, k, y)
  BY <1>1, WatchersAre DEF Moves
<1>3. \A r, keys : RememberedBy(o, r, keys) => RememberedBy(p, r, keys)
  BY <1>1, RememberedStays
<1>. QED
  BY <1>1, <1>2, <1>3 DEF Telling

-----------------------------------------------------------------------------
(* Nested runs run no others, so what is in one is told of in it.            *)

\* The length of a span.
LEMMA LenOfSpan == \A x \in Spans : Len(x) \in Nat
  BY DEF Spans

\* An execution inside another run than the whole one belongs to such a run.
LEMMA InsideNested ==
  ASSUME NEW e \in Spans, NEW r \in Spans, ~IsRun(e), IsRun(r), r # RootRun, Within(e, r)
  PROVE  RunOf(e) # RootRun
<1>1. Len(r) <= Len(e) /\ SubSeq(e, 1, Len(r)) = r /\ Len(r) \in Nat /\ Len(e) \in Nat
  BY WithinIs, LenOfSpan
<1>2. Len(r) # 0
  BY DEF RootRun, Spans
<1>3. r # e
  BY Zenon
<1>4. Len(r) # Len(e)
  <2>1. SubSeq(e, 1, Len(e)) = e
    BY DEF Spans
  <2>. QED
    BY <1>1, <1>3, <2>1
<1>5. Len(r) \in 1..(Len(e) - 1)
  BY <1>1, <1>2, <1>4
<1>6. e[Len(r)] = r[Len(r)]
  BY <1>1, <1>5 DEF Spans
<1>7. r[Len(r)] = RunMark
  BY DEF IsRun, Last
<1>. QED
  BY <1>5, <1>6, <1>7, RunOfIs

\* No run starts inside a nested one.
LEMMA NoDeeperRuns ==
  ASSUME TypeInv, SpansFit, NEW r \in DOMAIN status, NEW q \in DOMAIN status, IsRun(r), IsRun(q),
         r # RootRun, q # RootRun, Within(q, r)
  PROVE  q = r
<1>. SUFFICES ASSUME q # r PROVE FALSE
  OBVIOUS
<1>. DEFINE e == Parent(q)
<1>1. e \in DOMAIN status /\ e \in Spans /\ Last(q) \in Marks /\ q = Append(e, Last(q)) /\ r \in Spans
  BY ParentStarted DEF TypeInv
<1>2. ~IsRun(e) /\ StepOf(e) \in ProgramSteps
  BY DEF SpansFit, RunFits
<1>. HIDE DEF e
<1>3. Within(e, r)
  <2>1. PICK a \in Marks : q = Append(e, a)
    BY <1>1
  <2>. QED
    BY <1>1, <2>1, WithinAppend DEF Marks
<1>4. RunOf(e) # RootRun
  BY <1>1, <1>2, <1>3, InsideNested
<1>5. ExecutionFits(e)
  BY <1>1, <1>2, ExecutionsAre DEF Executions
<1>. QED
  BY <1>2, <1>4, <1>5, InnerIs DEF ExecutionFits, IsInner

\* What a span is within has started with it.
LEMMA AroundStarted ==
  ASSUME TypeInv, SpansFit, NEW y \in DOMAIN status, NEW x \in Spans, Within(y, x)
  PROVE  x \in DOMAIN status
<1>1. y \in Spans
  BY DEF TypeInv
<1>2. Len(x) \in 0..Len(y) /\ SubSeq(y, 1, Len(x)) = x
  <2>1. Len(x) <= Len(y) /\ SubSeq(y, 1, Len(x)) = x
    BY <1>1, WithinIs
  <2>2. Len(x) \in Nat /\ Len(y) \in Nat
    BY <1>1, LenOfSpan
  <2>. QED
    BY <2>1, <2>2
<1>. QED
  BY <1>2 DEF SpansFit

\* Of two spans around one, one is around the other.
LEMMA AroundBoth ==
  ASSUME NEW y \in Spans, NEW a \in Spans, NEW b \in Spans, Within(y, a), Within(y, b)
  PROVE  Within(a, b) \/ Within(b, a)
<1>1. /\ Len(a) <= Len(y) /\ SubSeq(y, 1, Len(a)) = a /\ Len(b) <= Len(y) /\ SubSeq(y, 1, Len(b)) = b
      /\ Len(a) \in Nat /\ Len(b) \in Nat /\ Len(y) \in Nat
  BY WithinIs, LenOfSpan
<1>2. ASSUME NEW m \in Nat, NEW n \in Nat, n <= m, m <= Len(y)
      PROVE  SubSeq(SubSeq(y, 1, m), 1, n) = SubSeq(y, 1, n)
  BY <1>1, <1>2 DEF Spans
<1>3. CASE Len(a) <= Len(b)
  <2>1. SubSeq(b, 1, Len(a)) = a
    BY <1>1, <1>2, <1>3
  <2>. QED
    BY <1>3, <2>1, WithinIs
<1>4. CASE Len(b) <= Len(a)
  <2>1. SubSeq(a, 1, Len(b)) = b
    BY <1>1, <1>2, <1>4
  <2>. QED
    BY <1>4, <2>1, WithinIs
<1>. QED
  BY <1>1, <1>3, <1>4

\* What is in a nested run, at any depth, is told of in that run.
LEMMA SameRun ==
  ASSUME TypeInv, SpansFit, NEW x \in DOMAIN status, NEW y \in DOMAIN status, Within(y, x), At(x) # RootRun
  PROVE  At(y) = At(x)
<1>1. /\ x \in Spans /\ y \in Spans
      /\ At(x) \in Spans /\ IsRun(At(x)) /\ Within(x, At(x))
      /\ At(y) \in Spans /\ IsRun(At(y)) /\ Within(y, At(y))
  BY RunsAroundAre DEF TypeInv
<1>2. Within(y, At(x))
  BY <1>1, WithinTransitive
<1>3. At(x) \in DOMAIN status /\ At(y) \in DOMAIN status
  BY <1>1, <1>2, AroundStarted
<1>4. CASE At(y) # RootRun
  BY <1>1, <1>2, <1>3, <1>4, AroundBoth, NoDeeperRuns
<1>5. CASE At(y) = RootRun
  <2>1. CASE IsRun(y)
    <3>1. y = RootRun
      BY <1>5, <2>1 DEF At
    <3>2. Within(RootRun, At(x))
      BY <1>2, <3>1
    <3>3. At(x) = RootRun
      <4>1. RootRun \in Spans /\ Len(RootRun) = 0
        BY DEF RootRun, Spans
      <4>2. Len(At(x)) <= Len(RootRun) /\ Len(At(x)) \in Nat
        BY <1>1, <3>2, <4>1, WithinIs, LenOfSpan
      <4>3. Len(At(x)) = 0
        BY <4>1, <4>2
      <4>. QED
        BY <1>1, <4>3 DEF RootRun, Spans
    <3>. QED
      BY <3>3
  <2>2. CASE ~IsRun(y)
    BY <1>1, <1>2, <1>5, <2>2, InsideNested DEF At
  <2>. QED
    BY <2>1, <2>2
<1>. QED
  BY <1>4, <1>5

\* The spans whose ends were told, and the text an error of a span may have.
OverSet == {x \in DOMAIN status : ~Untold(x)}
TextOf(x) == ErrorText(x) \cup (IF IsRun(x) THEN {} ELSE Reads[StepOf(x)] \cup Writes[StepOf(x)])

\* What a run remembers of what it hides is on the trace of each lane around it.
LEMMA TraceRemembers ==
  ASSUME world \in Worlds, NEW r \in Spans, NEW q \in Spans, NEW name \in Names, Live(LanesOf(r)[name]),
         q = r \/ r = RootRun, NEW o, NEW keys, RememberedBy(o, q, keys), NEW k \in keys, k \in HidesOf(q)
  PROVE  <<LanesOf(r)[name].trace, k>> \in o.memory
<1>1. Live(LanesOf(q)[name]) /\ LanesOf(q)[name].trace = LanesOf(r)[name].trace
  BY LiveLaneIs
<1>2. LanesOf(q)[name].hides = HidesOf(q)
  BY <1>1, LiveLaneIs
<1>3. RemembersIn(o, LanesOf(q)[name], keys)
  BY <1>1 DEF RememberedBy
<1>. QED
  BY <1>1, <1>2, <1>3 DEF RemembersIn

\* An execution that failed, or that is over in a nested run, has been told of.
LEMMA OverIs ==
  ASSUME StructureInv, NEW e \in Executions, status[e] # "running", status[e] = "failed" \/ RunOf(e) # RootRun
  PROVE  e \in OverSet
<1>1. e \in DOMAIN status
  BY DEF Executions
<1>2. ASSUME e = held, held # NoSpan PROVE FALSE
  <2>1. status[held] = "succeeded" /\ Parent(held) = RootRun /\ held \in DOMAIN status
    BY <1>2, HeldIs
  <2>2. held = Append(RootRun, Last(held)) /\ Last(held) \in Marks
    BY <1>2, <2>1, ParentStarted DEF StructureInv, NoSpan, RootRun
  <2>3. RunOf(held) = RootRun
    <3>1. RootRun \in Spans /\ At(RootRun) = RootRun
      BY DEF RootRun, Spans, At, IsRun
    <3>. QED
      BY <2>2, <3>1, AtAppend
  <2>. QED
    BY <1>2, <2>1, <2>3
<1>. QED
  BY <1>1, <1>2 DEF OverSet, Untold

\* An execution that is over is remembered with all it handled.
LEMMA HandledTold ==
  ASSUME StructureInv, NEW o, NEW B, NEW E, Telling(o, B, E), DOMAIN status \subseteq B, OverSet \subseteq E,
         NEW e \in Executions, e \in OverSet, NEW k \in Reads[StepOf(e)] \cup Writes[StepOf(e)]
  PROVE  \E keys : k \in keys /\ RememberedBy(o, At(e), keys)
<1>1. e \in DOMAIN status /\ e \in Spans /\ ~IsRun(e)
  BY DEF Executions, StructureInv, TypeInv
<1>2. RememberedBy(o, At(e), Reads[StepOf(e)]) /\ RememberedBy(o, At(e), Writes[StepOf(e)])
  BY <1>1 DEF Telling, BeginKeys, EndKeys
<1>. QED
  BY <1>2

\* What an end says is nothing that is hidden around it.
LEMMA EndHidesAround ==
  ASSUME StructureInv, NEW o, NEW B, NEW E, Telling(o, B, E), DOMAIN status \subseteq B, OverSet \subseteq E,
         NEW x \in B, x \in Spans, x \in DOMAIN status \/ \A y \in DOMAIN status : ~Within(y, x),
         NEW text, text \subseteq TextOf(x), NEW ev \in EndEvents(x, text, o.memory)
  PROVE  ev.says \cap HidesOf(At(x)) = {}
<1>. SUFFICES ASSUME NEW k \in ev.says, k \in HidesOf(At(x)) PROVE FALSE
  OBVIOUS
<1>1. TypeInv /\ SpansFit /\ world \in Worlds /\ At(x) \in Spans
  BY RunsAroundAre DEF StructureInv, TypeInv
<1>2. k \in TextOf(x) /\ \E name \in Names : Clean(ev.says, x, LanesOf(At(x))[name], o.memory)
  BY DEF EndEvents
<1>3. PICK name \in Names : Clean(ev.says, x, LanesOf(At(x))[name], o.memory)
  BY <1>2
<1>. DEFINE lane == LanesOf(At(x))[name]
<1>4. Live(lane) /\ <<lane.trace, k>> \notin o.memory /\ (~IsRun(x) => k \notin Writes[StepOf(x)] \cap lane.hides)
  BY <1>3 DEF Clean
<1>5. lane.hides = HidesOf(At(x))
  BY <1>1, <1>4, LiveLaneIs
<1>6. ASSUME ~IsRun(x), k \in Reads[StepOf(x)] PROVE FALSE
  <2>1. RememberedBy(o, At(x), Reads[StepOf(x)])
    BY <1>6 DEF Telling, BeginKeys
  <2>. QED
    BY <1>1, <1>4, <1>6, <2>1, TraceRemembers
<1>7. ASSUME k \in ErrorText(x) PROVE FALSE
  <2>1. PICK y \in Executions : Within(y, x) /\ status[y] = "failed" /\ k \in Reads[StepOf(y)] \cup Writes[StepOf(y)]
    BY <1>7 DEF ErrorText
  <2>2. y \in DOMAIN status /\ y \in OverSet /\ y \in Spans
    BY <1>1, <2>1, OverIs DEF Executions, TypeInv
  <2>3. x \in DOMAIN status
    BY <2>1, <2>2
  <2>4. PICK keys : k \in keys /\ RememberedBy(o, At(y), keys)
    BY <2>1, <2>2, HandledTold
  <2>5. At(y) = At(x) \/ At(x) = RootRun
    BY <1>1, <2>1, <2>2, <2>3, SameRun
  <2>6. At(y) \in Spans /\ k \in HidesOf(At(y))
    BY <2>2, <2>5, RunsAroundAre DEF HidesOf
  <2>. QED
    BY <1>1, <1>4, <2>4, <2>5, <2>6, TraceRemembers
<1>. QED
  BY <1>2, <1>4, <1>5, <1>6, <1>7 DEF TextOf

\* Nor anything that a run inside it hid.
LEMMA EndHidesInside ==
  ASSUME StructureInv, NEW o, NEW B, NEW E, Telling(o, B, E), DOMAIN status \subseteq B, OverSet \subseteq E,
         NEW x \in B, x \in Spans, x \in DOMAIN status \/ \A y \in DOMAIN status : ~Within(y, x),
         \A y \in Inside(x) : status[y] # "running",
         NEW text, NEW ev \in EndEvents(x, text, o.memory)
  PROVE  ev.says \cap HiddenInside(x) = {}
<1>. SUFFICES ASSUME NEW k \in ev.says, k \in HiddenInside(x) PROVE FALSE
  OBVIOUS
<1>1. /\ TypeInv /\ SpansFit /\ world \in Worlds
      /\ At(x) \in Spans /\ IsRun(At(x)) /\ Within(x, At(x)) /\ RootRun \in Spans
  BY RunsAroundAre DEF StructureInv, TypeInv, RootRun, Spans
<1>2. PICK r \in Inside(x) : IsRun(r) /\ k \in world.hides[PipelineOf(r)] /\ k \in Handled(r)
  BY DEF HiddenInside
<1>3. r \in DOMAIN status /\ r \in Spans /\ Within(r, x) /\ r # x /\ At(r) = r
  BY <1>1, <1>2 DEF Inside, TypeInv, At
<1>4. x \in DOMAIN status
  BY <1>3
<1>5. ASSUME Within(x, r) PROVE FALSE
  <2>1. Len(x) <= Len(r) /\ SubSeq(r, 1, Len(x)) = x /\ Len(r) <= Len(x) /\ Len(x) \in Nat /\ Len(r) \in Nat
    BY <1>3, <1>5, WithinIs, LenOfSpan
  <2>2. Len(x) = Len(r)
    BY <2>1
  <2>3. SubSeq(r, 1, Len(r)) = r
    BY <1>3 DEF Spans
  <2>. QED
    BY <1>3, <2>1, <2>2, <2>3
<1>6. At(x) = RootRun
  BY <1>1, <1>3, <1>4, <1>5, SameRun
<1>7. r # RootRun
  BY <1>5, WithinRoot
<1>8. k \in HidesOf(r)
  BY <1>2, <1>7 DEF HidesOf, PipelineOf
<1>9. PICK name \in Names : Live(LanesOf(RootRun)[name]) /\ <<LanesOf(RootRun)[name].trace, k>> \notin o.memory
  BY <1>6 DEF EndEvents, Clean
<1>10. ASSUME NEW keys, k \in keys, RememberedBy(o, r, keys) PROVE FALSE
  BY <1>1, <1>3, <1>8, <1>9, <1>10, TraceRemembers
<1>11. ASSUME k \in Inputs[PipelineOf(r)] PROVE FALSE
  <2>1. RememberedBy(o, r, Inputs[PipelineOf(r)])
    BY <1>2, <1>3 DEF Telling, BeginKeys
  <2>. QED
    BY <1>10, <1>11, <2>1
<1>12. ASSUME NEW e \in Executions, RunOf(e) = r, k \in Reads[StepOf(e)] \cup Writes[StepOf(e)] PROVE FALSE
  <2>1. e \in DOMAIN status /\ e \in Spans /\ ~IsRun(e) /\ At(e) = r
    BY <1>1, <1>12 DEF Executions, TypeInv, At
  <2>2. Within(e, r)
    BY <1>12, <2>1, RunOfIs
  <2>3. Within(e, x)
    BY <1>3, <2>1, <2>2, WithinTransitive
  <2>4. e # x
    BY <1>6, <1>7, <2>1
  <2>5. e \in OverSet
    BY <1>7, <1>12, <2>1, <2>3, <2>4, OverIs DEF Inside
  <2>6. PICK keys : k \in keys /\ RememberedBy(o, r, keys)
    BY <1>12, <2>1, <2>5, HandledTold
  <2>. QED
    BY <1>10, <2>6
<1>. QED
  BY <1>2, <1>11, <1>12 DEF Handled

-----------------------------------------------------------------------------
(* What is reported while the spans of N start and the ends of those of O    *)
(* are told.                                                                 *)

RedactedEnds(x) ==
  {ev \in Events : /\ MarkOf(ev.kind) = "end" /\ ev.span = x /\ ev.carries \cap HidesOf(At(x)) = {}
                   /\ ev.says \cap HidesOf(At(x)) = {} /\ ev.says \cap HiddenInside(x) = {}
                   /\ ev.says \subseteq TextOf(x)}
BeganEvents(N) == UNION {BeginEvents(x) : x \in N}
EndedEvents(O) == UNION {RedactedEnds(x) : x \in O}
Reporting(o, N, O) ==
  /\ Telling(o, DOMAIN status \cup N, OverSet \cup O)
  /\ EventsOf(o) \subseteq (EventsOf(obs) \cup QuietEvents) \cup (BeganEvents(N) \cup EndedEvents(O))

\* Two spans within each other are one.
LEMMA WithinBoth ==
  ASSUME NEW x \in Spans, NEW y \in Spans, Within(x, y), Within(y, x)
  PROVE  x = y
<1>1. Len(x) <= Len(y) /\ SubSeq(y, 1, Len(x)) = x /\ Len(y) <= Len(x) /\ Len(x) \in Nat /\ Len(y) \in Nat
  BY WithinIs, LenOfSpan
<1>2. Len(x) = Len(y)
  BY <1>1
<1>3. SubSeq(y, 1, Len(y)) = y
  BY DEF Spans
<1>. QED
  BY <1>1, <1>2, <1>3

\* The places of the starts and of the ends of a span in the log.
LEMMA PlacesAre ==
  ASSUME NEW o, NEW x
  PROVE  /\ {i \in DOMAIN o.log : o.log[i].kind \in {"runStarted", "started"} /\ o.log[i].span = x} = Marked(o, "begin", x)
         /\ {i \in DOMAIN o.log : o.log[i].kind \in {"runFinished", "finished"} /\ o.log[i].span = x} = Marked(o, "end", x)
  BY DEF Marked, MarkOf

\* What has been told before a step.
LEMMA ReportingNothing ==
  ASSUME ObservationInv
  PROVE  Reporting(obs, {}, {})
<1>1. TypeInv /\ ObsTypes /\ LogInv /\ AudienceTold /\ MemoryInv
  BY DEF ObservationInv, StructureInv, ToldInv
<1>2. Spoken(obs) \subseteq DOMAIN status
  BY <1>1 DEF Spoken, EventsOf, LogInv
<1>3. ASSUME NEW x \in DOMAIN status
      PROVE  /\ ToldIn(obs, "begin", x, Watchers(At(x)))
             /\ IF x \in OverSet THEN ToldIn(obs, "end", x, Watchers(At(x))) ELSE SilentIn(obs, "end", x)
  <2>1. Begun(DOMAIN obs.log, x) = Marked(obs, "begin", x) /\ Over(DOMAIN obs.log, x) = Marked(obs, "end", x)
    BY PlacesAre DEF Begun, Over, Places
  <2>2. Audience(x) = Watchers(At(x))
    BY <1>1, AudienceIs DEF TypeInv
  <2>3. Told(Marked(obs, "begin", x), Watchers(At(x))) => ToldIn(obs, "begin", x, Watchers(At(x)))
    BY DEF Told, ToldIn
  <2>4. Told(Marked(obs, "end", x), Watchers(At(x))) => ToldIn(obs, "end", x, Watchers(At(x)))
    BY DEF Told, ToldIn
  <2>5. /\ Told(Begun(DOMAIN obs.log, x), Audience(x))
        /\ IF status[x] = "running" \/ (x = held /\ x # NoSpan) THEN Over(DOMAIN obs.log, x) = {}
           ELSE Told(Over(DOMAIN obs.log, x), Audience(x))
    BY <1>1 DEF AudienceTold
  <2>. QED
    BY <2>1, <2>2, <2>3, <2>4, <2>5 DEF OverSet, Untold, SilentIn
<1>4. ASSUME NEW x \in DOMAIN status
      PROVE  /\ RememberedBy(obs, At(x), BeginKeys(x))
             /\ x \in OverSet => RememberedBy(obs, At(x), EndKeys(x))
  <2>1. ASSUME NEW name \in Names, Live(LanesOf(At(x))[name])
        PROVE  RemembersIn(obs, LanesOf(At(x))[name], ShownOf(x))
    BY <1>1, <2>1 DEF MemoryInv, LaneAt, At, Remembers, RemembersIn
  <2>2. BeginKeys(x) \subseteq ShownOf(x)
    BY DEF BeginKeys, ShownOf
  <2>3. x \in OverSet => EndKeys(x) \subseteq ShownOf(x)
    BY DEF EndKeys, ShownOf, OverSet, Untold, IsRun, NoSpan, RootRun
  <2>. QED
    BY <2>1, <2>2, <2>3 DEF RememberedBy, RemembersIn
<1>5. ASSUME NEW x \in Spans, x \notin DOMAIN status PROVE SilentIn(obs, "end", x)
  BY <1>2, <1>5, UnspokenSilent
<1>6. OverSet \subseteq DOMAIN status
  BY DEF OverSet
<1>7. Telling(obs, DOMAIN status, OverSet)
  BY <1>1, <1>2, <1>3, <1>4, <1>5, <1>6 DEF Telling, ObsTypes
<1>. QED
  BY <1>7 DEF Reporting

\* A start that is reported.
LEMMA ReportBegin ==
  ASSUME StructureInv, NEW o, NEW N, NEW O, Reporting(o, N, O), NEW p, NEW x, Starting(x), x \notin N, TellsBegin(o, p, x)
  PROVE  Reporting(p, N \cup {x}, O)
<1>1. world \in Worlds /\ x \notin DOMAIN status \cup N
  BY DEF StructureInv, TypeInv, Starting
<1>2. Telling(p, (DOMAIN status \cup N) \cup {x}, OverSet \cup O)
  BY <1>1, BeginTelling DEF Reporting
<1>3. (DOMAIN status \cup N) \cup {x} = DOMAIN status \cup (N \cup {x})
  OBVIOUS
<1>4. EventsOf(p) \subseteq (EventsOf(o) \cup QuietEvents) \cup BeginEvents(x)
  BY DEF TellsBegin, Speaks
<1>5. BeganEvents(N \cup {x}) = BeganEvents(N) \cup BeginEvents(x)
  BY DEF BeganEvents
<1>. QED
  BY <1>2, <1>3, <1>4, <1>5 DEF Reporting

\* An end that is reported.
LEMMA ReportEnd ==
  ASSUME StructureInv, NEW o, NEW N, NEW O, Reporting(o, N, O), NEW p, NEW x, x \notin OverSet \cup O,
         x \in DOMAIN status \/ (x \in N /\ Starting(x)), \A y \in Inside(x) : status[y] # "running",
         NEW text, text \subseteq TextOf(x), TellsEnd(o, p, x, text)
  PROVE  Reporting(p, N, O \cup {x})
<1>1. world \in Worlds /\ x \in DOMAIN status \cup N /\ x \in Spans /\ TypeInv /\ SpansFit
  BY DEF StructureInv, TypeInv, TellsEnd
<1>2. Telling(o, DOMAIN status \cup N, OverSet \cup O)
  BY DEF Reporting
<1>3. Telling(p, DOMAIN status \cup N, (OverSet \cup O) \cup {x})
  BY <1>1, <1>2, EndTelling
<1>4. (OverSet \cup O) \cup {x} = OverSet \cup (O \cup {x})
  OBVIOUS
<1>5. x \in DOMAIN status \/ \A y \in DOMAIN status : ~Within(y, x)
  BY <1>1, AroundStarting
<1>6. ASSUME NEW ev \in EndEvents(x, text, o.memory) PROVE ev \in RedactedEnds(x)
  <2>1. ev.says \cap HidesOf(At(x)) = {}
    BY <1>1, <1>2, <1>5, EndHidesAround
  <2>2. ev.says \cap HiddenInside(x) = {}
    BY <1>1, <1>2, <1>5, EndHidesInside
  <2>. QED
    BY <2>1, <2>2 DEF EndEvents, RedactedEnds
<1>7. EventsOf(p) \subseteq (EventsOf(o) \cup QuietEvents) \cup EndEvents(x, text, o.memory)
  BY DEF TellsEnd, Speaks
<1>8. EndedEvents(O \cup {x}) = EndedEvents(O) \cup RedactedEnds(x)
  BY DEF EndedEvents
<1>9. EventsOf(p) \subseteq (EventsOf(o) \cup QuietEvents) \cup RedactedEnds(x)
  BY <1>6, <1>7
<1>. QED
  BY <1>3, <1>4, <1>8, <1>9 DEF Reporting

\* What is reported between.
LEMMA ReportQuiet ==
  ASSUME StructureInv, NEW o, NEW N, NEW O, Reporting(o, N, O), NEW p, NEW x \in DOMAIN status,
         Speaks(o, p, "none", x, {}, {})
  PROVE  Reporting(p, N, O)
<1>1. world \in Worlds
  BY DEF StructureInv, TypeInv
<1>2. Telling(p, DOMAIN status \cup N, OverSet \cup O)
  BY <1>1, QuietTelling DEF Reporting
<1>3. EventsOf(p) \subseteq EventsOf(o) \cup QuietEvents
  BY DEF Speaks
<1>. QED
  BY <1>2, <1>3 DEF Reporting

-----------------------------------------------------------------------------
(* What the reports of a step leave true.                                    *)

\* What the capture of an evaluation keeps in a step.
KeepsFlows == \A r \in DOMAIN flow : KeepsRun(r, flow[r])
KeptStep(N, O) ==
  /\ kept' \in SUBSET Key
  /\ Capturing => /\ kept \subseteq kept' /\ KeepsFlows'
                  /\ \A x \in N : ~IsRun(x) => Reads[StepOf(x)] \subseteq kept'
                  /\ \A x \in O : ~IsRun(x) => Writes[StepOf(x)] \subseteq kept'

\* What depends on the world alone.
LEMMA WorldStays ==
  ASSUME world' = world
  PROVE  /\ \A x : Audience(x)' = Audience(x) /\ HiddenAround(x)' = HiddenAround(x)
         /\ \A r : LanesOf(r)' = LanesOf(r) /\ \A x : At(x)' = At(x)
         /\ Capturing' <=> Capturing
<1>1. \A x : Audience(x)' = Audience(x) /\ HiddenAround(x)' = HiddenAround(x) /\ At(x)' = At(x)
  BY DEF Audience, HiddenAround, At, RunsAround, IsRun
<1>2. \A r : LanesOf(r)' = LanesOf(r)
  BY DEF LanesOf, NestedLanes, RootLanes
<1>3. Capturing' <=> Capturing
  BY DEF Capturing, KnownHides
<1>. QED
  BY <1>1, <1>2, <1>3

\* Nothing is hidden inside a span in which nothing starts.
LEMMA InsideStays ==
  ASSUME TypeInv, NEW N \in SUBSET Spans, DOMAIN status' = DOMAIN status \cup N, world' = world,
         NEW x \in Spans, \A y \in N : Within(y, x) => y = x
  PROVE  HiddenInside(x)' \subseteq HiddenInside(x)
<1>. SUFFICES ASSUME NEW k \in HiddenInside(x)' PROVE k \in HiddenInside(x)
  OBVIOUS
<1>1. PICK r \in Inside(x)' : IsRun(r) /\ k \in world.hides[PipelineOf(r)] /\ k \in Handled(r)'
  BY DEF HiddenInside
<1>2. r \in DOMAIN status /\ Within(r, x) /\ r # x /\ r \in Spans
  BY <1>1 DEF Inside, TypeInv
<1>3. k \in Handled(r)
  <2>1. CASE k \in Inputs[PipelineOf(r)]
    BY <2>1 DEF Handled
  <2>2. CASE \E e \in Executions' : RunOf(e) = r /\ k \in Reads[StepOf(e)] \cup Writes[StepOf(e)]
    <3>1. PICK e \in Executions' : RunOf(e) = r /\ k \in Reads[StepOf(e)] \cup Writes[StepOf(e)]
      BY <2>2
    <3>2. e \in DOMAIN status \cup N /\ e \in Spans /\ ~IsRun(e)
      BY <3>1 DEF Executions, TypeInv
    <3>3. Within(e, r)
      BY <3>1, <3>2, RunOfIs
    <3>4. Within(e, x)
      BY <1>2, <3>2, <3>3, WithinTransitive
    <3>5. e # x
      BY <1>2, <3>3, WithinBoth
    <3>6. e \in Executions
      BY <3>2, <3>4, <3>5 DEF Executions
    <3>. QED
      BY <3>1, <3>6 DEF Handled
  <2>. QED
    BY <1>1, <2>1, <2>2 DEF Handled
<1>4. r \in Inside(x)
  BY <1>2 DEF Inside
<1>. QED
  BY <1>1, <1>3, <1>4 DEF HiddenInside

\* The ends that have been told stay told, and those of O are.
LEMMA OverAfter ==
  ASSUME NEW N, NEW O, Accounts(N, O)
  PROVE  /\ OverSet' = OverSet \cup O
         /\ \A x \in OverSet' : status'[x] # "running"
<1>1. OverSet' = OverSet \cup O
  BY DEF Accounts, OverSet
<1>2. \A x \in OverSet' : status'[x] # "running"
  BY DEF OverSet, Untold
<1>. QED
  BY <1>1, <1>2

\* Telling is what the invariant says of the audience and of what is remembered.
LEMMA TellingAfter ==
  ASSUME StructureInv', world' = world, world \in Worlds, Telling(obs', DOMAIN status', OverSet')
  PROVE  LogInv' /\ AudienceTold' /\ MemoryInv'
<1>o. PICK o : o = obs'
  OBVIOUS
<1>1. DOMAIN status' \subseteq Spans
  BY DEF StructureInv, TypeInv
<1>2. LogInv'
  <2>1. Spoken(o) \subseteq DOMAIN status'
    BY <1>o DEF Telling
  <2>. QED
    BY <1>o, <2>1 DEF LogInv, Spoken, EventsOf
<1>3. AudienceTold'
  <2>1. ASSUME NEW x \in DOMAIN status'
        PROVE  /\ ToldIn(o, "begin", x, Audience(x)')
               /\ IF x \in OverSet' THEN ToldIn(o, "end", x, Audience(x)') ELSE SilentIn(o, "end", x)
    <3>1. Audience(x)' = Watchers(At(x))
      BY <1>1, AudienceIs, WorldStays
    <3>. QED
      BY <1>o, <1>1, <3>1 DEF Telling
  <2>2. \A x \in DOMAIN status' : Begun(DOMAIN obs.log, x)' = Marked(o, "begin", x)
                                  /\ Over(DOMAIN obs.log, x)' = Marked(o, "end", x)
    BY <1>o, PlacesAre DEF Begun, Over, Places
  <2>3. \A x \in DOMAIN status' : /\ UNION {o.log[i].to : i \in Marked(o, "begin", x)} = Audience(x)'
                                  /\ \A i, j \in Marked(o, "begin", x) : i # j => o.log[i].to \cap o.log[j].to = {}
    BY <2>1 DEF ToldIn
  <2>4. \A x \in DOMAIN status' :
          IF x \in OverSet'
            THEN /\ UNION {o.log[i].to : i \in Marked(o, "end", x)} = Audience(x)'
                 /\ \A i, j \in Marked(o, "end", x) : i # j => o.log[i].to \cap o.log[j].to = {}
            ELSE Marked(o, "end", x) = {}
    BY <2>1 DEF ToldIn, SilentIn
  <2>5. \A x \in DOMAIN status' : x \in OverSet' <=> ~(status'[x] = "running" \/ (x = held' /\ x # NoSpan))
    BY DEF OverSet, Untold
  <2>6. ASSUME NEW x \in DOMAIN status'
        PROVE  /\ Told(Begun(DOMAIN obs.log, x), Audience(x))'
               /\ IF status'[x] = "running" \/ (x = held' /\ x # NoSpan) THEN Over(DOMAIN obs.log, x)' = {}
                  ELSE Told(Over(DOMAIN obs.log, x), Audience(x))'
    BY <1>o, <2>2, <2>3, <2>4, <2>5 DEF Told
  <2>. QED
    BY <2>6 DEF AudienceTold
<1>4. MemoryInv'
  <2>1. ASSUME NEW x \in DOMAIN status', NEW name \in Names, Live(LaneAt(x, name)')
        PROVE  Remembers(LaneAt(x, name), ShownOf(x))'
    <3>1. LaneAt(x, name)' = LanesOf(At(x))[name]
      BY WorldStays DEF LaneAt, At
    <3>2. RememberedBy(o, At(x), BeginKeys(x)) /\ (x \in OverSet' => RememberedBy(o, At(x), EndKeys(x)))
      BY <1>o, <1>1 DEF Telling
    <3>3. ShownOf(x)' \subseteq BeginKeys(x) \cup (IF x \in OverSet' THEN EndKeys(x) ELSE {})
      BY DEF ShownOf, BeginKeys, EndKeys, OverSet, Untold
    <3>4. Live(LanesOf(At(x))[name])
      BY <2>1, <3>1
    <3>5. RemembersIn(o, LanesOf(At(x))[name], ShownOf(x)')
      BY <3>2, <3>3, <3>4 DEF RememberedBy, RemembersIn
    <3>. QED
      BY <1>o, <3>1, <3>5 DEF Remembers, RemembersIn
  <2>2. \A x, name : Live(LaneAt(x, name))' <=> Live(LaneAt(x, name)')
    BY DEF Live
  <2>. QED
    BY <2>1, <2>2 DEF MemoryInv
<1>. QED
  BY <1>2, <1>3, <1>4

\* Each event after a step was told before it, is quiet, or tells a start of N or an end of O.
LEMMA EventsAfter ==
  ASSUME NEW N, NEW O, Reporting(obs', N, O), NEW i \in DOMAIN obs'.log
  PROVE  \/ \E j \in DOMAIN obs.log : obs.log[j] = obs'.log[i]
         \/ obs'.log[i] \in QuietEvents
         \/ \E x \in N : obs'.log[i] \in BeginEvents(x)
         \/ \E x \in O : obs'.log[i] \in RedactedEnds(x)
<1>1. obs'.log[i] \in EventsOf(obs')
  BY DEF EventsOf
<1>2. obs'.log[i] \in (EventsOf(obs) \cup QuietEvents) \cup (BeganEvents(N) \cup EndedEvents(O))
  BY <1>1 DEF Reporting
<1>. QED
  BY <1>2 DEF EventsOf, BeganEvents, EndedEvents

\* The ends that were told are of what is over.
LEMMA EndsAfter ==
  ASSUME OverInv, NEW N, NEW O, Accounts(N, O), Reporting(obs', N, O), LogInv
  PROVE  OverInv'
<1>1. ASSUME NEW i \in DOMAIN obs'.log, obs'.log[i].kind \in {"finished", "runFinished"}
      PROVE  status'[obs'.log[i].span] # "running"
  <2>1. CASE \E j \in DOMAIN obs.log : obs.log[j] = obs'.log[i]
    <3>1. PICK j \in DOMAIN obs.log : obs.log[j] = obs'.log[i]
      BY <2>1
    <3>2. status[obs.log[j].span] # "running" /\ obs.log[j].span \in DOMAIN status
      BY <1>1, <3>1 DEF OverInv, LogInv
    <3>. QED
      BY <3>1, <3>2 DEF Accounts
  <2>2. CASE \E x \in O : obs'.log[i] \in RedactedEnds(x)
    <3>1. PICK x \in O : obs'.log[i] \in RedactedEnds(x)
      BY <2>2
    <3>2. x \in OverSet' /\ obs'.log[i].span = x
      BY <3>1, OverAfter DEF RedactedEnds
    <3>. QED
      BY <3>2, OverAfter
  <2>3. obs'.log[i] \notin QuietEvents /\ \A x \in N : obs'.log[i] \notin BeginEvents(x)
    BY <1>1 DEF QuietEvents, BeginEvents, MarkOf
  <2>. QED
    BY <2>1, <2>2, <2>3, EventsAfter
<1>. QED
  BY <1>1 DEF OverInv

\* What is hidden stays out of every event.
LEMMA RedactedAfter ==
  ASSUME StructureInv, OverInv, LogInv, RedactedInv, NEW N \in SUBSET Spans, NEW O, Accounts(N, O),
         O \in SUBSET Spans, Reporting(obs', N, O)
  PROVE  RedactedInv'
<1>1. TypeInv /\ SpansFit /\ world' = world /\ DOMAIN status' = DOMAIN status \cup N
  BY DEF StructureInv, Accounts
<1>2. ASSUME NEW i \in DOMAIN obs'.log
      PROVE  Redacted(obs.log[i])'
  <2>0. PICK ev : ev = obs'.log[i]
    OBVIOUS
  <2>1. CASE \E j \in DOMAIN obs.log : obs.log[j] = ev
    <3>1. PICK j \in DOMAIN obs.log : obs.log[j] = ev
      BY <2>1
    <3>2. Redacted(ev) /\ ev.span \in DOMAIN status /\ ev.span \in Spans
      BY <1>1, <3>1 DEF RedactedInv, LogInv, TypeInv
    <3>3. HiddenAround(ev.span)' = HiddenAround(ev.span)
      BY <1>1, WorldStays
    <3>4. ASSUME ev.kind \in {"finished", "runFinished"}
          PROVE  HiddenInside(ev.span)' \subseteq HiddenInside(ev.span)
      <4>1. PICK x \in Spans : x = ev.span
        BY <3>2
      <4>2. status[x] # "running" /\ x \in DOMAIN status
        BY <3>1, <3>2, <3>4, <4>1 DEF OverInv
      <4>3. \A y \in N : ~Within(y, x)
        BY <1>1, <4>2, AroundStarting DEF Accounts
      <4>4. HiddenInside(x)' \subseteq HiddenInside(x)
        BY <1>1, <4>3, InsideStays
      <4>. QED
        BY <4>1, <4>4
    <3>5. Redacted(ev)'
      BY <3>2, <3>3, <3>4 DEF Redacted
    <3>. QED
      BY <2>0, <3>5 DEF Redacted
  <2>2. CASE ev \in QuietEvents
    BY <2>0, <2>2 DEF QuietEvents, MarkOf, Redacted
  <2>3. CASE \E x \in N : ev \in BeginEvents(x)
    <3>1. PICK x \in N : ev \in BeginEvents(x)
      BY <2>3
    <3>2. /\ ev.span = x /\ ev.carries \cap HidesOf(At(x)) = {} /\ ev.says = {}
          /\ ev.kind \notin {"finished", "runFinished"}
      BY <3>1 DEF BeginEvents, MarkOf
    <3>3. HiddenAround(x)' = HidesOf(At(x))
      BY <1>1, WorldStays, AudienceIs
    <3>4. HiddenAround(ev.span)' = HiddenAround(x)'
      BY <3>2
    <3>. QED
      BY <2>0, <3>2, <3>3, <3>4 DEF Redacted
  <2>4. CASE \E x \in O : ev \in RedactedEnds(x)
    <3>1. PICK x \in O : ev \in RedactedEnds(x)
      BY <2>4
    <3>2. /\ ev.span = x /\ ev.carries \cap HidesOf(At(x)) = {} /\ ev.says \cap HidesOf(At(x)) = {}
          /\ ev.says \cap HiddenInside(x) = {} /\ x \in Spans
      BY <3>1 DEF RedactedEnds
    <3>3. HiddenAround(x)' = HidesOf(At(x))
      BY <1>1, <3>2, WorldStays, AudienceIs
    <3>4. HiddenAround(ev.span)' = HiddenAround(x)' /\ HiddenInside(ev.span)' = HiddenInside(x)'
      BY <3>2
    <3>5. \A y \in N : Within(y, x) => y = x
      BY DEF Accounts
    <3>6. HiddenInside(x)' \subseteq HiddenInside(x)
      BY <1>1, <3>2, <3>5, InsideStays
    <3>. QED
      BY <2>0, <3>2, <3>3, <3>4, <3>6 DEF Redacted
  <2>5. \/ \E j \in DOMAIN obs.log : obs.log[j] = ev
        \/ ev \in QuietEvents
        \/ \E x \in N : ev \in BeginEvents(x)
        \/ \E x \in O : ev \in RedactedEnds(x)
    BY <2>0, EventsAfter
  <2>. QED
    BY <2>1, <2>2, <2>3, <2>4, <2>5
<1>. QED
  BY <1>2 DEF RedactedInv

\* What an evaluation may need to redact is kept.
LEMMA KeptAfter ==
  ASSUME StructureInv, StructureInv', KeptInv, NEW N \in SUBSET Spans, NEW O, Accounts(N, O),
         Reporting(obs', N, O), KeptStep(N, O)
  PROVE  KeptInv'
<1>1. world' = world /\ DOMAIN status' = DOMAIN status \cup N /\ O \subseteq DOMAIN status'
  BY DEF Accounts
<1>. SUFFICES ASSUME Capturing
              PROVE  /\ KeepsFlows'
                     /\ \A x \in Executions' :
                          /\ Reads[StepOf(x)] \subseteq kept'
                          /\ status'[x] = "failed" => Writes[StepOf(x)] \subseteq kept'
                     /\ \A i \in DOMAIN obs'.log : obs'.log[i].says \subseteq kept'
  BY <1>1, WorldStays DEF KeptInv, KeepsFlows
<1>2. /\ kept \subseteq kept' /\ KeepsFlows'
      /\ \A x \in N : ~IsRun(x) => Reads[StepOf(x)] \subseteq kept'
      /\ \A x \in O : ~IsRun(x) => Writes[StepOf(x)] \subseteq kept'
      /\ \A x \in Executions : Reads[StepOf(x)] \subseteq kept /\ (status[x] = "failed" => Writes[StepOf(x)] \subseteq kept)
      /\ \A i \in DOMAIN obs.log : obs.log[i].says \subseteq kept
  BY DEF KeptStep, KeptInv
<1>3. ASSUME NEW x \in Executions' PROVE Reads[StepOf(x)] \subseteq kept'
  BY <1>1, <1>2 DEF Executions
<1>4. ASSUME NEW x \in Executions', status'[x] = "failed" PROVE Writes[StepOf(x)] \subseteq kept'
  <2>1. ~IsRun(x) /\ (x \in O \/ (x \in DOMAIN status /\ status[x] = "failed"))
    BY <1>4 DEF Executions, Accounts
  <2>. QED
    BY <1>2, <2>1 DEF Executions
<1>5. ASSUME NEW i \in DOMAIN obs'.log PROVE obs'.log[i].says \subseteq kept'
  <2>1. CASE \E j \in DOMAIN obs.log : obs.log[j] = obs'.log[i]
    BY <1>2, <2>1
  <2>2. CASE obs'.log[i] \in QuietEvents \/ \E x \in N : obs'.log[i] \in BeginEvents(x)
    BY <2>2 DEF QuietEvents, BeginEvents
  <2>3. CASE \E x \in O : obs'.log[i] \in RedactedEnds(x)
    <3>1. PICK x \in O : obs'.log[i].says \subseteq TextOf(x)
      BY <2>3 DEF RedactedEnds
    <3>2. ErrorText(x) \subseteq kept'
      BY <1>2 DEF ErrorText
    <3>3. ~IsRun(x) => x \in Executions'
      BY <1>1 DEF Executions
    <3>4. ~IsRun(x) => Reads[StepOf(x)] \cup Writes[StepOf(x)] \subseteq kept'
      BY <1>2, <1>3, <3>3
    <3>. QED
      BY <3>1, <3>2, <3>4 DEF TextOf
  <2>. QED
    BY <2>1, <2>2, <2>3, EventsAfter
<1>. QED
  BY <1>2, <1>3, <1>4, <1>5

\* What a step reports and keeps leaves the invariant true.
LEMMA ToldAfter ==
  ASSUME ObservationInv, StructureInv', NEW N, NEW O, Accounts(N, O), Reporting(obs', N, O), KeptStep(N, O)
  PROVE  ObservationInv'
<1>1. StructureInv /\ OverInv /\ LogInv /\ RedactedInv /\ KeptInv
  BY DEF ObservationInv, ToldInv
<1>2. N \in SUBSET Spans /\ O \in SUBSET Spans /\ world' = world /\ world \in Worlds
      /\ DOMAIN status' = DOMAIN status \cup N
  BY <1>1 DEF StructureInv, TypeInv, Accounts
<1>3. Telling(obs', DOMAIN status', OverSet')
  BY <1>2, OverAfter DEF Reporting
<1>4. LogInv' /\ AudienceTold' /\ MemoryInv'
  BY <1>2, <1>3, TellingAfter
<1>5. OverInv' /\ RedactedInv' /\ KeptInv'
  BY <1>1, <1>2, EndsAfter, RedactedAfter, KeptAfter
<1>6. ObsTypes'
  BY <1>3 DEF ObsTypes, Telling, KeptStep
<1>. QED
  BY <1>4, <1>5, <1>6 DEF ObservationInv, ToldInv

-----------------------------------------------------------------------------
(* What each operation tells and keeps.                                      *)

\* The start of a span, told over its lanes, is what its watchers hear and its lanes remember.
LEMMA TellsBeginIs ==
  ASSUME world \in Worlds, NEW o \in ObsRecords
  PROVE  /\ \A e : IsExecution(e) => TellsBegin(o, TellStarted(o, e), e)
         /\ \A r \in Spans : IsRun(r) => TellsBegin(o, TellRunStarted(o, r), r)
<1>1. ASSUME NEW e, IsExecution(e) PROVE TellsBegin(o, TellStarted(o, e), e)
  <2>1. e \in Spans /\ ~IsRun(e) /\ At(e) = RunOf(e) /\ BeginKeys(e) = Reads[StepOf(e)]
    BY <1>1 DEF IsExecution, At, BeginKeys
  <2>2. /\ Speaks(o, TellStarted(o, e), "begin", e, Watchers(RunOf(e)), BeginEvents(e))
        /\ RememberedBy(TellStarted(o, e), RunOf(e), Reads[StepOf(e)])
    BY <1>1, TellStartedSpeaks
  <2>. QED
    BY <2>1, <2>2 DEF TellsBegin
<1>2. ASSUME NEW r \in Spans, IsRun(r) PROVE TellsBegin(o, TellRunStarted(o, r), r)
  <2>1. At(r) = r /\ BeginKeys(r) = Inputs[PipelineOf(r)]
    BY <1>2 DEF At, BeginKeys
  <2>2. /\ Speaks(o, TellRunStarted(o, r), "begin", r, Watchers(r), BeginEvents(r))
        /\ RememberedBy(TellRunStarted(o, r), r, Inputs[PipelineOf(r)])
    BY <1>2, TellRunStartedSpeaks
  <2>. QED
    BY <2>1, <2>2 DEF TellsBegin
<1>. QED
  BY <1>1, <1>2

\* The end of an execution, told over its lanes, is what its watchers hear and its lanes remember.
LEMMA TellsEndIs ==
  ASSUME world \in Worlds, NEW o \in ObsRecords, NEW text \in SUBSET Key, NEW e, IsExecution(e),
         NEW succeeded \in BOOLEAN
  PROVE  TellsEnd(o, TellFinished(o, e, succeeded, text), e, text)
<1>1. e \in Spans /\ ~IsRun(e) /\ At(e) = RunOf(e) /\ EndKeys(e) = Writes[StepOf(e)]
  BY DEF IsExecution, At, EndKeys
<1>2. /\ Speaks(o, TellFinished(o, e, succeeded, text), "end", e, Watchers(RunOf(e)),
                EndEvents(e, text, o.memory))
      /\ RememberedBy(TellFinished(o, e, succeeded, text), RunOf(e), Writes[StepOf(e)])
  BY TellFinishedSpeaks
<1>. QED
  BY <1>1, <1>2 DEF TellsEnd

\* The end of a run, told over its lanes, is what its watchers hear.
LEMMA TellsRunEndIs ==
  ASSUME world \in Worlds, NEW o \in ObsRecords, NEW text \in SUBSET Key, NEW r \in Spans, IsRun(r)
  PROVE  TellsEnd(o, TellRunFinished(o, r, text), r, text)
<1>1. At(r) = r /\ EndKeys(r) = {}
  BY DEF At, EndKeys
<1>2. Speaks(o, TellRunFinished(o, r, text), "end", r, Watchers(r), EndEvents(r, text, o.memory))
  BY TellRunFinishedSpeaks
<1>3. RememberedBy(TellRunFinished(o, r, text), r, {})
  BY DEF RememberedBy, RemembersIn
<1>. QED
  BY <1>1, <1>2, <1>3 DEF TellsEnd

\* The text of an error is of keys.
LEMMA TextIs ==
  ASSUME StructureInv, NEW x, IsExecution(x) \/ IsRun(x)
  PROVE  TextOf(x) \in SUBSET Key /\ {} \subseteq TextOf(x)
<1>1. \A s \in Step : Reads[s] \in SUBSET Key /\ Writes[s] \in SUBSET Key
  BY ReadsAssumption
<1>2. \A e \in Executions : StepOf(e) \in Step
  BY ExecutionsAre DEF StructureInv, IsExecution
<1>3. ErrorText(x) \in SUBSET Key
  BY <1>1, <1>2 DEF ErrorText
<1>. QED
  BY <1>1, <1>3 DEF TextOf, IsExecution

\* The report of an execution's end.
LEMMA ReportsEnd ==
  ASSUME StructureInv, NEW o, NEW N, NEW O, Reporting(o, N, O), NEW e, IsExecution(e), e \notin OverSet \cup O,
         e \in DOMAIN status \/ (e \in N /\ Starting(e)), \A y \in Inside(e) : status[y] # "running",
         NEW p, p = ReportSuccess(o, e) \/ p = ReportFailure(o, e)
  PROVE  Reporting(p, N, O \cup {e})
<1>1. world \in Worlds /\ o \in ObsRecords
  BY DEF StructureInv, TypeInv, Reporting, Telling
<1>2. Failure(e) = TextOf(e)
  BY DEF Failure, TextOf, IsExecution
<1>3. {} \in SUBSET Key /\ TextOf(e) \in SUBSET Key
  BY TextIs
<1>4. ASSUME NEW text \in SUBSET Key, NEW succeeded \in BOOLEAN
      PROVE  TellsEnd(o, TellFinished(o, e, succeeded, text), e, text)
  BY <1>1, TellsEndIs
<1>5. \E text : text \subseteq TextOf(e) /\ TellsEnd(o, p, e, text)
  BY <1>2, <1>3, <1>4 DEF ReportSuccess, ReportFailure
<1>. QED
  BY <1>5, ReportEnd

\* The report of what was held.
LEMMA ReportsHeld ==
  ASSUME StructureInv, NEW o, NEW N, NEW O, Reporting(o, N, O), HeldSet \cap O = {}
  PROVE  Reporting(Release(o), N, O \cup HeldSet)
<1>1. CASE held = NoSpan
  BY <1>1 DEF Release, HeldSet
<1>2. CASE held # NoSpan
  <2>1. /\ held \in Executions /\ held \in DOMAIN status /\ \A y \in Inside(held) : status[y] # "running"
        /\ IsExecution(held)
    BY <1>2, HeldIs, ExecutionsAre DEF StructureInv
  <2>2. held \notin OverSet \cup O
    BY <1>2 DEF OverSet, Untold, HeldSet
  <2>. QED
    BY <1>2, <2>1, <2>2, ReportsEnd DEF Release, HeldSet
<1>. QED
  BY <1>1, <1>2

-----------------------------------------------------------------------------
(* What the capture keeps.                                                   *)

\* What an offer to the capture of an evaluation adds.
LEMMA OfferIs ==
  ASSUME NEW keys
  PROVE  /\ Offer(kept, keys) = IF Capturing THEN kept \cup keys ELSE kept
  BY DEF Offer, Capturing

\* The keys of a step.
LEMMA KeysAre == \A s \in Step : Reads[s] \in SUBSET Key /\ Writes[s] \in SUBSET Key
  BY ReadsAssumption

\* What an execution reads is kept when its flow comes to it.
LEMMA CurrentReads ==
  ASSUME StructureInv, KeptInv, Capturing, NEW r \in DOMAIN flow
  PROVE  Reads[Current(r)] \subseteq kept
<1>1. /\ world \in Worlds /\ flow[r].at \in DOMAIN StepsOf(r) /\ Current(r) = StepsOf(r)[flow[r].at]
  BY FlowIs DEF FlowFits
<1>2. ReadsEarlier(StepsOf(r), Inputs[PipelineOf(r)])
  BY <1>1, ReadsAssumption DEF StepsOf, PipelineOf
<1>3. KeepsRun(r, flow[r])
  BY DEF KeptInv
<1>. QED
  BY <1>1, <1>2, <1>3 DEF ReadsEarlier, KeepsRun

\* The flow of r moves within the visit of a step, and the others stay.
MovesFlow(r) ==
  /\ DOMAIN flow' = DOMAIN flow /\ flow'[r].at = flow[r].at
  /\ \A q \in DOMAIN flow : q # r => flow'[q] = flow[q]
\* A flow that moves keeps what its run handled when the step it is at has been kept.
LEMMA KeepsMove ==
  ASSUME KeptInv, Capturing, kept \subseteq kept', world' = world, NEW r \in DOMAIN flow, MovesFlow(r),
         flow'[r].phase = "decided" => flow[r].phase = "decided" \/ Writes[Current(r)] \subseteq kept'
  PROVE  KeepsFlows'
<1>1. \A q \in DOMAIN flow : KeepsRun(q, flow[q])
  BY DEF KeptInv
<1>2. \A q : StepsOf(q)' = StepsOf(q)
  BY DEF StepsOf
<1>3. ASSUME NEW q \in DOMAIN flow, q # r PROVE KeepsRun(q, flow[q])'
  BY <1>1, <1>2, <1>3 DEF KeepsRun, MovesFlow
<1>4. KeepsRun(r, flow[r])'
  BY <1>1, <1>2 DEF KeepsRun, MovesFlow, Current
<1>. QED
  BY <1>3, <1>4 DEF KeepsFlows, MovesFlow
\* Flows that stand still keep what their runs handled.
LEMMA KeepsStay ==
  ASSUME KeptInv, Capturing, kept \subseteq kept', world' = world, flow' = flow
  PROVE  KeepsFlows'
<1>1. \A q \in DOMAIN flow : KeepsRun(q, flow[q])
  BY DEF KeptInv
<1>2. \A q : StepsOf(q)' = StepsOf(q)
  BY DEF StepsOf
<1>3. ASSUME NEW q \in DOMAIN flow PROVE KeepsRun(q, flow[q])'
  BY <1>1, <1>2, <1>3 DEF KeepsRun
<1>. QED
  BY <1>3 DEF KeepsFlows

-----------------------------------------------------------------------------
(* Each step of the system keeps the invariant.                              *)

\* A flow starts an execution.
LEMMA FlowStartKeeps ==
  ASSUME ObservationInv, NEW r \in DOMAIN flow, StepStarts(r) \/ AttemptStarts(r)
  PROVE  ObservationInv'
<1>. DEFINE e == NextExecution(r, r, Current(r))
<1>1. StructureInv /\ KeptInv /\ flow[r] \in Flows /\ world \in Worlds /\ obs \in ObsRecords /\ kept \in SUBSET Key
  BY FlowIs DEF ObservationInv, ToldInv, ObsTypes
<1>2. StructureInv' /\ Accounts({e}, {}) /\ IsExecution(e) /\ RunOf(e) = r /\ StepOf(e) = Current(r) /\ Parent(e) = r
  BY <1>1, FlowStartAccounts
<1>3. obs' = TellStarted(obs, e) /\ kept' = kept /\ world' = world
  BY DEF StepStarts, AttemptStarts, Begin
<1>4. MovesFlow(r) /\ flow'[r].phase = "running"
  BY <1>1 DEF StepStarts, AttemptStarts, MovesFlow, Flows
<1>. HIDE DEF e
<1>5. Starting(e)
  BY <1>2 DEF Accounts
<1>6. Reporting(obs', {e}, {})
  <2>1. Reporting(obs, {}, {})
    BY ReportingNothing
  <2>2. TellsBegin(obs, obs', e)
    BY <1>1, <1>2, <1>3, TellsBeginIs
  <2>3. Reporting(obs', {} \cup {e}, {})
    BY <1>1, <1>5, <2>1, <2>2, ReportBegin
  <2>. QED
    BY <2>3
<1>7. KeptStep({e}, {})
  <2>1. ASSUME Capturing PROVE KeepsFlows' /\ Reads[StepOf(e)] \subseteq kept'
    BY <1>1, <1>2, <1>3, <1>4, <2>1, KeepsMove, CurrentReads
  <2>. QED
    BY <1>1, <1>3, <2>1 DEF KeptStep
<1>. QED
  BY <1>2, <1>6, <1>7, ToldAfter

\* A composite starts a child.
LEMMA ChildStartKeeps ==
  ASSUME ObservationInv, NEW p \in Executions, NEW c \in Children[StepOf(p)], ChildStarts(p, c)
  PROVE  ObservationInv'
<1>. DEFINE e == NextExecution(RunOf(p), p, c)
<1>1. StructureInv /\ KeptInv /\ world \in Worlds /\ obs \in ObsRecords /\ kept \in SUBSET Key
  BY DEF ObservationInv, ToldInv, ObsTypes, StructureInv, TypeInv
<1>2. StructureInv' /\ Accounts({e}, {}) /\ IsExecution(e) /\ StepOf(e) = c
  BY <1>1, ChildStartAccounts
<1>3. obs' = TellStarted(obs, e) /\ kept' = kept /\ world' = world /\ flow' = flow
  BY DEF ChildStarts, Begin
<1>. HIDE DEF e
<1>4. Starting(e)
  BY <1>2 DEF Accounts
<1>5. Reporting(obs', {e}, {})
  <2>1. Reporting(obs, {}, {})
    BY ReportingNothing
  <2>2. TellsBegin(obs, obs', e)
    BY <1>1, <1>2, <1>3, TellsBeginIs
  <2>3. Reporting(obs', {} \cup {e}, {})
    BY <1>1, <1>4, <2>1, <2>2, ReportBegin
  <2>. QED
    BY <2>3
<1>6. KeptStep({e}, {})
  <2>1. ASSUME Capturing PROVE KeepsFlows' /\ Reads[StepOf(e)] \subseteq kept'
    <3>1. StepOf(p) \in Step
      BY <1>1, ExecutionsAre DEF StructureInv, IsExecution
    <3>2. Reads[c] \subseteq Reads[StepOf(p)]
      BY <3>1, ReadsAssumption
    <3>3. Reads[StepOf(p)] \subseteq kept
      BY <1>1, <2>1 DEF KeptInv
    <3>. QED
      BY <1>1, <1>2, <1>3, <2>1, <3>2, <3>3, KeepsStay
  <2>. QED
    BY <1>1, <1>3, <2>1 DEF KeptStep
<1>. QED
  BY <1>2, <1>5, <1>6, ToldAfter

\* A run starts.
LEMMA RunStartKeeps ==
  ASSUME ObservationInv, NEW r, RunStarts(r),
         r = RootRun \/ \E e \in Executions : StepOf(e) \in ProgramSteps /\ r = NestedRun(e)
  PROVE  ObservationInv'
<1>1. StructureInv /\ KeptInv /\ world \in Worlds /\ obs \in ObsRecords /\ kept \in SUBSET Key
  BY DEF ObservationInv, ToldInv, ObsTypes, StructureInv, TypeInv
<1>2. StructureInv' /\ Accounts({r}, {}) /\ IsRun(r) /\ r \in Spans
  BY <1>1, RunStartAccounts
<1>3. /\ obs' = TellRunStarted(obs, r) /\ kept' = Offer(kept, Inputs[PipelineOf(r)]) /\ world' = world
      /\ flow' = With(flow, r, NewFlow)
  BY DEF RunStarts
<1>4. Starting(r)
  BY <1>2 DEF Accounts
<1>5. Reporting(obs', {r}, {})
  <2>1. Reporting(obs, {}, {})
    BY ReportingNothing
  <2>2. TellsBegin(obs, obs', r)
    BY <1>1, <1>2, <1>3, TellsBeginIs
  <2>3. Reporting(obs', {} \cup {r}, {})
    BY <1>1, <1>4, <2>1, <2>2, ReportBegin
  <2>. QED
    BY <2>3
<1>6. KeptStep({r}, {})
  <2>1. Inputs[PipelineOf(r)] \in SUBSET Key
    BY ReadsAssumption DEF PipelineOf
  <2>2. kept' = IF Capturing THEN kept \cup Inputs[PipelineOf(r)] ELSE kept
    BY <1>3, OfferIs
  <2>3. ASSUME Capturing PROVE KeepsFlows'
    <3>1. \A q : StepsOf(q)' = StepsOf(q)
      BY <1>3 DEF StepsOf
    <3>2. ASSUME NEW q \in DOMAIN flow' PROVE KeepsRun(q, flow[q])'
      <4>1. CASE q # r
        <5>1. q \in DOMAIN flow /\ flow'[q] = flow[q]
          BY <1>3, <3>2, <4>1 DEF With
        <5>2. KeepsRun(q, flow[q])
          BY <1>1, <2>3, <5>1 DEF KeptInv
        <5>. QED
          BY <2>2, <2>3, <3>1, <5>1, <5>2 DEF KeepsRun
      <4>2. CASE q = r
        <5>1. flow'[q] = NewFlow /\ NewFlow.at = 1 /\ NewFlow.phase = "visit"
          BY <1>3, <4>2 DEF With, NewFlow
        <5>2. 1..(flow'[q].at - 1) = {}
          BY <5>1
        <5>. QED
          BY <2>2, <2>3, <4>2, <5>1, <5>2 DEF KeepsRun
      <4>. QED
        BY <4>1, <4>2
    <3>. QED
      BY <3>2 DEF KeepsFlows
  <2>. QED
    BY <1>1, <1>2, <2>1, <2>2, <2>3 DEF KeptStep
<1>. QED
  BY <1>2, <1>5, <1>6, ToldAfter

\* The parts of the invariant.
LEMMA InvIs ==
  ASSUME ObservationInv
  PROVE  /\ StructureInv /\ KeptInv /\ TypeInv /\ SpansFit /\ world \in Worlds /\ obs \in ObsRecords
         /\ kept \in SUBSET Key
  BY DEF ObservationInv, ToldInv, ObsTypes, StructureInv, TypeInv

\* The report of the end of one execution.
LEMMA ReportedEnd ==
  ASSUME ObservationInv, NEW e \in Executions, Untold(e), \A y \in Inside(e) : status[y] # "running",
         obs' = ReportSuccess(obs, e) \/ obs' = ReportFailure(obs, e)
  PROVE  Reporting(obs', {}, {e})
<1>1. IsExecution(e) /\ e \in DOMAIN status
  BY InvIs, ExecutionsAre
<1>2. e \notin OverSet \cup {}
  BY DEF OverSet
<1>3. Reporting(obs, {}, {})
  BY ReportingNothing
<1>4. Reporting(obs', {}, {} \cup {e})
  BY <1>1, <1>2, <1>3, InvIs, ReportsEnd
<1>. QED
  BY <1>4

\* What is kept of an execution that ends, and of one that was held.
LEMMA OfferKeeps ==
  ASSUME ObservationInv, NEW e, IsExecution(e), kept' = Offered(e)
  PROVE  kept' \in SUBSET Key /\ kept \subseteq kept' /\ (Capturing => Writes[StepOf(e)] \subseteq kept')
<1>1. kept' = IF Capturing THEN kept \cup Writes[StepOf(e)] ELSE kept
  BY OfferIs DEF Offered
<1>2. Writes[StepOf(e)] \in SUBSET Key
  BY KeysAre DEF IsExecution
<1>. QED
  BY <1>1, <1>2, InvIs
\* What the release of a held report keeps for the evaluation.
LEMMA ReleasedKeeps ==
  ASSUME ObservationInv, kept' = Released
  PROVE  /\ kept' \in SUBSET Key /\ kept \subseteq kept'
         /\ Capturing => \A x \in HeldSet : Writes[StepOf(x)] \subseteq kept'
<1>1. CASE held = NoSpan
  BY <1>1, InvIs DEF Released, HeldSet
<1>2. CASE held # NoSpan
  <2>1. IsExecution(held)
    BY <1>2, InvIs, HeldIs, ExecutionsAre
  <2>2. kept' = Offered(held)
    BY <1>2 DEF Released
  <2>. QED
    BY <1>2, <2>1, <2>2, OfferKeeps DEF HeldSet
<1>. QED
  BY <1>1, <1>2

\* A nested execution ends.
LEMMA ChildEndKeeps ==
  ASSUME ObservationInv, NEW e \in Executions, ChildEnds(e)
  PROVE  ObservationInv'
<1>1. StructureInv' /\ Accounts({}, {e}) /\ IsExecution(e)
  BY InvIs, ChildEndAccounts, ExecutionsAre
<1>2. /\ status[e] = "running" /\ kept' = Offered(e) /\ world' = world /\ flow' = flow
      /\ CanSucceed(e) \/ CanFail(e)
      /\ obs' = ReportSuccess(obs, e) \/ obs' = ReportFailure(obs, e)
  BY DEF ChildEnds
<1>3. Reporting(obs', {}, {e})
  BY <1>2, InvIs, ChildrenOver, ReportedEnd DEF Untold
<1>4. KeptStep({}, {e})
  <2>1. kept' \in SUBSET Key /\ kept \subseteq kept' /\ (Capturing => Writes[StepOf(e)] \subseteq kept')
    BY <1>1, <1>2, OfferKeeps
  <2>2. Capturing => KeepsFlows'
    BY <1>2, <2>1, InvIs, KeepsStay
  <2>. QED
    BY <2>1, <2>2 DEF KeptStep
<1>. QED
  BY <1>1, <1>3, <1>4, ToldAfter

\* The flow's decision is about the visit it is in.
LEMMA DecideMoves ==
  ASSUME ObservationInv, NEW r \in DOMAIN flow, NEW e, NEW d, Decide(r, e, d)
  PROVE  MovesFlow(r) /\ flow'[r].phase = "decided"
<1>1. flow[r] \in Flows
  BY InvIs, FlowIs
<1>. QED
  BY <1>1 DEF Decide, MovesFlow, Flows

\* A top-level execution in no wrapper ends, and its visit is decided.
LEMMA StepEndKeeps ==
  ASSUME ObservationInv, NEW r \in DOMAIN flow, StepEnds(r)
  PROVE  ObservationInv'
<1>1. PICK e : e = flow[r].last
  OBVIOUS
<1>2. StructureInv' /\ Accounts({}, {e})
  BY <1>1, InvIs, StepEndAccounts
<1>3. /\ flow[r].phase = "running" /\ kept' = Offered(e) /\ world' = world
      /\ CanSucceed(e) \/ CanFail(e)
      /\ obs' = ReportSuccess(obs, e) \/ obs' = ReportFailure(obs, e)
      /\ \E d : Decide(r, e, d)
  BY <1>1 DEF StepEnds
<1>4. VisitFits(r, e) /\ status[e] = "running"
  BY <1>1, <1>3, InvIs, VisitIs
<1>5. IsExecution(e) /\ e \in Executions /\ StepOf(e) = Current(r)
  BY <1>4 DEF VisitFits
<1>6. Reporting(obs', {}, {e})
  BY <1>3, <1>4, <1>5, InvIs, ChildrenOver, ReportedEnd DEF Untold
<1>7. KeptStep({}, {e})
  <2>1. kept' \in SUBSET Key /\ kept \subseteq kept' /\ (Capturing => Writes[StepOf(e)] \subseteq kept')
    BY <1>3, <1>5, OfferKeeps
  <2>2. MovesFlow(r)
    BY <1>3, DecideMoves
  <2>3. Capturing => KeepsFlows'
    BY <1>3, <1>5, <2>1, <2>2, InvIs, KeepsMove
  <2>. QED
    BY <2>1, <2>3 DEF KeptStep
<1>. QED
  BY <1>2, <1>6, <1>7, ToldAfter

\* An attempt succeeds, and is held in place of the success before it.
LEMMA AttemptSucceedsKeeps ==
  ASSUME ObservationInv, NEW r \in DOMAIN flow, AttemptSucceeds(r)
  PROVE  ObservationInv'
<1>1. StructureInv' /\ Accounts({}, HeldSet)
  BY InvIs, AttemptSucceedsAccounts
<1>2. obs' = Release(obs) /\ kept' = Released /\ flow' = [flow EXCEPT ![r].phase = "returned"] /\ world' = world
  BY DEF AttemptSucceeds
<1>3. MovesFlow(r) /\ flow'[r].phase = "returned"
  BY <1>2, InvIs, FlowIs DEF MovesFlow, Flows
<1>4. Reporting(obs', {}, HeldSet)
  <2>1. Reporting(Release(obs), {}, {} \cup HeldSet)
    BY InvIs, ReportingNothing, ReportsHeld
  <2>. QED
    BY <1>2, <2>1
<1>5. KeptStep({}, HeldSet)
  <2>1. /\ kept' \in SUBSET Key /\ kept \subseteq kept'
        /\ Capturing => \A x \in HeldSet : Writes[StepOf(x)] \subseteq kept'
    BY <1>2, ReleasedKeeps
  <2>2. Capturing => KeepsFlows'
    BY <1>2, <1>3, <2>1, InvIs, KeepsMove
  <2>. QED
    BY <2>1, <2>2 DEF KeptStep
<1>. QED
  BY <1>1, <1>4, <1>5, ToldAfter

\* An attempt fails.
LEMMA AttemptFailsKeeps ==
  ASSUME ObservationInv, NEW r \in DOMAIN flow, AttemptFails(r)
  PROVE  ObservationInv'
<1>1. PICK e : e = flow[r].last
  OBVIOUS
<1>2. StructureInv' /\ Accounts({}, {e})
  BY <1>1, InvIs, AttemptFailsAccounts
<1>3. /\ flow[r].phase = "running" /\ kept' = Offered(e) /\ world' = world /\ Wrapped(r)
      /\ obs' = ReportFailure(obs, e)
  BY <1>1 DEF AttemptFails
<1>4. PICK phase \in {"failing", "retry"} : flow' = [flow EXCEPT ![r].phase = phase]
  BY DEF AttemptFails
<1>5. MovesFlow(r) /\ flow'[r].phase = phase
  BY <1>4, InvIs, FlowIs DEF MovesFlow, Flows
<1>6. VisitFits(r, e) /\ status[e] = "running"
  BY <1>1, <1>3, InvIs, VisitIs
<1>7. IsExecution(e) /\ e \in Executions /\ StepOf(e) = Current(r) /\ Inside(e) = {}
  BY <1>3, <1>6, InvIs, WrappedIs DEF VisitFits
<1>8. Reporting(obs', {}, {e})
  BY <1>3, <1>6, <1>7, ReportedEnd DEF Untold
<1>9. KeptStep({}, {e})
  <2>1. kept' \in SUBSET Key /\ kept \subseteq kept' /\ (Capturing => Writes[StepOf(e)] \subseteq kept')
    BY <1>3, <1>7, OfferKeeps
  <2>2. Capturing => KeepsFlows'
    BY <1>3, <1>5, <2>1, InvIs, KeepsMove
  <2>. QED
    BY <2>1, <2>2 DEF KeptStep
<1>. QED
  BY <1>2, <1>8, <1>9, ToldAfter

\* A cache hit stands in for an execution.
LEMMA CacheHitKeeps ==
  ASSUME ObservationInv, NEW r \in DOMAIN flow, CacheHit(r)
  PROVE  ObservationInv'
<1>1. PICK e : e = NextExecution(r, r, Current(r))
  OBVIOUS
<1>2. StructureInv' /\ Accounts({e}, HeldSet) /\ IsExecution(e) /\ StepOf(e) = Current(r)
  BY <1>1, InvIs, CacheHitAccounts
<1>3. obs' = Release(TellStarted(obs, e)) /\ kept' = Released /\ world' = world
  BY <1>1 DEF CacheHit
<1>4. MovesFlow(r) /\ flow'[r].phase = "returned"
  <2>1. flow[r] \in Flows
    BY InvIs, FlowIs
  <2>. QED
    BY <2>1 DEF CacheHit, MovesFlow, Flows
<1>5. Starting(e)
  BY <1>2 DEF Accounts
<1>6. Reporting(obs', {e}, HeldSet)
  <2>1. TellsBegin(obs, TellStarted(obs, e), e)
    BY <1>2, InvIs, TellsBeginIs
  <2>2. Reporting(TellStarted(obs, e), {} \cup {e}, {})
    BY <1>5, <2>1, InvIs, ReportingNothing, ReportBegin
  <2>3. Reporting(TellStarted(obs, e), {e}, {})
    BY <2>2
  <2>4. Reporting(Release(TellStarted(obs, e)), {e}, {} \cup HeldSet)
    BY <2>3, InvIs, ReportsHeld
  <2>. QED
    BY <1>3, <2>4
<1>7. KeptStep({e}, HeldSet)
  <2>1. /\ kept' \in SUBSET Key /\ kept \subseteq kept'
        /\ Capturing => \A x \in HeldSet : Writes[StepOf(x)] \subseteq kept'
    BY <1>3, ReleasedKeeps
  <2>2. Capturing => KeepsFlows'
    BY <1>3, <1>4, <2>1, InvIs, KeepsMove
  <2>3. Capturing => Reads[StepOf(e)] \subseteq kept'
    BY <1>2, <2>1, InvIs, CurrentReads
  <2>. QED
    BY <2>1, <2>2, <2>3 DEF KeptStep
<1>. QED
  BY <1>2, <1>6, <1>7, ToldAfter

\* A timeout of an outer wrapper drops the result of the inner one.
LEMMA ResultDroppedKeeps ==
  ASSUME ObservationInv, NEW r \in DOMAIN flow, ResultDropped(r)
  PROVE  ObservationInv'
<1>1. StructureInv' /\ Accounts({}, {})
  BY InvIs, ResultDroppedAccounts
<1>2. obs' = obs /\ kept' = kept /\ world' = world
  BY DEF ResultDropped
<1>3. PICK phase \in {"failing", "retry"} : flow' = [flow EXCEPT ![r].phase = phase]
  BY DEF ResultDropped
<1>4. MovesFlow(r) /\ flow'[r].phase = phase
  BY <1>3, InvIs, FlowIs DEF MovesFlow, Flows
<1>5. Reporting(obs', {}, {})
  BY <1>2, ReportingNothing
<1>6. KeptStep({}, {})
  <2>1. Capturing => KeepsFlows'
    BY <1>2, <1>4, InvIs, KeepsMove
  <2>. QED
    BY <1>2, <2>1, InvIs DEF KeptStep
<1>. QED
  BY <1>1, <1>5, <1>6, ToldAfter

\* A visit whose wrapped step is over keeps what the step wrote.
LEMMA WrappedWrites ==
  ASSUME ObservationInv, Capturing, NEW r \in DOMAIN flow, flow[r].phase \in {"returned", "failing"}, NEW k,
         kept \subseteq k, \A x \in HeldSet : Writes[StepOf(x)] \subseteq k
  PROVE  Writes[Current(r)] \subseteq k
<1>. DEFINE e == flow[r].last
<1>1. VisitFits(r, e)
  BY InvIs, VisitIs
<1>2. e \in Executions /\ StepOf(e) = Current(r) /\ e # RootRun
  BY <1>1 DEF VisitFits
<1>3. status[e] = "failed" \/ held = e
  BY InvIs, FlowIs DEF FlowFits, Visited
<1>. HIDE DEF e
<1>4. CASE status[e] = "failed"
  BY <1>2, <1>4, InvIs DEF KeptInv
<1>5. CASE held = e
  BY <1>2, <1>5 DEF HeldSet, NoSpan, RootRun
<1>. QED
  BY <1>3, <1>4, <1>5

\* A visit is committed, or its wrapper fails: either way what is held is reported.
LEMMA ReleasedStepKeeps ==
  ASSUME ObservationInv, NEW r \in DOMAIN flow, Commits(r) \/ WrapperFails(r)
  PROVE  ObservationInv'
<1>1. StructureInv' /\ Accounts({}, HeldSet)
  BY InvIs, ReleasedAccounts
<1>2. /\ flow[r].phase \in {"returned", "failing"} /\ obs' = Release(obs) /\ kept' = Released /\ world' = world
      /\ \E d : Decide(r, flow[r].last, d)
  BY DEF Commits, WrapperFails
<1>3. Reporting(obs', {}, HeldSet)
  <2>1. Reporting(Release(obs), {}, {} \cup HeldSet)
    BY InvIs, ReportingNothing, ReportsHeld
  <2>. QED
    BY <1>2, <2>1
<1>4. KeptStep({}, HeldSet)
  <2>1. /\ kept' \in SUBSET Key /\ kept \subseteq kept'
        /\ Capturing => \A x \in HeldSet : Writes[StepOf(x)] \subseteq kept'
    BY <1>2, ReleasedKeeps
  <2>2. MovesFlow(r)
    BY <1>2, DecideMoves
  <2>3. Capturing => Writes[Current(r)] \subseteq kept'
    BY <1>2, <2>1, WrappedWrites
  <2>4. Capturing => KeepsFlows'
    BY <1>2, <2>1, <2>2, <2>3, InvIs, KeepsMove
  <2>. QED
    BY <2>1, <2>4 DEF KeptStep
<1>. QED
  BY <1>1, <1>3, <1>4, ToldAfter

\* A transition fails the held execution.
LEMMA TransitionFailsKeeps ==
  ASSUME ObservationInv, NEW r \in DOMAIN flow, TransitionFails(r)
  PROVE  ObservationInv'
<1>1. StructureInv' /\ Accounts({}, {held}) /\ held # NoSpan /\ held \in Executions
  BY InvIs, TransitionFailsAccounts
<1>2. /\ flow[r].phase = "returned" /\ obs' = ReportFailure(obs, held) /\ kept' = Offered(held) /\ world' = world
      /\ \E d : Decide(r, flow[r].last, d)
  BY DEF TransitionFails
<1>3. Untold(held) /\ \A y \in Inside(held) : status[y] # "running"
  BY <1>1, InvIs, HeldIs DEF Untold
<1>4. Reporting(obs', {}, {held})
  BY <1>1, <1>2, <1>3, ReportedEnd
<1>5. KeptStep({}, {held})
  <2>1. kept' \in SUBSET Key /\ kept \subseteq kept' /\ (Capturing => Writes[StepOf(held)] \subseteq kept')
    BY <1>1, <1>2, InvIs, ExecutionsAre, OfferKeeps
  <2>2. MovesFlow(r)
    BY <1>2, DecideMoves
  <2>3. Capturing => Writes[Current(r)] \subseteq kept'
    BY <1>2, <2>1, WrappedWrites DEF HeldSet
  <2>4. Capturing => KeepsFlows'
    BY <1>2, <2>1, <2>2, <2>3, InvIs, KeepsMove
  <2>. QED
    BY <2>1, <2>4 DEF KeptStep
<1>. QED
  BY <1>1, <1>4, <1>5, ToldAfter

\* A merge fails, in an execution of its own.
LEMMA MergeFailsKeeps ==
  ASSUME ObservationInv, NEW r \in DOMAIN flow, MergeFails(r)
  PROVE  ObservationInv'
<1>1. PICK e : e = NextExecution(r, r, Current(r))
  OBVIOUS
<1>2. StructureInv' /\ Accounts({e}, HeldSet \cup {e}) /\ IsExecution(e) /\ StepOf(e) = Current(r)
  BY <1>1, InvIs, MergeFailsAccounts
<1>. DEFINE told == TellStarted(Release(obs), e)
<1>3. /\ flow[r].phase = "returned" /\ obs' = ReportFailure(told, e) /\ kept' = Released /\ world' = world
      /\ \E d : Decide(r, e, d)
  BY <1>1 DEF MergeFails
<1>4. Starting(e) /\ e \notin DOMAIN status
  BY <1>2 DEF Accounts, Starting
<1>5. Reporting(obs', {e}, HeldSet \cup {e})
  <2>1. Reporting(Release(obs), {}, {} \cup HeldSet)
    BY InvIs, ReportingNothing, ReportsHeld
  <2>2. Reporting(Release(obs), {}, HeldSet) /\ Release(obs) \in ObsRecords
    BY <2>1 DEF Reporting, Telling
  <2>3. TellsBegin(Release(obs), told, e)
    BY <1>2, <2>2, InvIs, TellsBeginIs
  <2>. HIDE DEF told
  <2>4. Reporting(told, {} \cup {e}, HeldSet)
    BY <1>4, <2>2, <2>3, InvIs, ReportBegin
  <2>5. Reporting(told, {e}, HeldSet)
    BY <2>4
  <2>6. HeldSet \subseteq DOMAIN status
    BY InvIs, HeldIs DEF HeldSet
  <2>7. e \notin OverSet \cup HeldSet
    BY <1>4, <2>6 DEF OverSet
  <2>8. \A y \in Inside(e) : status[y] # "running"
    <3>1. \A y \in DOMAIN status : ~Within(y, e)
      BY <1>2, <1>4, InvIs, AroundStarting DEF IsExecution
    <3>. QED
      BY <3>1 DEF Inside
  <2>. QED
    BY <1>2, <1>3, <1>4, <2>5, <2>7, <2>8, InvIs, ReportsEnd
<1>6. KeptStep({e}, HeldSet \cup {e})
  <2>1. /\ kept' \in SUBSET Key /\ kept \subseteq kept'
        /\ Capturing => \A x \in HeldSet : Writes[StepOf(x)] \subseteq kept'
    BY <1>3, ReleasedKeeps
  <2>2. MovesFlow(r)
    BY <1>3, DecideMoves
  <2>3. Capturing => Writes[Current(r)] \subseteq kept'
    BY <1>3, <2>1, WrappedWrites
  <2>4. Capturing => KeepsFlows'
    BY <1>3, <2>1, <2>2, <2>3, InvIs, KeepsMove
  <2>5. Capturing => Reads[StepOf(e)] \subseteq kept'
    BY <1>2, <2>1, InvIs, CurrentReads
  <2>6. Capturing => \A x \in HeldSet \cup {e} : Writes[StepOf(x)] \subseteq kept'
    BY <1>2, <2>1, <2>3
  <2>. QED
    BY <2>1, <2>4, <2>5, <2>6 DEF KeptStep
<1>. QED
  BY <1>2, <1>5, <1>6, ToldAfter

\* The flow tells what it decided.
LEMMA TellsKeeps ==
  ASSUME ObservationInv, NEW r \in DOMAIN flow, Tells(r)
  PROVE  ObservationInv'
<1>1. StructureInv' /\ Accounts({}, {})
  BY InvIs, TellsAccounts
<1>2. /\ flow[r].phase = "decided" /\ kept' = kept /\ world' = world
      /\ obs' = IF Head(flow[r].todo) = "resolve" THEN TellResolved(obs, r)
                ELSE TellDecision(obs, r, Head(flow[r].todo), flow[r].decision.taken)
  BY DEF Tells
<1>3. PICK g \in Flows :
           /\ flow' = [flow EXCEPT ![r] = g] /\ g.last = flow[r].last
           /\ \/ g.phase = "decided" /\ g.at = flow[r].at /\ g.todo # <<>>
              \/ /\ g.phase \in {"visit", "ended"} /\ g.at \in DOMAIN StepsOf(r)
                 /\ g.at \in {flow[r].at, flow[r].at + 1}
  BY InvIs, TellsTo
<1>4. flow[r] \in Flows /\ FlowFits(r, flow[r]) /\ r \in DOMAIN status /\ r \in Spans
  BY InvIs, FlowIs
<1>5. Reporting(obs', {}, {})
  <2>1. Head(flow[r].todo) \in {"rejected", "taken", "resolve"}
    <3>1. flow[r].todo \in Seq({"rejected", "taken", "resolve"}) /\ flow[r].todo # <<>>
      BY <1>2, <1>4 DEF FlowFits, Flows
    <3>. QED
      BY <3>1
  <2>2. flow[r].decision.taken \in {"none", "rewind", "skip", "fail"}
    BY <1>4 DEF Flows, Decisions
  <2>3. Speaks(obs, obs', "none", r, {}, {})
    <3>1. CASE Head(flow[r].todo) = "resolve"
      BY <1>2, <1>4, <3>1, InvIs, TellResolvedSpeaks
    <3>2. CASE Head(flow[r].todo) # "resolve"
      <4>1. Head(flow[r].todo) \in {"rejected", "taken"}
        BY <2>1, <3>2
      <4>2. obs' = TellDecision(obs, r, Head(flow[r].todo), flow[r].decision.taken)
        BY <1>2, <3>2
      <4>. QED
        BY <1>4, <2>2, <4>1, <4>2, InvIs, TellDecisionSpeaks
    <3>. QED
      BY <3>1, <3>2
  <2>. QED
    BY <1>4, <2>3, InvIs, ReportingNothing, ReportQuiet
<1>6. KeptStep({}, {})
  <2>1. ASSUME Capturing PROVE KeepsFlows'
    <3>1. \A q \in DOMAIN flow : KeepsRun(q, flow[q])
      BY <2>1, InvIs DEF KeptInv
    <3>2. \A q : StepsOf(q)' = StepsOf(q)
      BY <1>2 DEF StepsOf
    <3>3. /\ DOMAIN flow' = DOMAIN flow /\ flow'[r] = g
          /\ \A q \in DOMAIN flow : q # r => flow'[q] = flow[q]
      BY <1>3, InvIs DEF TypeInv
    <3>4. ASSUME NEW q \in DOMAIN flow, q # r PROVE KeepsRun(q, flow[q])'
      BY <1>2, <3>1, <3>2, <3>3, <3>4 DEF KeepsRun
    <3>5. /\ Inputs[PipelineOf(r)] \subseteq kept
          /\ \A j \in 1..(flow[r].at - 1) : Writes[StepsOf(r)[j]] \subseteq kept
          /\ Writes[StepsOf(r)[flow[r].at]] \subseteq kept
      BY <1>2, <3>1 DEF KeepsRun
    <3>6. flow[r].at \in Nat /\ g.at \in {flow[r].at, flow[r].at + 1} /\ (g.phase = "decided" => g.at = flow[r].at)
      BY <1>3, <1>4 DEF Flows
    <3>7. \A j \in 1..(g.at - 1) : j \in 1..(flow[r].at - 1) \/ j = flow[r].at
      BY <3>6
    <3>8. KeepsRun(r, g)'
      <4>1. \A j \in 1..(g.at - 1) : Writes[StepsOf(r)[j]] \subseteq kept
        BY <3>5, <3>7
      <4>2. g.phase = "decided" => Writes[StepsOf(r)[g.at]] \subseteq kept
        BY <3>5, <3>6
      <4>. QED
        BY <1>2, <3>2, <3>5, <4>1, <4>2 DEF KeepsRun
    <3>9. KeepsRun(r, flow[r])'
      BY <3>3, <3>8
    <3>. QED
      BY <3>3, <3>4, <3>9 DEF KeepsFlows
  <2>. QED
    BY <1>2, <2>1, InvIs DEF KeptStep
<1>. QED
  BY <1>1, <1>5, <1>6, ToldAfter

\* A run ends.
LEMMA RunEndKeeps ==
  ASSUME ObservationInv, NEW r \in DOMAIN flow, RunEnds(r)
  PROVE  ObservationInv'
<1>1. /\ StructureInv' /\ Accounts({}, {r}) /\ IsRun(r) /\ r \in Spans
      /\ \A y \in Inside(r) : status[y] # "running"
  BY InvIs, RunEndAccounts
<1>2. flow[r].phase = "ended" /\ kept' = kept /\ world' = world /\ flow' = [flow EXCEPT ![r].phase = "done"]
  BY DEF RunEnds
<1>3. MovesFlow(r) /\ flow'[r].phase = "done"
  BY <1>2, InvIs, FlowIs DEF MovesFlow, Flows
<1>4. r \in DOMAIN status /\ r \notin OverSet \cup {}
  BY <1>1 DEF Accounts, OverSet
<1>5. PICK text : text \subseteq TextOf(r) /\ obs' = TellRunFinished(obs, r, text)
  BY DEF RunEnds, TextOf
<1>6. text \in SUBSET Key
  BY <1>1, <1>5, InvIs, TextIs
<1>7. TellsEnd(obs, obs', r, text)
  BY <1>1, <1>5, <1>6, InvIs, TellsRunEndIs
<1>8. Reporting(obs', {}, {} \cup {r})
  BY <1>1, <1>4, <1>5, <1>7, InvIs, ReportingNothing, ReportEnd
<1>9. KeptStep({}, {r})
  <2>1. Capturing => KeepsFlows'
    BY <1>2, <1>3, InvIs, KeepsMove
  <2>. QED
    BY <1>1, <1>2, <2>1, InvIs DEF KeptStep
<1>10. Reporting(obs', {}, {r})
  BY <1>8
<1>. QED
  BY <1>1, <1>9, <1>10, ToldAfter

-----------------------------------------------------------------------------
(* The invariant, and what it says.                                          *)

\* Nothing has been told before anything starts.
LEMMA InitKept == Init => ObservationInv
<1>. SUFFICES ASSUME Init
              PROVE  ObservationInv
  OBVIOUS
<1>1. /\ world \in Worlds /\ status = <<>> /\ flow = <<>> /\ held = NoSpan /\ kept = {} /\ decided = <<>>
      /\ obs = [log |-> <<>>, pending |-> {}, memory |-> {}]
  BY DEF Init
<1>2. DOMAIN status = {} /\ DOMAIN flow = {} /\ DOMAIN decided = {} /\ DOMAIN obs.log = {} /\ obs.pending = {}
      /\ Executions = {}
  BY <1>1 DEF Executions
<1>3. TypeInv
  <2>1. IsFiniteSet({})
    BY FS_EmptySet
  <2>2. status \in [DOMAIN status -> Statuses] /\ flow \in [DOMAIN flow -> Flows]
        /\ decided \in [DOMAIN decided -> Decisions]
    BY <1>1
  <2>. QED
    BY <1>1, <1>2, <2>1, <2>2 DEF TypeInv, NoSpan, Spans
<1>4. SpansFit
  BY <1>2 DEF SpansFit
<1>5. FlowInv
  BY <1>1, <1>2 DEF FlowInv, HeldFits
<1>6. ObsTypes
  BY <1>1 DEF ObsTypes, ObsRecords, Memories
<1>7. LogInv /\ AudienceTold /\ KeptInv /\ MemoryInv /\ RedactedInv /\ OverInv
  BY <1>2 DEF LogInv, AudienceTold, KeptInv, MemoryInv, RedactedInv, OverInv
<1>. QED
  BY <1>3, <1>4, <1>5, <1>6, <1>7 DEF ObservationInv, StructureInv, ToldInv

\* What the invariant says of a state is about the variables.
LEMMA StutterKept ==
  ASSUME ObservationInv, UNCHANGED vars
  PROVE  ObservationInv'
<1>1. /\ world' = world /\ status' = status /\ flow' = flow /\ held' = held /\ obs' = obs /\ kept' = kept
      /\ decided' = decided
  BY DEF vars
<1>2. StructureInv'
  <2>1. StructureInv /\ Executions' = Executions
    BY <1>1 DEF ObservationInv, Executions
  <2>2. TypeInv'
    BY <1>1, <2>1 DEF StructureInv, TypeInv
  <2>3. SpansFit'
    BY <1>1, <2>1 DEF StructureInv, SpansFit, RunFits, ExecutionFits, StepsOf, Executions, Alike
  <2>4. FlowInv'
    <3>1. ASSUME NEW q \in DOMAIN flow'
          PROVE  FlowFits(q, flow[q])'
      BY <1>1, <2>1 DEF StructureInv, FlowInv, FlowFits, Visited, StepsOf
    <3>2. HeldFits'
      BY <1>1, <2>1 DEF StructureInv, FlowInv, HeldFits, StepsOf
    <3>. QED
      BY <1>1, <3>1, <3>2 DEF FlowInv
  <2>. QED
    BY <2>2, <2>3, <2>4 DEF StructureInv
<1>3. Accounts({}, {})
  BY <1>1, InvIs, QuietAccounts
<1>4. Reporting(obs', {}, {})
  BY <1>1, ReportingNothing
<1>5. KeptStep({}, {})
  BY <1>1, InvIs DEF KeptStep, KeepsFlows, KeepsRun, KeptInv, StepsOf
<1>. QED
  BY <1>2, <1>3, <1>4, <1>5, ToldAfter

\* Every step keeps the invariant.
LEMMA NextKept ==
  ASSUME ObservationInv, [Next]_vars
  PROVE  ObservationInv'
<1>1. CASE RunStarts(RootRun)
  BY <1>1, RunStartKeeps
<1>2. ASSUME NEW e \in Executions, StepOf(e) \in ProgramSteps, RunStarts(NestedRun(e))
      PROVE  ObservationInv'
  BY <1>2, RunStartKeeps
<1>3. ASSUME NEW e \in Executions, NEW c \in Children[StepOf(e)], ChildStarts(e, c)
      PROVE  ObservationInv'
  BY <1>3, ChildStartKeeps
<1>4. ASSUME NEW e \in Executions, ChildEnds(e)
      PROVE  ObservationInv'
  BY <1>4, ChildEndKeeps
<1>5. ASSUME NEW r \in DOMAIN flow, StepStarts(r) \/ AttemptStarts(r)
      PROVE  ObservationInv'
  BY <1>5, FlowStartKeeps
<1>6. ASSUME NEW r \in DOMAIN flow, StepEnds(r)
      PROVE  ObservationInv'
  BY <1>6, StepEndKeeps
<1>7. ASSUME NEW r \in DOMAIN flow, AttemptSucceeds(r)
      PROVE  ObservationInv'
  BY <1>7, AttemptSucceedsKeeps
<1>8. ASSUME NEW r \in DOMAIN flow, AttemptFails(r)
      PROVE  ObservationInv'
  BY <1>8, AttemptFailsKeeps
<1>9. ASSUME NEW r \in DOMAIN flow, CacheHit(r)
      PROVE  ObservationInv'
  BY <1>9, CacheHitKeeps
<1>10. ASSUME NEW r \in DOMAIN flow, ResultDropped(r)
       PROVE  ObservationInv'
  BY <1>10, ResultDroppedKeeps
<1>11. ASSUME NEW r \in DOMAIN flow, Commits(r) \/ WrapperFails(r)
       PROVE  ObservationInv'
  BY <1>11, ReleasedStepKeeps
<1>12. ASSUME NEW r \in DOMAIN flow, TransitionFails(r)
       PROVE  ObservationInv'
  BY <1>12, TransitionFailsKeeps
<1>13. ASSUME NEW r \in DOMAIN flow, MergeFails(r)
       PROVE  ObservationInv'
  BY <1>13, MergeFailsKeeps
<1>14. ASSUME NEW r \in DOMAIN flow, Tells(r)
       PROVE  ObservationInv'
  BY <1>14, TellsKeeps
<1>15. ASSUME NEW r \in DOMAIN flow, RunEnds(r)
       PROVE  ObservationInv'
  BY <1>15, RunEndKeeps
<1>16. CASE Terminated \/ UNCHANGED vars
  BY <1>16, StutterKept DEF Terminated
<1>. QED
  BY <1>1, <1>2, <1>3, <1>4, <1>5, <1>6, <1>7, <1>8, <1>9, <1>10, <1>11, <1>12, <1>13, <1>14, <1>15, <1>16
  DEF Next

\* The invariant holds in every state.
THEOREM ObservationAlways == Spec => []ObservationInv
<1>1. Init => ObservationInv
  BY InitKept
<1>2. ObservationInv /\ [Next]_vars => ObservationInv'
  BY NextKept
<1>. QED
  BY <1>1, <1>2, PTL DEF Spec

\* Values stay in their sets, the flows are those of the runs that started, and what a wrapper
\* holds is an execution.
THEOREM ObservationTyped == Spec => []TypeOK
<1>1. ObservationInv => TypeOK
  BY DEF ObservationInv, StructureInv, ToldInv, ObsTypes, TypeInv, TypeOK, FlowInv, HeldFits, Statuses
<1>. QED
  BY <1>1, ObservationAlways, PTL

\* Every run and execution is told to the observers of the runs around it and to the recorder of an
\* evaluation, once each and to nobody else, however the lanes split them; only a held end waits.
THEOREM AudienceAlwaysTold == Spec => []AudienceTold
<1>1. ObservationInv => AudienceTold
  BY DEF ObservationInv, ToldInv
<1>. QED
  BY <1>1, ObservationAlways, PTL

\* No event carries what a Redactor of a run around it hides, and no error repeats it, or what a
\* Redactor of a run inside has hidden.
THEOREM RedactedAlwaysOut == Spec => []RedactedStaysOut
<1>1. ObservationInv => RedactedStaysOut
  BY DEF ObservationInv, ToldInv, RedactedInv, Redacted, RedactedStaysOut
<1>. QED
  BY <1>1, ObservationAlways, PTL

\* What an evaluated item says, once what the capture kept has passed through the Redactors, repeats
\* nothing that a Redactor of the programme hides.
THEOREM ReflectionAlwaysHides == Spec => []ReflectionHides
<1>1. ASSUME ObservationInv
      PROVE  ReflectionHides
  <2>. SUFFICES ASSUME world.recorded, RunEnded, NEW k \in ItemText \cap KnownHides
                PROVE  FALSE
    BY DEF ReflectionHides
  <2>1. Capturing /\ KeptInv
    BY <1>1 DEF Capturing, ObservationInv, ToldInv
  <2>2. k \in ErrorText(RootRun) \cup UNION {obs.log[i].says : i \in DeliveredTo(Evaluator)} /\ k \notin kept
    BY DEF ItemText
  <2>3. k \notin ErrorText(RootRun)
    BY <2>1, <2>2 DEF KeptInv, ErrorText
  <2>4. k \notin UNION {obs.log[i].says : i \in DeliveredTo(Evaluator)}
    BY <2>1, <2>2 DEF KeptInv, DeliveredTo
  <2>. QED
    BY <2>2, <2>3, <2>4
<1>. QED
  BY <1>1, ObservationAlways, PTL

-----------------------------------------------------------------------------
(* The order of what is told.  The part of the invariant about the log.      *)

\* y is around x and not x itself; e is a top-level execution of run r.
Around(x, y) == Within(x, y) /\ x # y
TopOf(r, e) == ~IsRun(e) /\ Parent(e) = r /\ IsRun(r)
Decisive(ev) == ev.kind \in {"taken", "rejected"}

\* Each observer of x has been told of its start, or end, before place i.
CoveredBefore(o, k, x, i) == \A w \in Audience(x) : \E m \in Marked(o, k, x) : m < i /\ w \in o.log[m].to

\* What is told within x is told after its start, and not to those who were told its end.
BeginsFirst(o) ==
  \A i, j \in DOMAIN o.log :
    i < j /\ MarkOf(o.log[j].kind) = "begin" /\ Within(o.log[i].span, o.log[j].span) =>
      o.log[i].span = o.log[j].span /\ MarkOf(o.log[i].kind) = "begin"
EndsLast(o) ==
  \A i, j \in DOMAIN o.log :
    i < j /\ MarkOf(o.log[i].kind) = "end" /\ Around(o.log[j].span, o.log[i].span) =>
      o.log[i].to \cap o.log[j].to = {}
\* When a top-level execution starts, everybody was told the end of those before it.
StepsEnd(o) ==
  InOneWrapper => \A i, j \in DOMAIN o.log :
    /\ i < j /\ MarkOf(o.log[i].kind) = "begin" /\ MarkOf(o.log[j].kind) = "begin"
    /\ \E r \in Spans : TopOf(r, o.log[i].span) /\ TopOf(r, o.log[j].span)
    /\ o.log[i].span # o.log[j].span
    => CoveredBefore(o, "end", o.log[i].span, j)

\* Execution e is the latest that run r started before place i, it is not resolved before i, and
\* no transition was told since it started.
LatestAt(o, r, e, i) ==
  \A k \in Marked(o, "begin", e), m \in DOMAIN o.log :
    m < i /\ MarkOf(o.log[m].kind) = "begin" /\ TopOf(r, o.log[m].span) /\ o.log[m].span # e => m < k
UnresolvedAt(o, e, i) == \A j \in DOMAIN o.log : j < i => ~(o.log[j].kind = "resolved" /\ o.log[j].span = e)
UntakenAt(o, r, e, i) ==
  \A k \in Marked(o, "begin", e), j \in DOMAIN o.log :
    j < i /\ o.log[j].kind = "taken" /\ o.log[j].span = r => j < k
\* The decision at place i is one on execution e.
DecisionOf(o, i, e) ==
  /\ TopOf(o.log[i].span, e)
  /\ CoveredBefore(o, "begin", e, i) /\ CoveredBefore(o, "end", e, i)
  /\ LatestAt(o, o.log[i].span, e, i) /\ UnresolvedAt(o, e, i)
  /\ o.log[i].kind = "rejected" => UntakenAt(o, o.log[i].span, e, i)
DecisionsAfter(o) ==
  \A i \in DOMAIN o.log : Decisive(o.log[i]) => \E e \in Spans : DecisionOf(o, i, e)

\* Events go to those around what they are about, and what is pending is of its run.
ToAudience(o) == \A i \in DOMAIN o.log : o.log[i].to \subseteq Audience(o.log[i].span)
PendFits(o) == \A q \in o.pending : TopOf(q.run, q.span)

\* The order of a log.
Ordered(o) ==
  BeginsFirst(o) /\ EndsLast(o) /\ StepsEnd(o) /\ DecisionsAfter(o) /\ ToAudience(o) /\ PendFits(o)

\* The place of the next event.
Place(o) == Len(o.log) + 1

\* Where the flow stands in a visit: its last execution is the latest, unresolved, and no
\* transition is told before the rejected rewind.
InVisit == {"running", "returned", "retry", "failing", "decided"}
RunOrder(o, r, f) ==
  LET i == Place(o)
  IN f.phase \in InVisit =>
       /\ TopOf(r, f.last) /\ LatestAt(o, r, f.last, i) /\ UnresolvedAt(o, f.last, i)
       /\ f.phase # "decided" \/ Head(f.todo) = "rejected" => UntakenAt(o, r, f.last, i)
Todos == {<<"rejected", "taken", "resolve">>, <<"rejected", "resolve">>, <<"taken", "resolve">>, <<"resolve">>}
TodoFits(f) == f.phase = "decided" => f.todo \in Todos
HoldFits == InOneWrapper /\ held # NoSpan => flow[RootRun].phase = "returned"

\* The inductive invariant of the order, on top of ObservationInv.
OrderInv ==
  /\ Ordered(obs) /\ HoldFits
  /\ \A r \in DOMAIN flow : RunOrder(obs, r, flow[r]) /\ TodoFits(flow[r])

-----------------------------------------------------------------------------
(* What a longer log keeps of the order.                                     *)

\* The log of p is that of o with events of S after it, and of what is pending only N is new.
PendsOf(o) == {<<q.run, q.span>> : q \in o.pending}
Grows(o, p, S, N) ==
  /\ Len(o.log) <= Len(p.log)
  /\ \A i \in 1..Len(o.log) : p.log[i] = o.log[i]
  /\ \A i \in (Len(o.log) + 1)..Len(p.log) : p.log[i] \in S
  /\ PendsOf(p) \subseteq PendsOf(o) \cup N
\* The places of a log.
LEMMA LogIs ==
  ASSUME NEW o \in ObsRecords
  PROVE  /\ Len(o.log) \in Nat /\ DOMAIN o.log = 1..Len(o.log) /\ Place(o) \in Nat
         /\ \A i \in DOMAIN o.log : o.log[i] \in Events /\ i \in Nat /\ i < Place(o)
<1>1. o.log \in Seq(Events)
  BY DEF ObsRecords
<1>. QED
  BY <1>1 DEF Place

\* The old places of a longer log, and the new ones.
LEMMA GrowsPlaces ==
  ASSUME NEW o \in ObsRecords, NEW p \in ObsRecords, NEW S, NEW N, Grows(o, p, S, N)
  PROVE  /\ DOMAIN o.log \subseteq DOMAIN p.log /\ Place(o) <= Place(p)
         /\ \A i \in DOMAIN p.log : i < Place(o) => i \in DOMAIN o.log /\ p.log[i] = o.log[i]
         /\ \A i \in DOMAIN p.log : ~(i < Place(o)) => p.log[i] \in S
         /\ \A k, x : \A i \in Marked(p, k, x) : i < Place(o) => i \in Marked(o, k, x)
         /\ \A k, x : Marked(o, k, x) \subseteq Marked(p, k, x)
<1>1. /\ Len(o.log) \in Nat /\ Len(p.log) \in Nat /\ DOMAIN o.log = 1..Len(o.log) /\ DOMAIN p.log = 1..Len(p.log)
  BY LogIs
<1>2. /\ DOMAIN o.log \subseteq DOMAIN p.log /\ Place(o) <= Place(p)
      /\ \A i \in DOMAIN p.log : i < Place(o) => i \in DOMAIN o.log /\ p.log[i] = o.log[i]
      /\ \A i \in DOMAIN p.log : ~(i < Place(o)) => p.log[i] \in S
      /\ \A i \in DOMAIN o.log : p.log[i] = o.log[i]
  BY <1>1 DEF Grows, Place
<1>. QED
  BY <1>2 DEF Marked

\* Nothing is said from a record to itself.
LEMMA GrowsNothing ==
  ASSUME NEW o \in ObsRecords, NEW S, NEW N
  PROVE  Grows(o, o, S, N)
<1>1. Len(o.log) \in Nat
  BY LogIs
<1>. QED
  BY <1>1 DEF Grows

\* What grows twice grows.
LEMMA GrowsTwice ==
  ASSUME NEW o \in ObsRecords, NEW q \in ObsRecords, NEW p \in ObsRecords, NEW S, NEW N,
         Grows(o, q, S, N), Grows(q, p, S, N)
  PROVE  Grows(o, p, S, N)
<1>1. Len(o.log) \in Nat /\ Len(q.log) \in Nat /\ Len(p.log) \in Nat
  BY LogIs
<1>2. Len(o.log) <= Len(p.log) /\ \A i \in 1..Len(o.log) : p.log[i] = o.log[i]
  BY <1>1 DEF Grows
<1>3. ASSUME NEW i \in (Len(o.log) + 1)..Len(p.log) PROVE p.log[i] \in S
  <2>1. CASE i <= Len(q.log)
    <3>1. i \in 1..Len(q.log) /\ i \in (Len(o.log) + 1)..Len(q.log)
      BY <1>1, <2>1
    <3>. QED
      BY <3>1 DEF Grows
  <2>2. CASE ~(i <= Len(q.log))
    <3>1. i \in (Len(q.log) + 1)..Len(p.log)
      BY <1>1, <2>2
    <3>. QED
      BY <3>1 DEF Grows
  <2>. QED
    BY <2>1, <2>2
<1>4. PendsOf(p) \subseteq PendsOf(o) \cup N
  BY DEF Grows
<1>. QED
  BY <1>2, <1>3, <1>4 DEF Grows

\* What grows within less grows within more.
LEMMA GrowsMore ==
  ASSUME NEW o, NEW p, NEW S, NEW N, NEW T, NEW M, Grows(o, p, S, N), S \subseteq T, N \subseteq M
  PROVE  Grows(o, p, T, M)
  BY DEF Grows

\* What was told before a place of the old log is told before it in the new one.
LEMMA CoveredGrows ==
  ASSUME NEW o \in ObsRecords, NEW p \in ObsRecords, NEW S, NEW N, Grows(o, p, S, N),
         NEW k, NEW x, NEW i \in Nat, NEW j \in Nat, i <= j, CoveredBefore(o, k, x, i)
  PROVE  CoveredBefore(p, k, x, j)
<1>. SUFFICES ASSUME NEW w \in Audience(x) PROVE \E m \in Marked(p, k, x) : m < j /\ w \in p.log[m].to
  BY DEF CoveredBefore
<1>1. PICK m \in Marked(o, k, x) : m < i /\ w \in o.log[m].to
  BY DEF CoveredBefore
<1>2. m \in DOMAIN o.log
  BY DEF Marked
<1>3. m \in Nat /\ m < Place(o)
  BY <1>2, LogIs
<1>4. m \in Marked(p, k, x) /\ p.log[m] = o.log[m]
  BY <1>2, <1>3, GrowsPlaces
<1>5. m < j
  BY <1>1, <1>3
<1>. QED
  BY <1>1, <1>4, <1>5

\* What is so of an execution at an old place stays so.
LEMMA PlacesStay ==
  ASSUME NEW o \in ObsRecords, NEW p \in ObsRecords, NEW S, NEW N, Grows(o, p, S, N),
         NEW r, NEW e, NEW i \in Nat, i <= Place(o)
  PROVE  /\ LatestAt(o, r, e, i) => LatestAt(p, r, e, i)
         /\ UnresolvedAt(o, e, i) => UnresolvedAt(p, e, i)
         /\ UntakenAt(o, r, e, i) => UntakenAt(p, r, e, i)
<1>1. \A m \in DOMAIN p.log : m < i => m \in DOMAIN o.log /\ p.log[m] = o.log[m] /\ m < Place(o)
  <2>1. \A m \in DOMAIN p.log : m \in Nat
    BY LogIs
  <2>2. Place(o) \in Nat
    BY LogIs
  <2>. QED
    BY <2>1, <2>2, GrowsPlaces
<1>2. \A k \in Marked(p, "begin", e), m \in DOMAIN p.log : m < i => k \in Marked(o, "begin", e) \/ m < k
  <2>. SUFFICES ASSUME NEW k \in Marked(p, "begin", e), NEW m \in DOMAIN p.log, m < i
                PROVE  k \in Marked(o, "begin", e) \/ m < k
    OBVIOUS
  <2>1. k \in DOMAIN p.log
    BY DEF Marked
  <2>2. k \in Nat /\ m \in Nat /\ Place(o) \in Nat
    BY <2>1, LogIs
  <2>3. CASE k < Place(o)
    BY <2>3, GrowsPlaces
  <2>4. CASE ~(k < Place(o))
    BY <2>2, <2>4
  <2>. QED
    BY <2>3, <2>4
<1>. QED
  BY <1>1, <1>2 DEF LatestAt, UnresolvedAt, UntakenAt

\* What is so of an execution at the end of a log is so later, if nothing new is against it.
LEMMA PlacesFollow ==
  ASSUME NEW o \in ObsRecords, NEW p \in ObsRecords, NEW S, NEW N, Grows(o, p, S, N),
         NEW r, NEW e, NEW i \in Nat
  PROVE  /\ LatestAt(o, r, e, Place(o))
            /\ (\A ev \in S : MarkOf(ev.kind) = "begin" /\ TopOf(r, ev.span) => ev.span = e)
              => LatestAt(p, r, e, i)
         /\ UnresolvedAt(o, e, Place(o)) /\ (\A ev \in S : ~(ev.kind = "resolved" /\ ev.span = e))
              => UnresolvedAt(p, e, i)
         /\ UntakenAt(o, r, e, Place(o)) /\ (\A ev \in S : ~(ev.kind = "taken" /\ ev.span = r))
              => UntakenAt(p, r, e, i)
<1>0. Place(o) \in Nat
  BY LogIs
<1>1. \A m \in DOMAIN p.log : \/ m < Place(o) /\ m \in DOMAIN o.log /\ p.log[m] = o.log[m]
                              \/ ~(m < Place(o)) /\ p.log[m] \in S
  BY GrowsPlaces
<1>2. \A k \in Marked(p, "begin", e), m \in DOMAIN p.log : m < Place(o) => k \in Marked(o, "begin", e) \/ m < k
  <2>. SUFFICES ASSUME NEW k \in Marked(p, "begin", e), NEW m \in DOMAIN p.log, m < Place(o)
                PROVE  k \in Marked(o, "begin", e) \/ m < k
    OBVIOUS
  <2>1. k \in DOMAIN p.log
    BY DEF Marked
  <2>2. k \in Nat /\ m \in Nat
    BY <2>1, LogIs
  <2>3. CASE k < Place(o)
    BY <2>3, GrowsPlaces
  <2>4. CASE ~(k < Place(o))
    BY <1>0, <2>2, <2>4
  <2>. QED
    BY <2>3, <2>4
<1>. QED
  BY <1>1, <1>2 DEF LatestAt, UnresolvedAt, UntakenAt

\* Events that keep the order when they are told after o: starts of what nothing was told of,
\* and what is within spans whose end was not told.
FreshStarts(o, S) ==
  \A ev \in S : MarkOf(ev.kind) = "begin" =>
    /\ \A i \in DOMAIN o.log : ~Within(o.log[i].span, ev.span)
    /\ \A ev2 \in S : Within(ev2.span, ev.span) => ev2.span = ev.span /\ MarkOf(ev2.kind) = "begin"
InOpenSpans(o, S) ==
  \A ev \in S :
    /\ \A i \in DOMAIN o.log : MarkOf(o.log[i].kind) = "end" /\ Around(ev.span, o.log[i].span) =>
         o.log[i].to \cap ev.to = {}
    /\ MarkOf(ev.kind) = "end" => \A ev2 \in S : ~Around(ev2.span, ev.span)
\* Starts of top-level executions once those before them have ended.
StepsDone(o, S) ==
  InOneWrapper => \A ev \in S : MarkOf(ev.kind) = "begin" =>
    \A r \in Spans : TopOf(r, ev.span) =>
      /\ \A i \in DOMAIN o.log :
           MarkOf(o.log[i].kind) = "begin" /\ TopOf(r, o.log[i].span) /\ o.log[i].span # ev.span =>
             CoveredBefore(o, "end", o.log[i].span, Place(o))
      /\ \A ev2 \in S : MarkOf(ev2.kind) = "begin" /\ TopOf(r, ev2.span) => ev2.span = ev.span
\* Decisions on the latest execution.
Decided(o, r, e, kind) ==
  /\ TopOf(r, e) /\ CoveredBefore(o, "begin", e, Place(o)) /\ CoveredBefore(o, "end", e, Place(o))
  /\ LatestAt(o, r, e, Place(o)) /\ UnresolvedAt(o, e, Place(o))
  /\ kind = "rejected" => UntakenAt(o, r, e, Place(o))
WellDecided(o, S) ==
  \A ev \in S : Decisive(ev) =>
    /\ \E e \in Spans : Decided(o, ev.span, e, ev.kind)
    /\ \A ev2 \in S : MarkOf(ev2.kind) # "begin" /\ ev2.kind # "resolved" /\ ev2.kind = ev.kind
Follows(o, S, N) ==
  /\ FreshStarts(o, S) /\ InOpenSpans(o, S) /\ StepsDone(o, S) /\ WellDecided(o, S)
  /\ \A ev \in S : ev.to \subseteq Audience(ev.span)
  /\ \A n \in N : TopOf(n[1], n[2])

\* The order stays when such events are told.
LEMMA OrderedGrows ==
  ASSUME NEW o \in ObsRecords, NEW p \in ObsRecords, NEW S, NEW N, Grows(o, p, S, N),
         Ordered(o), Follows(o, S, N)
  PROVE  Ordered(p)
<1>0. Place(o) \in Nat /\ \A m \in DOMAIN p.log : m \in Nat
  BY LogIs
<1>1. \A m \in DOMAIN p.log : \/ m < Place(o) /\ m \in DOMAIN o.log /\ p.log[m] = o.log[m]
                              \/ ~(m < Place(o)) /\ p.log[m] \in S
  BY GrowsPlaces
<1>2. BeginsFirst(p)
  <2>. SUFFICES ASSUME NEW i \in DOMAIN p.log, NEW j \in DOMAIN p.log, i < j,
                       MarkOf(p.log[j].kind) = "begin", Within(p.log[i].span, p.log[j].span)
                PROVE  p.log[i].span = p.log[j].span /\ MarkOf(p.log[i].kind) = "begin"
    BY DEF BeginsFirst
  <2>1. CASE j < Place(o)
    <3>1. i < Place(o)
      BY <1>0, <2>1
    <3>. QED
      BY <1>1, <2>1, <3>1 DEF Ordered, BeginsFirst
  <2>2. CASE ~(j < Place(o))
    <3>1. p.log[j] \in S
      BY <1>1, <2>2
    <3>2. CASE i < Place(o)
      BY <1>1, <3>1, <3>2 DEF Follows, FreshStarts
    <3>3. CASE ~(i < Place(o))
      <4>1. p.log[i] \in S
        BY <1>1, <3>3
      <4>. QED
        BY <3>1, <4>1 DEF Follows, FreshStarts
    <3>. QED
      BY <3>2, <3>3
  <2>. QED
    BY <2>1, <2>2
<1>3. EndsLast(p)
  <2>. SUFFICES ASSUME NEW i \in DOMAIN p.log, NEW j \in DOMAIN p.log, i < j,
                       MarkOf(p.log[i].kind) = "end", Around(p.log[j].span, p.log[i].span)
                PROVE  p.log[i].to \cap p.log[j].to = {}
    BY DEF EndsLast
  <2>1. CASE j < Place(o)
    <3>1. i < Place(o)
      BY <1>0, <2>1
    <3>. QED
      BY <1>1, <2>1, <3>1 DEF Ordered, EndsLast
  <2>2. CASE ~(j < Place(o))
    <3>1. p.log[j] \in S
      BY <1>1, <2>2
    <3>2. CASE i < Place(o)
      BY <1>1, <3>1, <3>2 DEF Follows, InOpenSpans
    <3>3. CASE ~(i < Place(o))
      <4>1. p.log[i] \in S
        BY <1>1, <3>3
      <4>. QED
        BY <3>1, <4>1 DEF Follows, InOpenSpans
    <3>. QED
      BY <3>2, <3>3
  <2>. QED
    BY <2>1, <2>2
<1>4. StepsEnd(p)
  <2>. SUFFICES ASSUME InOneWrapper, NEW i \in DOMAIN p.log, NEW j \in DOMAIN p.log, i < j,
                       MarkOf(p.log[i].kind) = "begin", MarkOf(p.log[j].kind) = "begin",
                       NEW r \in Spans, TopOf(r, p.log[i].span), TopOf(r, p.log[j].span),
                       p.log[i].span # p.log[j].span
                PROVE  CoveredBefore(p, "end", p.log[i].span, j)
    BY DEF StepsEnd
  <2>0. i \in Nat /\ j \in Nat
    BY <1>0
  <2>1. CASE j < Place(o)
    <3>1. i < Place(o)
      BY <1>0, <2>1
    <3>2. CoveredBefore(o, "end", p.log[i].span, j)
      BY <1>1, <2>1, <3>1 DEF Ordered, StepsEnd
    <3>. QED
      BY <2>0, <3>2, CoveredGrows
  <2>2. CASE ~(j < Place(o))
    <3>1. p.log[j] \in S /\ Place(o) <= j
      BY <1>0, <1>1, <2>2
    <3>2. CASE i < Place(o)
      <4>1. i \in DOMAIN o.log /\ p.log[i] = o.log[i]
        BY <1>1, <3>2
      <4>2. CoveredBefore(o, "end", p.log[i].span, Place(o))
        BY <3>1, <4>1 DEF Follows, StepsDone
      <4>. QED
        BY <1>0, <2>0, <3>1, <4>2, CoveredGrows
    <3>3. CASE ~(i < Place(o))
      <4>1. p.log[i] \in S
        BY <1>1, <3>3
      <4>. QED
        BY <3>1, <4>1 DEF Follows, StepsDone
    <3>. QED
      BY <3>2, <3>3
  <2>. QED
    BY <2>1, <2>2
<1>5. DecisionsAfter(p)
  <2>. SUFFICES ASSUME NEW i \in DOMAIN p.log, Decisive(p.log[i])
                PROVE  \E e \in Spans : DecisionOf(p, i, e)
    BY DEF DecisionsAfter
  <2>0. i \in Nat
    BY <1>0
  <2>. DEFINE r == p.log[i].span
  <2>1. CASE i < Place(o)
    <3>1. i \in DOMAIN o.log /\ p.log[i] = o.log[i] /\ i <= Place(o)
      BY <1>0, <1>1, <2>1
    <3>2. PICK e \in Spans : DecisionOf(o, i, e)
      BY <3>1 DEF Ordered, DecisionsAfter
    <3>3. /\ TopOf(r, e) /\ CoveredBefore(o, "begin", e, i) /\ CoveredBefore(o, "end", e, i)
          /\ LatestAt(o, r, e, i) /\ UnresolvedAt(o, e, i)
          /\ p.log[i].kind = "rejected" => UntakenAt(o, r, e, i)
      BY <3>1, <3>2 DEF DecisionOf
    <3>. HIDE DEF r
    <3>4. CoveredBefore(p, "begin", e, i) /\ CoveredBefore(p, "end", e, i)
      BY <2>0, <3>3, CoveredGrows
    <3>5. LatestAt(p, r, e, i) /\ UnresolvedAt(p, e, i)
          /\ (p.log[i].kind = "rejected" => UntakenAt(p, r, e, i))
      BY <2>0, <3>1, <3>3, PlacesStay
    <3>. QED
      BY <3>3, <3>4, <3>5 DEF DecisionOf, r
  <2>2. CASE ~(i < Place(o))
    <3>1. p.log[i] \in S /\ Place(o) <= i
      BY <1>0, <1>1, <2>2
    <3>2. /\ \E e \in Spans : Decided(o, r, e, p.log[i].kind)
          /\ \A ev2 \in S : MarkOf(ev2.kind) # "begin" /\ ev2.kind # "resolved" /\ ev2.kind = p.log[i].kind
      BY <3>1 DEF Follows, WellDecided
    <3>3. PICK e \in Spans : Decided(o, r, e, p.log[i].kind)
      BY <3>2
    <3>. HIDE DEF r
    <3>4. CoveredBefore(p, "begin", e, i) /\ CoveredBefore(p, "end", e, i)
      BY <1>0, <2>0, <3>1, <3>3, CoveredGrows DEF Decided
    <3>5. LatestAt(p, r, e, i) /\ UnresolvedAt(p, e, i)
      BY <2>0, <3>2, <3>3, PlacesFollow DEF Decided
    <3>6. ASSUME p.log[i].kind = "rejected" PROVE UntakenAt(p, r, e, i)
      <4>1. \A ev \in S : ~(ev.kind = "taken" /\ ev.span = r)
        BY <3>2, <3>6
      <4>. QED
        BY <2>0, <3>3, <3>6, <4>1, PlacesFollow DEF Decided
    <3>. QED
      BY <3>3, <3>4, <3>5, <3>6 DEF DecisionOf, Decided, r
  <2>. QED
    BY <2>1, <2>2
<1>6. ToAudience(p)
  BY <1>1 DEF ToAudience, Ordered, Follows
<1>7. PendFits(p)
  <2>. SUFFICES ASSUME NEW q \in p.pending PROVE TopOf(q.run, q.span)
    BY DEF PendFits
  <2>1. <<q.run, q.span>> \in PendsOf(o) \cup N
    BY DEF Grows, PendsOf
  <2>2. CASE <<q.run, q.span>> \in N
    BY <2>2 DEF Follows
  <2>3. CASE <<q.run, q.span>> \in PendsOf(o)
    BY <2>3 DEF PendsOf, Ordered, PendFits
  <2>. QED
    BY <2>1, <2>2, <2>3
<1>. QED
  BY <1>2, <1>3, <1>4, <1>5, <1>6, <1>7 DEF Ordered

-----------------------------------------------------------------------------
(* What telling adds to the log.                                             *)

\* The events that say one thing to some of T.
SayBegin(x, T) == {ev \in Events : MarkOf(ev.kind) = "begin" /\ ev.span = x /\ ev.to \subseteq T}
SayEnd(x, T) == {ev \in Events : MarkOf(ev.kind) = "end" /\ ev.span = x /\ ev.to \subseteq T}
SayResolved(P, r, T) == {ev \in Events : ev.kind = "resolved" /\ <<r, ev.span>> \in P /\ ev.to \subseteq T}
SayDecided(r, kind, T) == {ev \in Events : ev.kind = kind /\ ev.span = r /\ ev.to \subseteq T}
SayStart(o, e, r, T) == SayBegin(e, T) \cup (IF TopLevel(e) THEN SayResolved(PendsOf(o), r, T) ELSE {})
SayFinish(e, r, T) == SayEnd(e, T) \cup (IF TopLevel(e) THEN {} ELSE SayResolved({<<r, e>>}, r, T))
NewPends(e, r) == IF TopLevel(e) THEN {<<r, e>>} ELSE {}

\* A delivery adds its event.
LEMMA DeliverGrows ==
  ASSUME NEW o \in ObsRecords, NEW q \in ObsRecords, q.log = o.log, NEW N, PendsOf(q) \subseteq PendsOf(o) \cup N,
         NEW kind \in EventKinds, NEW span \in Spans, NEW to \in SUBSET Everyone,
         NEW detail, detail.carries \in SUBSET Key, detail.says \in SUBSET Key, detail.decision \in Decisions,
         NEW S, EventIs(kind, span, to, detail) \in S
  PROVE  Grows(o, Deliver(q, kind, span, to, detail), S, N)
<1>. DEFINE ev == EventIs(kind, span, to, detail)
            p == Deliver(q, kind, span, to, detail)
<1>1. ev \in Events
  BY DEF EventIs, Events
<1>2. p = [q EXCEPT !.log = Append(@, ev)]
  BY DEF Deliver, EventIs
<1>. HIDE DEF ev, p
<1>3. p.log = Append(o.log, ev) /\ p.pending = q.pending
  BY <1>2 DEF ObsRecords
<1>4. o.log \in Seq(Events)
  BY DEF ObsRecords
<1>5. /\ Len(p.log) = Len(o.log) + 1 /\ Len(o.log) \in Nat
      /\ \A i \in 1..Len(o.log) : p.log[i] = o.log[i]
      /\ p.log[Len(o.log) + 1] = ev
  BY <1>1, <1>3, <1>4
<1>6. \A i \in (Len(o.log) + 1)..Len(p.log) : i = Len(o.log) + 1
  BY <1>5
<1>7. ev \in S
  BY DEF ev
<1>8. PendsOf(p) = PendsOf(q)
  BY <1>3 DEF PendsOf
<1>. QED
  BY <1>5, <1>6, <1>7, <1>8 DEF Grows, p

\* A resolution is of what was pending.
LEMMA ResolveGrows ==
  ASSUME NEW o \in ObsRecords, NEW l, LaneFits(l)
  PROVE  /\ ResolvePending(o, l) \in ObsRecords
         /\ Grows(o, ResolvePending(o, l), SayResolved(PendsOf(o), l.run, l.lane.to), {})
<1>0. ResolvePending(o, l) \in ObsRecords
  BY ResolvePendingSpeaks DEF Speaks
<1>1. CASE PendingOf(o, l) = {}
  BY <1>0, <1>1, GrowsNothing DEF ResolvePending
<1>2. CASE PendingOf(o, l) # {}
  <2>. DEFINE q == CHOOSE q \in PendingOf(o, l) : TRUE
              rest == [o EXCEPT !.pending = @ \ {q}]
              detail == [Quiet EXCEPT !.decision = q.decision]
              S == SayResolved(PendsOf(o), l.run, l.lane.to)
  <2>1. q \in o.pending /\ q.run = l.run
    BY <1>2 DEF PendingOf
  <2>2. q \in Pendings /\ <<l.run, q.span>> \in PendsOf(o)
    BY <2>1 DEF ObsRecords, PendsOf
  <2>. HIDE DEF q
  <2>3. q.span \in Spans /\ q.decision \in Decisions
    BY <2>2 DEF Pendings
  <2>4. rest \in ObsRecords /\ rest.log = o.log /\ rest.pending = o.pending \ {q}
    BY DEF ObsRecords
  <2>5. ResolvePending(o, l) = Deliver(rest, "resolved", q.span, Resolves(l), detail)
    BY <1>2 DEF ResolvePending, DeliverResolved, q
  <2>. HIDE DEF rest
  <2>6. detail.carries = {} /\ detail.says = {} /\ detail.decision = q.decision
    BY DEF Quiet
  <2>. HIDE DEF detail
  <2>7. Resolves(l) \in SUBSET Everyone /\ Resolves(l) \subseteq l.lane.to /\ "resolved" \in EventKinds
    BY DEF LaneFits, Resolves, EventKinds
  <2>8. EventIs("resolved", q.span, Resolves(l), detail) \in S
    BY <2>2, <2>3, <2>6, <2>7 DEF EventIs, SayResolved, Events
  <2>9. PendsOf(rest) \subseteq PendsOf(o) \cup {}
    BY <2>4 DEF PendsOf
  <2>. HIDE DEF S
  <2>10. detail.carries \in SUBSET Key /\ detail.says \in SUBSET Key /\ detail.decision \in Decisions
    BY <2>3, <2>6
  <2>11. Grows(o, ResolvePending(o, l), S, {})
    BY <2>3, <2>4, <2>5, <2>7, <2>8, <2>9, <2>10, DeliverGrows
  <2>. QED
    BY <1>0, <2>11 DEF S
<1>. QED
  BY <1>1, <1>2

\* The start of a run.
LEMMA RunStartedGrows ==
  ASSUME NEW o \in ObsRecords, NEW l, LaneFits(l), IsRun(l.run)
  PROVE  /\ RunStartedOn(o, l) \in ObsRecords
         /\ Grows(o, RunStartedOn(o, l), SayBegin(l.run, l.lane.to), {})
<1>. DEFINE keys == Inputs[PipelineOf(l.run)]
            q == Remember(o, l, keys)
            detail == Carrying(Shown(l, keys))
            S == SayBegin(l.run, l.lane.to)
<1>0. RunStartedOn(o, l) \in ObsRecords
  BY RunStartedSpeaks DEF Speaks
<1>1. keys \in SUBSET Key
  BY ReadsAssumption DEF PipelineOf
<1>2. RunStartedOn(o, l) = Deliver(q, "runStarted", l.run, l.lane.to, detail)
  BY DEF RunStartedOn
<1>3. detail.carries = keys \ l.lane.hides /\ detail.says = {} /\ detail.decision = NoDecision
  BY DEF Carrying, Quiet, Shown
<1>. HIDE DEF keys, detail
<1>4. q \in ObsRecords /\ q.log = o.log /\ q.pending = o.pending
  BY <1>1, RememberIs DEF LaneFits
<1>5. /\ "runStarted" \in EventKinds /\ MarkOf("runStarted") = "begin" /\ l.run \in Spans
      /\ l.lane.to \in SUBSET Everyone
  BY DEF EventKinds, MarkOf, LaneFits
<1>6. detail.carries \in SUBSET Key /\ detail.says \in SUBSET Key /\ detail.decision \in Decisions
  BY <1>1, <1>3, DecisionsAre
<1>7. EventIs("runStarted", l.run, l.lane.to, detail) \in S
  BY <1>5, <1>6 DEF EventIs, SayBegin, Events
<1>. HIDE DEF q, S
<1>8. PendsOf(q) \subseteq PendsOf(o) \cup {}
  BY <1>4 DEF PendsOf
<1>9. Grows(o, RunStartedOn(o, l), S, {})
  BY <1>2, <1>4, <1>5, <1>6, <1>7, <1>8, DeliverGrows
<1>. QED
  BY <1>0, <1>9 DEF S

\* The start of an execution, which resolves the one before it when it is a top-level one.
LEMMA StartedGrows ==
  ASSUME NEW o \in ObsRecords, NEW l, LaneFits(l), NEW e, ExecutionOn(l, e)
  PROVE  /\ StartedOn(o, l, e) \in ObsRecords
         /\ Grows(o, StartedOn(o, l, e), SayStart(o, e, l.run, l.lane.to), {})
<1>. DEFINE before == IF TopLevel(e) THEN ResolvePending(o, l) ELSE o
            keys == Reads[StepOf(e)]
            q == Remember(before, l, keys)
            detail == Carrying(Shown(l, keys))
            S == SayStart(o, e, l.run, l.lane.to)
<1>0. StartedOn(o, l, e) \in ObsRecords
  BY StartedSpeaks DEF Speaks
<1>1. keys \in SUBSET Key
  BY ReadsAssumption DEF ExecutionOn
<1>2. StartedOn(o, l, e) = Deliver(q, "started", e, l.lane.to, detail)
  BY DEF StartedOn, Starts
<1>3. detail.carries = keys \ l.lane.hides /\ detail.says = {} /\ detail.decision = NoDecision
  BY DEF Carrying, Quiet, Shown
<1>. HIDE DEF keys, detail
<1>4. before \in ObsRecords /\ Grows(o, before, S, {})
  <2>1. CASE TopLevel(e)
    <3>1. SayResolved(PendsOf(o), l.run, l.lane.to) \subseteq S
      BY <2>1 DEF SayStart
    <3>2. /\ ResolvePending(o, l) \in ObsRecords
          /\ Grows(o, ResolvePending(o, l), SayResolved(PendsOf(o), l.run, l.lane.to), {})
      BY ResolveGrows
    <3>. HIDE DEF S
    <3>. QED
      BY <2>1, <3>1, <3>2, GrowsMore
  <2>2. CASE ~TopLevel(e)
    BY <2>2, GrowsNothing
  <2>. QED
    BY <2>1, <2>2
<1>. HIDE DEF before
<1>5. q \in ObsRecords /\ q.log = before.log /\ q.pending = before.pending
  BY <1>1, <1>4, RememberIs DEF LaneFits
<1>6. /\ "started" \in EventKinds /\ MarkOf("started") = "begin" /\ e \in Spans
      /\ l.lane.to \in SUBSET Everyone
  BY DEF EventKinds, MarkOf, LaneFits, ExecutionOn
<1>7. detail.carries \in SUBSET Key /\ detail.says \in SUBSET Key /\ detail.decision \in Decisions
  BY <1>1, <1>3, DecisionsAre
<1>8. EventIs("started", e, l.lane.to, detail) \in S
  BY <1>6, <1>7 DEF EventIs, SayStart, SayBegin, Events
<1>. HIDE DEF q, S
<1>9. PendsOf(q) \subseteq PendsOf(before) \cup {}
  BY <1>5 DEF PendsOf
<1>10. Grows(before, StartedOn(o, l, e), S, {})
  BY <1>2, <1>4, <1>5, <1>6, <1>7, <1>8, <1>9, DeliverGrows
<1>. QED
  BY <1>0, <1>4, <1>10, GrowsTwice DEF S

\* The end of a run, told after the resolution of what is pending.
LEMMA RunFinishedGrows ==
  ASSUME NEW o \in ObsRecords, NEW l, LaneFits(l), IsRun(l.run), NEW text \in SUBSET Key
  PROVE  /\ RunFinishedOn(o, l, text) \in ObsRecords
         /\ Grows(ResolvePending(o, l), RunFinishedOn(o, l, text), SayEnd(l.run, l.lane.to), {})
<1>. DEFINE detail == [Quiet EXCEPT !.says = Scrub(o, l, text)]
            q == ResolvePending(o, l)
            S == SayEnd(l.run, l.lane.to)
<1>0. RunFinishedOn(o, l, text) \in ObsRecords
  BY RunFinishedSpeaks DEF Speaks
<1>1. RunFinishedOn(o, l, text) = Deliver(q, "runFinished", l.run, l.lane.to, detail)
  BY DEF RunFinishedOn
<1>2. detail.carries = {} /\ detail.says = Scrub(o, l, text) /\ detail.decision = NoDecision
  BY DEF Quiet
<1>3. Scrub(o, l, text) \subseteq text
  BY DEF Scrub
<1>. HIDE DEF detail
<1>4. q \in ObsRecords
  BY ResolveGrows
<1>5. /\ "runFinished" \in EventKinds /\ MarkOf("runFinished") = "end" /\ l.run \in Spans
      /\ l.lane.to \in SUBSET Everyone
  BY DEF EventKinds, MarkOf, LaneFits
<1>6. detail.carries \in SUBSET Key /\ detail.says \in SUBSET Key /\ detail.decision \in Decisions
  BY <1>2, <1>3, DecisionsAre
<1>7. EventIs("runFinished", l.run, l.lane.to, detail) \in S
  BY <1>5, <1>6 DEF EventIs, SayEnd, Events
<1>. HIDE DEF q, S
<1>8. Grows(q, RunFinishedOn(o, l, text), S, {})
  BY <1>1, <1>4, <1>5, <1>6, <1>7, DeliverGrows
<1>. QED
  BY <1>0, <1>8 DEF S, q

\* The end of an execution: a nested one is resolved at once, and a top-level one is pending.
LEMMA FinishedGrows ==
  ASSUME NEW o \in ObsRecords, NEW l, LaneFits(l), NEW e, ExecutionOn(l, e),
         NEW succeeded \in BOOLEAN, NEW text \in SUBSET Key
  PROVE  /\ FinishedOn(o, l, e, succeeded, text) \in ObsRecords
         /\ Grows(o, FinishedOn(o, l, e, succeeded, text), SayFinish(e, l.run, l.lane.to), NewPends(e, l.run))
<1>. DEFINE writes == Writes[StepOf(e)]
            q == Remember(o, l, writes)
            keys == Reads[StepOf(e)] \cup (IF succeeded THEN writes ELSE {})
            detail == [Quiet EXCEPT !.carries = Shown(l, keys), !.says = Scrub(q, l, text)]
            told == Finishes(o, l, e, succeeded, text)
            p == FinishedOn(o, l, e, succeeded, text)
            S == SayFinish(e, l.run, l.lane.to)
            N == NewPends(e, l.run)
<1>0. p \in ObsRecords /\ told \in ObsRecords
  BY FinishedSpeaks, FinishesSpeaks DEF Speaks
<1>1. keys \in SUBSET Key /\ writes \in SUBSET Key
  BY ReadsAssumption DEF ExecutionOn
<1>2. told = Deliver(q, "finished", e, l.lane.to, detail)
  BY DEF Finishes
<1>3. /\ detail.carries = keys \ l.lane.hides /\ detail.says = Scrub(q, l, text)
      /\ detail.decision = NoDecision /\ Scrub(q, l, text) \subseteq text
  BY DEF Quiet, Shown, Scrub
<1>. HIDE DEF keys, detail, writes
<1>4. q \in ObsRecords /\ q.log = o.log /\ q.pending = o.pending
  BY <1>1, RememberIs DEF LaneFits
<1>5. /\ "finished" \in EventKinds /\ "resolved" \in EventKinds /\ MarkOf("finished") = "end" /\ e \in Spans
      /\ l.lane.to \in SUBSET Everyone /\ Resolves(l) \in SUBSET Everyone /\ Resolves(l) \subseteq l.lane.to
  BY DEF EventKinds, MarkOf, LaneFits, ExecutionOn, Resolves
<1>6. detail.carries \in SUBSET Key /\ detail.says \in SUBSET Key /\ detail.decision \in Decisions
  BY <1>1, <1>3, DecisionsAre
<1>7. EventIs("finished", e, l.lane.to, detail) \in S
  BY <1>5, <1>6 DEF EventIs, SayFinish, SayEnd, Events
<1>. HIDE DEF q
<1>8. PendsOf(q) \subseteq PendsOf(o) \cup N
  BY <1>4 DEF PendsOf
<1>9. Grows(o, told, S, N)
  <2>. HIDE DEF S, N, told
  <2>. QED
    BY <1>2, <1>4, <1>5, <1>6, <1>7, <1>8, DeliverGrows
<1>10. CASE Resolves(l) = {}
  BY <1>0, <1>9, <1>10 DEF FinishedOn
<1>11. CASE Resolves(l) # {} /\ ~TopLevel(e)
  <2>. DEFINE quiet == [Quiet EXCEPT !.decision = NoDecision]
  <2>1. p = Deliver(told, "resolved", e, Resolves(l), quiet)
    BY <1>11 DEF FinishedOn, DeliverResolved
  <2>2. quiet.carries = {} /\ quiet.says = {} /\ quiet.decision = NoDecision
    BY DEF Quiet
  <2>. HIDE DEF quiet
  <2>3. quiet.carries \in SUBSET Key /\ quiet.says \in SUBSET Key /\ quiet.decision \in Decisions
    BY <2>2, DecisionsAre
  <2>4. EventIs("resolved", e, Resolves(l), quiet) \in S
    BY <1>5, <1>11, <2>3 DEF EventIs, SayFinish, SayResolved, Events
  <2>. HIDE DEF told, p, S, N
  <2>5. Grows(told, p, S, N)
    BY <1>0, <1>5, <2>1, <2>3, <2>4, DeliverGrows
  <2>. QED
    BY <1>0, <1>9, <2>5, GrowsTwice DEF p, S, N
<1>12. CASE Resolves(l) # {} /\ TopLevel(e)
  <2>. DEFINE new == [run |-> l.run, lane |-> l.name, span |-> e, decision |-> NoDecision]
  <2>. HIDE DEF told
  <2>1. p = [told EXCEPT !.pending = (@ \ PendingOf(told, l)) \cup {new}]
    BY <1>12 DEF FinishedOn, told
  <2>. HIDE DEF p
  <2>2. p.log = told.log /\ p.pending = (told.pending \ PendingOf(told, l)) \cup {new}
    BY <1>0, <2>1 DEF ObsRecords
  <2>3. <<new.run, new.span>> \in N
    BY <1>12 DEF NewPends
  <2>4. PendsOf(p) \subseteq PendsOf(told) \cup N
    BY <2>2, <2>3 DEF PendsOf
  <2>. HIDE DEF N, S
  <2>5. Grows(o, p, S, N)
    BY <1>9, <2>2, <2>4 DEF Grows
  <2>. QED
    BY <1>0, <2>5 DEF p, S, N
<1>. QED
  BY <1>10, <1>11, <1>12

\* A decision.
LEMMA DecidedGrows ==
  ASSUME NEW o \in ObsRecords, NEW l, LaneFits(l), NEW kind \in {"rejected", "taken"},
         NEW taken \in {"none", "rewind", "skip", "fail"}
  PROVE  /\ DecidedOn(o, l, kind, taken) \in ObsRecords
         /\ Grows(o, DecidedOn(o, l, kind, taken), SayDecided(l.run, kind, l.lane.to), {})
<1>. DEFINE mine == PendingOf(o, l)
            Note(q) == [q EXCEPT !.decision = Noted(@, kind, taken)]
            noted == {Note(q) : q \in mine}
            rest == (o.pending \ mine) \cup noted
            p == [o EXCEPT !.pending = rest]
            T == l.lane.to \cap TransitionObserver
            detail == [Quiet EXCEPT !.decision = Noted(NoDecision, kind, taken)]
            S == SayDecided(l.run, kind, l.lane.to)
<1>0. DecidedOn(o, l, kind, taken) \in ObsRecords
  BY DecidedSpeaks DEF Speaks
<1>1. DecidedOn(o, l, kind, taken) = Deliver(p, kind, l.run, T, detail)
  BY DEF DecidedOn
<1>2. detail.carries = {} /\ detail.says = {} /\ detail.decision \in Decisions
  BY DecisionsAre DEF Quiet
<1>. HIDE DEF detail
<1>3. o.pending \in SUBSET Pendings /\ mine \subseteq o.pending
  BY DEF ObsRecords, PendingOf
<1>4. ASSUME NEW q \in mine
      PROVE  Note(q) \in Pendings /\ Note(q).span = q.span /\ Note(q).run = q.run
  <2>1. q \in Pendings
    BY <1>3
  <2>2. Noted(q.decision, kind, taken) \in Decisions
    BY <2>1, DecisionsAre DEF Pendings
  <2>. QED
    BY <2>1, <2>2 DEF Pendings
<1>. HIDE DEF mine, Note
<1>5. rest \in SUBSET Pendings
  BY <1>3, <1>4
<1>6. \A q \in rest : \E x \in o.pending : q.run = x.run /\ q.span = x.span
  BY <1>3, <1>4
<1>. HIDE DEF rest
<1>7. p \in ObsRecords /\ p.log = o.log /\ p.pending = rest
  BY <1>5 DEF ObsRecords
<1>. HIDE DEF p
<1>8. PendsOf(p) \subseteq PendsOf(o) \cup {}
  BY <1>6, <1>7 DEF PendsOf
<1>9. kind \in EventKinds /\ l.run \in Spans /\ T \in SUBSET Everyone /\ T \subseteq l.lane.to
  BY DEF EventKinds, LaneFits
<1>10. EventIs(kind, l.run, T, detail) \in S
  BY <1>2, <1>9 DEF EventIs, SayDecided, Events
<1>. HIDE DEF T, S
<1>11. Grows(o, DecidedOn(o, l, kind, taken), S, {})
  BY <1>1, <1>2, <1>7, <1>8, <1>9, <1>10, DeliverGrows
<1>. QED
  BY <1>0, <1>11 DEF S

\* Both lanes of a run add to the log.
LEMMA BothGrow ==
  ASSUME NEW o \in ObsRecords, NEW q, NEW p, NEW r, NEW S, NEW N,
         Live(LanesOf(r).own) => q \in ObsRecords /\ Grows(o, q, S, N),
         ~Live(LanesOf(r).own) => q = o,
         Live(LanesOf(r).recording) => p \in ObsRecords /\ Grows(q, p, S, N),
         ~Live(LanesOf(r).recording) => p = q
  PROVE  p \in ObsRecords /\ Grows(o, p, S, N)
<1>1. q \in ObsRecords /\ Grows(o, q, S, N)
  BY GrowsNothing
<1>2. p \in ObsRecords /\ Grows(q, p, S, N)
  BY <1>1, GrowsNothing
<1>. QED
  BY <1>1, <1>2, GrowsTwice

\* What is said to some of a lane is said to some of the run's watchers.
LEMMA LaneWatches ==
  ASSUME world \in Worlds, NEW r \in Spans, NEW name \in Names, Live(LanesOf(r)[name])
  PROVE  Lane(r, name).lane.to \subseteq Watchers(r) /\ LaneFits(Lane(r, name)) /\ Lane(r, name).run = r
<1>1. To(LanesOf(r).own) \cup To(LanesOf(r).recording) = Watchers(r)
  BY LanesSplit
<1>2. LanesOf(r)[name].to \subseteq Watchers(r)
  BY <1>1 DEF Names, To
<1>. QED
  BY <1>2, LaneIsFit

\* Telling the start of a run says it, to its watchers, and nothing else.
LEMMA TellRunStartedGrows ==
  ASSUME world \in Worlds, NEW o \in ObsRecords, NEW r \in Spans, IsRun(r)
  PROVE  /\ TellRunStarted(o, r) \in ObsRecords
         /\ Grows(o, TellRunStarted(o, r), SayBegin(r, Watchers(r)), {})
<1>. DEFINE S == SayBegin(r, Watchers(r))
            q == IF Live(LanesOf(r).own) THEN RunStartedOn(o, Lane(r, "own")) ELSE o
            p == IF Live(LanesOf(r).recording) THEN RunStartedOn(q, Lane(r, "recording")) ELSE q
<1>1. TellRunStarted(o, r) = p
  BY DEF TellRunStarted, OverLanes, OnLane, Lane
<1>2. ASSUME NEW a \in ObsRecords, NEW name \in Names, Live(LanesOf(r)[name])
      PROVE  RunStartedOn(a, Lane(r, name)) \in ObsRecords /\ Grows(a, RunStartedOn(a, Lane(r, name)), S, {})
  <2>. DEFINE l == Lane(r, name)
  <2>1. LaneFits(l) /\ l.run = r /\ l.lane.to \subseteq Watchers(r)
    BY <1>2, LaneWatches
  <2>. HIDE DEF l
  <2>2. RunStartedOn(a, l) \in ObsRecords /\ Grows(a, RunStartedOn(a, l), SayBegin(r, l.lane.to), {})
    BY <2>1, RunStartedGrows
  <2>3. SayBegin(r, l.lane.to) \subseteq S
    BY <2>1 DEF SayBegin
  <2>. HIDE DEF S
  <2>. QED
    BY <2>2, <2>3, GrowsMore DEF l
<1>. HIDE DEF S
<1>3. Live(LanesOf(r).own) => q \in ObsRecords /\ Grows(o, q, S, {})
  BY <1>2 DEF Names
<1>4. q \in ObsRecords /\ (~Live(LanesOf(r).own) => q = o)
  BY <1>3
<1>. HIDE DEF q
<1>5. Live(LanesOf(r).recording) => p \in ObsRecords /\ Grows(q, p, S, {})
  BY <1>2, <1>4 DEF Names
<1>6. ~Live(LanesOf(r).recording) => p = q
  OBVIOUS
<1>. HIDE DEF p
<1>. QED
  BY <1>1, <1>3, <1>4, <1>5, <1>6, BothGrow DEF S

\* Telling the start of an execution says it and what its start resolves.
LEMMA TellStartedGrows ==
  ASSUME world \in Worlds, NEW o \in ObsRecords, NEW e, IsExecution(e)
  PROVE  /\ TellStarted(o, e) \in ObsRecords
         /\ Grows(o, TellStarted(o, e), SayStart(o, e, RunOf(e), Watchers(RunOf(e))), {})
<1>. DEFINE r == RunOf(e)
            S == SayStart(o, e, r, Watchers(r))
            q == IF Live(LanesOf(r).own) THEN StartedOn(o, Lane(r, "own"), e) ELSE o
            p == IF Live(LanesOf(r).recording) THEN StartedOn(q, Lane(r, "recording"), e) ELSE q
<1>1. TellStarted(o, e) = p
  BY DEF TellStarted, OverLanes, OnLane, Lane
<1>2. ASSUME NEW a \in ObsRecords, PendsOf(a) \subseteq PendsOf(o), NEW name \in Names, Live(LanesOf(r)[name])
      PROVE  StartedOn(a, Lane(r, name), e) \in ObsRecords /\ Grows(a, StartedOn(a, Lane(r, name), e), S, {})
  <2>. DEFINE l == Lane(r, name)
  <2>0. r \in Spans
    BY RunOfIs DEF IsExecution
  <2>1. LaneFits(l) /\ l.run = r /\ l.lane.to \subseteq Watchers(r)
    BY <1>2, <2>0, LaneWatches
  <2>. HIDE DEF l
  <2>2. ExecutionOn(l, e)
    BY <2>1 DEF IsExecution, ExecutionOn
  <2>3. StartedOn(a, l, e) \in ObsRecords /\ Grows(a, StartedOn(a, l, e), SayStart(a, e, r, l.lane.to), {})
    BY <2>1, <2>2, StartedGrows
  <2>4. SayStart(a, e, r, l.lane.to) \subseteq S
    BY <1>2, <2>1 DEF SayStart, SayBegin, SayResolved
  <2>. HIDE DEF S, r
  <2>. QED
    BY <2>3, <2>4, GrowsMore DEF l
<1>. HIDE DEF S, r
<1>3. Live(LanesOf(r).own) => q \in ObsRecords /\ Grows(o, q, S, {})
  BY <1>2 DEF Names
<1>4. q \in ObsRecords /\ (~Live(LanesOf(r).own) => q = o) /\ PendsOf(q) \subseteq PendsOf(o)
  BY <1>3 DEF Grows
<1>. HIDE DEF q
<1>5. Live(LanesOf(r).recording) => p \in ObsRecords /\ Grows(q, p, S, {})
  BY <1>2, <1>4 DEF Names
<1>6. ~Live(LanesOf(r).recording) => p = q
  OBVIOUS
<1>. HIDE DEF p
<1>7. p \in ObsRecords /\ Grows(o, p, S, {})
  BY <1>3, <1>4, <1>5, <1>6, BothGrow
<1>. QED
  BY <1>1, <1>7 DEF S, r

\* Telling the end of an execution says it, and resolves a nested one; a top-level one is pending.
LEMMA TellFinishedGrows ==
  ASSUME world \in Worlds, NEW o \in ObsRecords, NEW e, IsExecution(e),
         NEW succeeded \in BOOLEAN, NEW text \in SUBSET Key
  PROVE  /\ TellFinished(o, e, succeeded, text) \in ObsRecords
         /\ Grows(o, TellFinished(o, e, succeeded, text), SayFinish(e, RunOf(e), Watchers(RunOf(e))),
                  NewPends(e, RunOf(e)))
<1>. DEFINE r == RunOf(e)
            S == SayFinish(e, r, Watchers(r))
            N == NewPends(e, r)
            q == IF Live(LanesOf(r).own) THEN FinishedOn(o, Lane(r, "own"), e, succeeded, text) ELSE o
            p == IF Live(LanesOf(r).recording) THEN FinishedOn(q, Lane(r, "recording"), e, succeeded, text) ELSE q
<1>1. TellFinished(o, e, succeeded, text) = p
  BY DEF TellFinished, OverLanes, OnLane, Lane
<1>2. ASSUME NEW a \in ObsRecords, NEW name \in Names, Live(LanesOf(r)[name])
      PROVE  /\ FinishedOn(a, Lane(r, name), e, succeeded, text) \in ObsRecords
             /\ Grows(a, FinishedOn(a, Lane(r, name), e, succeeded, text), S, N)
  <2>. DEFINE l == Lane(r, name)
  <2>0. r \in Spans
    BY RunOfIs DEF IsExecution
  <2>1. LaneFits(l) /\ l.run = r /\ l.lane.to \subseteq Watchers(r)
    BY <1>2, <2>0, LaneWatches
  <2>. HIDE DEF l
  <2>2. ExecutionOn(l, e)
    BY <2>1 DEF IsExecution, ExecutionOn
  <2>3. /\ FinishedOn(a, l, e, succeeded, text) \in ObsRecords
        /\ Grows(a, FinishedOn(a, l, e, succeeded, text), SayFinish(e, r, l.lane.to), N)
    BY <2>1, <2>2, FinishedGrows
  <2>4. SayFinish(e, r, l.lane.to) \subseteq S
    BY <2>1 DEF SayFinish, SayEnd, SayResolved
  <2>. HIDE DEF S, r, N
  <2>. QED
    BY <2>3, <2>4, GrowsMore DEF l
<1>. HIDE DEF S, r, N
<1>3. Live(LanesOf(r).own) => q \in ObsRecords /\ Grows(o, q, S, N)
  BY <1>2 DEF Names
<1>4. q \in ObsRecords /\ (~Live(LanesOf(r).own) => q = o)
  BY <1>3
<1>. HIDE DEF q
<1>5. Live(LanesOf(r).recording) => p \in ObsRecords /\ Grows(q, p, S, N)
  BY <1>2, <1>4 DEF Names
<1>6. ~Live(LanesOf(r).recording) => p = q
  OBVIOUS
<1>. HIDE DEF p
<1>7. p \in ObsRecords /\ Grows(o, p, S, N)
  BY <1>3, <1>4, <1>5, <1>6, BothGrow
<1>. QED
  BY <1>1, <1>7 DEF S, r, N

\* Telling a decision says it of the run.
LEMMA TellDecisionGrows ==
  ASSUME world \in Worlds, NEW o \in ObsRecords, NEW r \in Spans, NEW kind \in {"rejected", "taken"},
         NEW taken \in {"none", "rewind", "skip", "fail"}
  PROVE  /\ TellDecision(o, r, kind, taken) \in ObsRecords
         /\ Grows(o, TellDecision(o, r, kind, taken), SayDecided(r, kind, Watchers(r)), {})
<1>. DEFINE S == SayDecided(r, kind, Watchers(r))
            q == IF Live(LanesOf(r).own) THEN DecidedOn(o, Lane(r, "own"), kind, taken) ELSE o
            p == IF Live(LanesOf(r).recording) THEN DecidedOn(q, Lane(r, "recording"), kind, taken) ELSE q
<1>1. TellDecision(o, r, kind, taken) = p
  BY DEF TellDecision, OverLanes, OnLane, Lane
<1>2. ASSUME NEW a \in ObsRecords, NEW name \in Names, Live(LanesOf(r)[name])
      PROVE  /\ DecidedOn(a, Lane(r, name), kind, taken) \in ObsRecords
             /\ Grows(a, DecidedOn(a, Lane(r, name), kind, taken), S, {})
  <2>. DEFINE l == Lane(r, name)
  <2>1. LaneFits(l) /\ l.run = r /\ l.lane.to \subseteq Watchers(r)
    BY <1>2, LaneWatches
  <2>. HIDE DEF l
  <2>2. /\ DecidedOn(a, l, kind, taken) \in ObsRecords
        /\ Grows(a, DecidedOn(a, l, kind, taken), SayDecided(r, kind, l.lane.to), {})
    BY <2>1, DecidedGrows
  <2>3. SayDecided(r, kind, l.lane.to) \subseteq S
    BY <2>1 DEF SayDecided
  <2>. HIDE DEF S
  <2>. QED
    BY <2>2, <2>3, GrowsMore DEF l
<1>. HIDE DEF S
<1>3. Live(LanesOf(r).own) => q \in ObsRecords /\ Grows(o, q, S, {})
  BY <1>2 DEF Names
<1>4. q \in ObsRecords /\ (~Live(LanesOf(r).own) => q = o)
  BY <1>3
<1>. HIDE DEF q
<1>5. Live(LanesOf(r).recording) => p \in ObsRecords /\ Grows(q, p, S, {})
  BY <1>2, <1>4 DEF Names
<1>6. ~Live(LanesOf(r).recording) => p = q
  OBVIOUS
<1>. HIDE DEF p
<1>. QED
  BY <1>1, <1>3, <1>4, <1>5, <1>6, BothGrow DEF S

\* Telling a resolution resolves what is pending on the run.
LEMMA TellResolvedGrows ==
  ASSUME world \in Worlds, NEW o \in ObsRecords, NEW r \in Spans
  PROVE  /\ TellResolved(o, r) \in ObsRecords
         /\ Grows(o, TellResolved(o, r), SayResolved(PendsOf(o), r, Watchers(r)), {})
<1>. DEFINE S == SayResolved(PendsOf(o), r, Watchers(r))
            q == IF Live(LanesOf(r).own) THEN ResolvePending(o, Lane(r, "own")) ELSE o
            p == IF Live(LanesOf(r).recording) THEN ResolvePending(q, Lane(r, "recording")) ELSE q
<1>1. TellResolved(o, r) = p
  BY DEF TellResolved, OverLanes, OnLane, Lane
<1>2. ASSUME NEW a \in ObsRecords, PendsOf(a) \subseteq PendsOf(o), NEW name \in Names, Live(LanesOf(r)[name])
      PROVE  ResolvePending(a, Lane(r, name)) \in ObsRecords /\ Grows(a, ResolvePending(a, Lane(r, name)), S, {})
  <2>. DEFINE l == Lane(r, name)
  <2>1. LaneFits(l) /\ l.run = r /\ l.lane.to \subseteq Watchers(r)
    BY <1>2, LaneWatches
  <2>. HIDE DEF l
  <2>2. ResolvePending(a, l) \in ObsRecords /\ Grows(a, ResolvePending(a, l), SayResolved(PendsOf(a), r, l.lane.to), {})
    BY <2>1, ResolveGrows
  <2>3. SayResolved(PendsOf(a), r, l.lane.to) \subseteq S
    BY <1>2, <2>1 DEF SayResolved
  <2>. HIDE DEF S
  <2>. QED
    BY <2>2, <2>3, GrowsMore DEF l
<1>. HIDE DEF S
<1>3. Live(LanesOf(r).own) => q \in ObsRecords /\ Grows(o, q, S, {})
  BY <1>2 DEF Names
<1>4. q \in ObsRecords /\ (~Live(LanesOf(r).own) => q = o) /\ PendsOf(q) \subseteq PendsOf(o)
  BY <1>3 DEF Grows
<1>. HIDE DEF q
<1>5. Live(LanesOf(r).recording) => p \in ObsRecords /\ Grows(q, p, S, {})
  BY <1>2, <1>4 DEF Names
<1>6. ~Live(LanesOf(r).recording) => p = q
  OBVIOUS
<1>. HIDE DEF p
<1>. QED
  BY <1>1, <1>3, <1>4, <1>5, <1>6, BothGrow DEF S

-----------------------------------------------------------------------------
(* Which events keep the order.                                              *)

\* Nobody in T was told the end of anything around x; nothing was told of anything within x.
OpenAround(o, x, T) ==
  \A i \in DOMAIN o.log : MarkOf(o.log[i].kind) = "end" /\ Around(x, o.log[i].span) => o.log[i].to \cap T = {}
Fresh(o, x) == \A y \in Spoken(o) : ~Within(y, x)

\* A top-level execution of a run: what is around it is around the run, or the run.
LEMMA TopIs ==
  ASSUME NEW r, NEW x \in Spans, TopOf(r, x)
  PROVE  /\ r \in Spans /\ RunOf(x) = r /\ TopLevel(x) /\ Audience(x) = Watchers(r)
         /\ \A y \in Spans : Around(x, y) <=> Within(r, y)
         /\ \A y \in Spans : TopOf(r, y) /\ Within(y, x) => y = x
<1>1. ~IsRun(x) /\ Parent(x) = r /\ IsRun(r)
  BY DEF TopOf
<1>2. ASSUME NEW z \in Spans, ~IsRun(z), Parent(z) = r
      PROVE  r \in Spans /\ Last(z) \in Marks /\ z = Append(r, Last(z)) /\ Len(z) = Len(r) + 1 /\ Len(r) \in Nat
  <2>1. z # <<>>
    BY <1>2 DEF IsRun, RootRun
  <2>2. /\ Parent(z) \in Spans /\ Last(z) \in (Step \cup {"run"}) \X Nat
        /\ z = Append(Parent(z), Last(z)) /\ Len(Parent(z)) = Len(z) - 1
    BY <2>1, SpanShape
  <2>3. Len(z) \in Nat /\ Len(Parent(z)) \in Nat
    BY <2>2, LenOfSpan
  <2>4. r \in Spans /\ Last(z) \in Marks /\ z = Append(r, Last(z))
    BY <1>2, <2>2 DEF Marks
  <2>. QED
    BY <1>2, <2>2, <2>3, <2>4
<1>3. r \in Spans /\ Last(x) \in Marks /\ x = Append(r, Last(x)) /\ Len(x) = Len(r) + 1 /\ Len(r) \in Nat
  BY <1>1, <1>2
<1>4. RunOf(x) = r /\ TopLevel(x)
  BY <1>1, <1>3, AtAppend DEF At, TopLevel
<1>5. Audience(x) = Watchers(r)
  BY <1>1, <1>4, AudienceIs DEF At
<1>6. ASSUME NEW y \in Spans PROVE Around(x, y) <=> Within(r, y)
  <2>1. Within(x, y) <=> y = x \/ Within(r, y)
    BY <1>3, WithinAppend DEF Marks
  <2>2. ~Within(r, x)
    BY <1>3, WithinIs
  <2>. QED
    BY <2>1, <2>2 DEF Around
<1>7. ASSUME NEW y \in Spans, TopOf(r, y), Within(y, x) PROVE y = x
  <2>1. Last(y) \in Marks /\ y = Append(r, Last(y))
    BY <1>2, <1>7 DEF TopOf
  <2>2. x = y \/ Within(r, x)
    BY <1>3, <1>7, <2>1, WithinAppend DEF Marks
  <2>3. ~Within(r, x)
    BY <1>3, WithinIs
  <2>. QED
    BY <2>2, <2>3
<1>. QED
  BY <1>3, <1>4, <1>5, <1>6, <1>7

\* What is pending on a run may be resolved while nobody told was told the end of the run.
LEMMA ResolveFollows ==
  ASSUME NEW o \in ObsRecords, Ordered(o), NEW r \in Spans, NEW T, T \subseteq Watchers(r),
         \A i \in DOMAIN o.log : MarkOf(o.log[i].kind) = "end" /\ Within(r, o.log[i].span) => o.log[i].to \cap T = {}
  PROVE  Follows(o, SayResolved(PendsOf(o), r, T), {})
<1>. DEFINE S == SayResolved(PendsOf(o), r, T)
<1>1. ASSUME NEW ev \in S
      PROVE  /\ MarkOf(ev.kind) = "none" /\ ~Decisive(ev) /\ ev.to \subseteq T /\ ev.span \in Spans
             /\ TopOf(r, ev.span)
  <2>1. ev \in Events /\ ev.kind = "resolved" /\ <<r, ev.span>> \in PendsOf(o) /\ ev.to \subseteq T
    BY DEF SayResolved
  <2>2. TopOf(r, ev.span)
    BY <2>1 DEF PendsOf, Ordered, PendFits
  <2>. QED
    BY <2>1, <2>2 DEF MarkOf, Decisive, Events
<1>. HIDE DEF S
<1>2. \A i \in DOMAIN o.log : o.log[i].span \in Spans
  BY LogIs DEF Events
<1>3. InOpenSpans(o, S)
  <2>. SUFFICES ASSUME NEW ev \in S, NEW i \in DOMAIN o.log, MarkOf(o.log[i].kind) = "end", Around(ev.span, o.log[i].span)
                PROVE  o.log[i].to \cap ev.to = {}
    BY <1>1 DEF InOpenSpans
  <2>1. Within(r, o.log[i].span)
    BY <1>1, <1>2, TopIs
  <2>. QED
    BY <1>1, <2>1
<1>4. FreshStarts(o, S) /\ StepsDone(o, S) /\ WellDecided(o, S)
  BY <1>1 DEF FreshStarts, StepsDone, WellDecided
<1>5. \A ev \in S : ev.to \subseteq Audience(ev.span)
  BY <1>1, TopIs
<1>. QED
  BY <1>3, <1>4, <1>5 DEF Follows, S

\* The end of a span may be told to those who were not told the end of anything around it.
LEMMA EndFollows ==
  ASSUME NEW o \in ObsRecords, NEW x \in Spans, NEW T, T \subseteq Audience(x), OpenAround(o, x, T)
  PROVE  Follows(o, SayEnd(x, T), {})
<1>. DEFINE S == SayEnd(x, T)
<1>1. \A ev \in S : MarkOf(ev.kind) = "end" /\ ~Decisive(ev) /\ ev.span = x /\ ev.to \subseteq T
  BY DEF SayEnd, MarkOf, Decisive
<1>. HIDE DEF S
<1>2. InOpenSpans(o, S)
  BY <1>1 DEF InOpenSpans, OpenAround, Around
<1>3. FreshStarts(o, S) /\ StepsDone(o, S) /\ WellDecided(o, S)
  BY <1>1 DEF FreshStarts, StepsDone, WellDecided
<1>. QED
  BY <1>1, <1>2, <1>3 DEF Follows, S

\* The end of an execution: a nested one is resolved at once.
LEMMA FinishFollows ==
  ASSUME NEW o \in ObsRecords, NEW e, IsExecution(e), NEW r, r = RunOf(e), OpenAround(o, e, Watchers(r))
  PROVE  Follows(o, SayFinish(e, r, Watchers(r)), NewPends(e, r))
<1>. DEFINE S == SayFinish(e, r, Watchers(r))
<1>0. e \in Spans /\ ~IsRun(e) /\ Audience(e) = Watchers(r)
  BY AudienceIs DEF IsExecution, At
<1>1. \A ev \in S : /\ MarkOf(ev.kind) # "begin" /\ ~Decisive(ev) /\ ev.span = e /\ ev.to \subseteq Watchers(r)
  <2>1. \A ev \in SayEnd(e, Watchers(r)) :
          MarkOf(ev.kind) = "end" /\ ~Decisive(ev) /\ ev.span = e /\ ev.to \subseteq Watchers(r)
    BY DEF SayEnd, MarkOf, Decisive
  <2>2. \A ev \in SayResolved({<<r, e>>}, r, Watchers(r)) :
          MarkOf(ev.kind) = "none" /\ ~Decisive(ev) /\ ev.span = e /\ ev.to \subseteq Watchers(r)
    BY DEF SayResolved, MarkOf, Decisive
  <2>. QED
    BY <2>1, <2>2 DEF SayFinish
<1>. HIDE DEF S
<1>2. InOpenSpans(o, S)
  BY <1>1 DEF InOpenSpans, OpenAround, Around
<1>3. FreshStarts(o, S) /\ StepsDone(o, S) /\ WellDecided(o, S)
  BY <1>1 DEF FreshStarts, StepsDone, WellDecided
<1>4. \A n \in NewPends(e, r) : TopOf(n[1], n[2])
  <2>1. CASE TopLevel(e)
    <3>1. e # <<>>
      BY <1>0 DEF IsRun, RootRun
    <3>2. Parent(e) \in Spans /\ Last(e) \in Marks /\ e = Append(Parent(e), Last(e))
      BY <1>0, <3>1, SpanShape DEF Marks
    <3>3. RunOf(e) = Parent(e)
      BY <2>1, <3>2, AtAppend DEF At, TopLevel
    <3>. QED
      BY <1>0, <2>1, <3>3 DEF NewPends, TopOf, TopLevel
  <2>2. CASE ~TopLevel(e)
    BY <2>2 DEF NewPends
  <2>. QED
    BY <2>1, <2>2
<1>. QED
  BY <1>0, <1>1, <1>2, <1>3, <1>4 DEF Follows, S

\* The start of a run.
LEMMA RunStartFollows ==
  ASSUME NEW o \in ObsRecords, NEW r \in Spans, IsRun(r), Fresh(o, r), OpenAround(o, r, Watchers(r))
  PROVE  Follows(o, SayBegin(r, Watchers(r)), {})
<1>. DEFINE S == SayBegin(r, Watchers(r))
<1>0. Audience(r) = Watchers(r)
  BY AudienceIs DEF At
<1>1. \A ev \in S : MarkOf(ev.kind) = "begin" /\ ~Decisive(ev) /\ ev.span = r /\ ev.to \subseteq Watchers(r)
  BY DEF SayBegin, MarkOf, Decisive
<1>. HIDE DEF S
<1>2. FreshStarts(o, S)
  BY <1>1 DEF FreshStarts, Fresh, Spoken, EventsOf
<1>3. InOpenSpans(o, S)
  BY <1>1 DEF InOpenSpans, OpenAround
<1>4. StepsDone(o, S)
  BY <1>1 DEF StepsDone, TopOf
<1>5. WellDecided(o, S)
  BY <1>1 DEF WellDecided
<1>. QED
  BY <1>0, <1>1, <1>2, <1>3, <1>4, <1>5 DEF Follows, S

\* Everybody was told the end of the top-level executions of r that started.
StepsTold(o, r) ==
  InOneWrapper => \A i \in DOMAIN o.log :
    MarkOf(o.log[i].kind) = "begin" /\ TopOf(r, o.log[i].span) => CoveredBefore(o, "end", o.log[i].span, Place(o))

\* The start of an execution, once those before it have ended if it is a top-level one.
LEMMA StartFollows ==
  ASSUME NEW o \in ObsRecords, Ordered(o), NEW e, IsExecution(e), NEW r, r = RunOf(e),
         Fresh(o, e), OpenAround(o, e, Watchers(r)), TopLevel(e) => TopOf(r, e) /\ StepsTold(o, r)
  PROVE  Follows(o, SayStart(o, e, r, Watchers(r)), {})
<1>. DEFINE S == SayStart(o, e, r, Watchers(r))
            B == SayBegin(e, Watchers(r))
            R == IF TopLevel(e) THEN SayResolved(PendsOf(o), r, Watchers(r)) ELSE {}
<1>0. e \in Spans /\ ~IsRun(e) /\ Audience(e) = Watchers(r)
  BY AudienceIs DEF IsExecution, At
<1>1. \A ev \in B : MarkOf(ev.kind) = "begin" /\ ~Decisive(ev) /\ ev.span = e /\ ev.to \subseteq Watchers(r)
  BY DEF SayBegin, MarkOf, Decisive
<1>2. ASSUME NEW ev \in R
      PROVE  /\ MarkOf(ev.kind) = "none" /\ ~Decisive(ev) /\ ev.to \subseteq Watchers(r) /\ ev.span \in Spans
             /\ TopOf(r, ev.span) /\ TopOf(r, e) /\ ev.span \in Spoken(o)
  <2>1. /\ ev \in Events /\ ev.kind = "resolved" /\ <<r, ev.span>> \in PendsOf(o) /\ ev.to \subseteq Watchers(r)
        /\ TopLevel(e)
    BY DEF SayResolved
  <2>2. TopOf(r, ev.span) /\ ev.span \in Spoken(o)
    BY <2>1 DEF PendsOf, Ordered, PendFits, Spoken
  <2>. QED
    BY <2>1, <2>2 DEF MarkOf, Decisive, Events
<1>3. S = B \cup R
  BY DEF SayStart
<1>. HIDE DEF S, B, R
<1>4. \A i \in DOMAIN o.log : o.log[i].span \in Spans
  BY LogIs DEF Events
<1>5. FreshStarts(o, S)
  <2>. SUFFICES ASSUME NEW ev \in S, MarkOf(ev.kind) = "begin"
                PROVE  /\ \A i \in DOMAIN o.log : ~Within(o.log[i].span, ev.span)
                       /\ \A ev2 \in S : Within(ev2.span, ev.span) => ev2.span = ev.span /\ MarkOf(ev2.kind) = "begin"
    BY DEF FreshStarts
  <2>1. ev \in B /\ ev.span = e
    BY <1>1, <1>2, <1>3
  <2>. QED
    BY <1>1, <1>2, <1>3, <2>1 DEF Fresh, Spoken, EventsOf
<1>6. InOpenSpans(o, S)
  <2>. SUFFICES ASSUME NEW ev \in S, NEW i \in DOMAIN o.log, MarkOf(o.log[i].kind) = "end", Around(ev.span, o.log[i].span)
                PROVE  o.log[i].to \cap ev.to = {}
    BY <1>1, <1>2, <1>3 DEF InOpenSpans
  <2>1. Around(e, o.log[i].span)
    <3>1. CASE ev \in R
      BY <1>0, <1>2, <1>4, <3>1, TopIs
    <3>2. CASE ev \in B
      BY <1>1, <3>2
    <3>. QED
      BY <1>3, <3>1, <3>2
  <2>2. ev.to \subseteq Watchers(r)
    BY <1>1, <1>2, <1>3
  <2>. QED
    BY <2>1, <2>2 DEF OpenAround
<1>7. StepsDone(o, S)
  <2>. SUFFICES ASSUME InOneWrapper, NEW ev \in S, MarkOf(ev.kind) = "begin", NEW s \in Spans, TopOf(s, ev.span)
                PROVE  /\ \A i \in DOMAIN o.log :
                            MarkOf(o.log[i].kind) = "begin" /\ TopOf(s, o.log[i].span) /\ o.log[i].span # ev.span =>
                              CoveredBefore(o, "end", o.log[i].span, Place(o))
                       /\ \A ev2 \in S : MarkOf(ev2.kind) = "begin" /\ TopOf(s, ev2.span) => ev2.span = ev.span
    BY DEF StepsDone
  <2>1. ev.span = e
    BY <1>1, <1>2, <1>3
  <2>2. TopLevel(e) /\ s = r
    <3>1. TopLevel(e)
      BY <2>1 DEF TopOf, TopLevel
    <3>. QED
      BY <2>1, <3>1 DEF TopOf
  <2>. QED
    BY <1>1, <1>2, <1>3, <2>1, <2>2 DEF StepsTold
<1>8. WellDecided(o, S)
  BY <1>1, <1>2, <1>3 DEF WellDecided
<1>9. \A ev \in S : ev.to \subseteq Audience(ev.span)
  BY <1>0, <1>1, <1>2, <1>3, TopIs
<1>. QED
  BY <1>5, <1>6, <1>7, <1>8, <1>9 DEF Follows, S

\* A decision on an execution of the run.
LEMMA DecideFollows ==
  ASSUME NEW o \in ObsRecords, NEW r \in Spans, IsRun(r), NEW kind \in {"rejected", "taken"},
         OpenAround(o, r, Watchers(r)), NEW e \in Spans, Decided(o, r, e, kind)
  PROVE  Follows(o, SayDecided(r, kind, Watchers(r)), {})
<1>. DEFINE S == SayDecided(r, kind, Watchers(r))
<1>0. Audience(r) = Watchers(r)
  BY AudienceIs DEF At
<1>1. \A ev \in S : MarkOf(ev.kind) = "none" /\ ev.kind = kind /\ ev.kind # "resolved" /\ ev.span = r /\ ev.to \subseteq Watchers(r)
  BY DEF SayDecided, MarkOf
<1>. HIDE DEF S
<1>2. InOpenSpans(o, S) /\ FreshStarts(o, S) /\ StepsDone(o, S)
  BY <1>1 DEF InOpenSpans, OpenAround, FreshStarts, StepsDone
<1>3. WellDecided(o, S)
  BY <1>1 DEF WellDecided
<1>. QED
  BY <1>0, <1>1, <1>2, <1>3 DEF Follows, S

-----------------------------------------------------------------------------
(* What telling does to the order.                                           *)

\* Events that say nothing of the visits of run r.
Aside(S, r) ==
  \A ev \in S : /\ MarkOf(ev.kind) = "begin" \/ ev.kind = "resolved" => ~TopOf(r, ev.span)
                /\ ~(ev.kind = "taken" /\ ev.span = r)
\* From o to p, run r stands where it stood, and what was open is open.
KeepsOrderOf(o, p, r) == \A f : RunOrder(o, r, f) => RunOrder(p, r, f)
KeepsOpen(o, p) == \A x, T : OpenAround(o, x, T) => OpenAround(p, x, T)

\* Such events leave the run where it stands.
LEMMA AsideKeeps ==
  ASSUME NEW o \in ObsRecords, NEW p \in ObsRecords, NEW S, NEW N, Grows(o, p, S, N), NEW r, Aside(S, r)
  PROVE  KeepsOrderOf(o, p, r)
<1>. SUFFICES ASSUME NEW f, RunOrder(o, r, f), f.phase \in InVisit
              PROVE  /\ TopOf(r, f.last) /\ LatestAt(p, r, f.last, Place(p)) /\ UnresolvedAt(p, f.last, Place(p))
                     /\ f.phase # "decided" \/ Head(f.todo) = "rejected" => UntakenAt(p, r, f.last, Place(p))
  BY DEF RunOrder, KeepsOrderOf
<1>1. /\ TopOf(r, f.last) /\ LatestAt(o, r, f.last, Place(o)) /\ UnresolvedAt(o, f.last, Place(o))
      /\ f.phase # "decided" \/ Head(f.todo) = "rejected" => UntakenAt(o, r, f.last, Place(o))
  BY DEF RunOrder
<1>2. Place(p) \in Nat
  BY LogIs
<1>3. /\ \A ev \in S : MarkOf(ev.kind) = "begin" /\ TopOf(r, ev.span) => ev.span = f.last
      /\ \A ev \in S : ~(ev.kind = "resolved" /\ ev.span = f.last)
      /\ \A ev \in S : ~(ev.kind = "taken" /\ ev.span = r)
  BY <1>1 DEF Aside
<1>. QED
  BY <1>1, <1>2, <1>3, PlacesFollow

\* Nothing that ends is told.
LEMMA OpenKeeps ==
  ASSUME NEW o \in ObsRecords, NEW p \in ObsRecords, NEW S, NEW N, Grows(o, p, S, N),
         \A ev \in S : MarkOf(ev.kind) # "end"
  PROVE  KeepsOpen(o, p)
<1>1. \A m \in DOMAIN p.log : \/ m < Place(o) /\ m \in DOMAIN o.log /\ p.log[m] = o.log[m]
                              \/ ~(m < Place(o)) /\ p.log[m] \in S
  BY GrowsPlaces
<1>. QED
  BY <1>1 DEF OpenAround, KeepsOpen

\* The start of an execution.
LEMMA TellStartedOrdered ==
  ASSUME world \in Worlds, NEW o \in ObsRecords, Ordered(o), NEW e, IsExecution(e), NEW r, r = RunOf(e),
         Fresh(o, e), OpenAround(o, e, Watchers(r)), TopLevel(e) => TopOf(r, e) /\ StepsTold(o, r),
         NEW p, p = TellStarted(o, e)
  PROVE  /\ p \in ObsRecords /\ Ordered(p) /\ KeepsOpen(o, p)
         /\ \A s : s # r \/ ~TopLevel(e) => KeepsOrderOf(o, p, s)
         /\ TopLevel(e) => \A f : f.last = e => RunOrder(p, r, f)
<1>. DEFINE S == SayStart(o, e, r, Watchers(r))
<1>1. p \in ObsRecords /\ Grows(o, p, S, {})
  BY TellStartedGrows
<1>2. Follows(o, S, {})
  BY StartFollows
<1>3. ASSUME NEW ev \in S
      PROVE  /\ MarkOf(ev.kind) # "end" /\ ev.kind # "taken"
             /\ MarkOf(ev.kind) = "begin" => ev.span = e
             /\ ev.kind = "resolved" => TopLevel(e) /\ TopOf(r, ev.span) /\ ev.span \in Spoken(o)
  <2>1. CASE ev \in SayBegin(e, Watchers(r))
    BY <2>1 DEF SayBegin, MarkOf
  <2>2. CASE TopLevel(e) /\ ev \in SayResolved(PendsOf(o), r, Watchers(r))
    <3>1. TopOf(r, ev.span) /\ ev.span \in Spoken(o) /\ ev.kind = "resolved"
      BY <2>2 DEF SayResolved, PendsOf, Ordered, PendFits, Spoken
    <3>. QED
      BY <2>2, <3>1 DEF MarkOf
  <2>. QED
    BY <2>1, <2>2 DEF SayStart
<1>. HIDE DEF S
<1>4. Ordered(p)
  BY <1>1, <1>2, OrderedGrows
<1>5. KeepsOpen(o, p)
  BY <1>1, <1>3, OpenKeeps
<1>6. ASSUME NEW s, s # r \/ ~TopLevel(e) PROVE KeepsOrderOf(o, p, s)
  <2>1. TopOf(s, e) => TopLevel(e) /\ s = r
    BY DEF TopOf, TopLevel
  <2>2. Aside(S, s)
    BY <1>3, <1>6, <2>1 DEF Aside, TopOf
  <2>. QED
    BY <1>1, <2>2, AsideKeeps
<1>7. ASSUME TopLevel(e), NEW f, f.last = e PROVE RunOrder(p, r, f)
  <2>1. e \in Spans /\ Place(p) \in Nat
    BY <1>1, LogIs DEF IsExecution
  <2>2. e \notin Spoken(o)
    BY <2>1, WithinSelf DEF Fresh
  <2>3. Marked(o, "begin", e) = {} /\ UnresolvedAt(o, e, Place(o))
    BY <2>2 DEF Spoken, EventsOf, Marked, UnresolvedAt
  <2>4. LatestAt(o, r, e, Place(o)) /\ UntakenAt(o, r, e, Place(o))
    BY <2>3 DEF LatestAt, UntakenAt
  <2>5. /\ \A ev \in S : MarkOf(ev.kind) = "begin" /\ TopOf(r, ev.span) => ev.span = e
        /\ \A ev \in S : ~(ev.kind = "resolved" /\ ev.span = e)
        /\ \A ev \in S : ~(ev.kind = "taken" /\ ev.span = r)
    BY <1>3, <2>2
  <2>6. LatestAt(p, r, e, Place(p)) /\ UnresolvedAt(p, e, Place(p)) /\ UntakenAt(p, r, e, Place(p))
    BY <1>1, <2>1, <2>3, <2>4, <2>5, PlacesFollow
  <2>. QED
    BY <1>7, <2>6 DEF RunOrder
<1>. QED
  BY <1>1, <1>4, <1>5, <1>6, <1>7

\* The end of an execution.
LEMMA TellFinishedOrdered ==
  ASSUME world \in Worlds, NEW o \in ObsRecords, Ordered(o), NEW e, IsExecution(e),
         OpenAround(o, e, Watchers(RunOf(e))), NEW succeeded \in BOOLEAN, NEW text \in SUBSET Key,
         NEW p, p = TellFinished(o, e, succeeded, text)
  PROVE  p \in ObsRecords /\ Ordered(p) /\ \A s : KeepsOrderOf(o, p, s)
<1>. DEFINE r == RunOf(e)
            S == SayFinish(e, r, Watchers(r))
            N == NewPends(e, r)
<1>1. p \in ObsRecords /\ Grows(o, p, S, N)
  BY TellFinishedGrows
<1>2. Follows(o, S, N)
  BY FinishFollows
<1>3. \A ev \in S : /\ MarkOf(ev.kind) # "begin" /\ ev.kind # "taken"
                    /\ ev.kind = "resolved" => ~TopLevel(e) /\ ev.span = e
  BY DEF SayFinish, SayEnd, SayResolved, MarkOf
<1>. HIDE DEF S, N, r
<1>4. Ordered(p)
  BY <1>1, <1>2, OrderedGrows
<1>5. ASSUME NEW s PROVE KeepsOrderOf(o, p, s)
  <2>1. TopOf(s, e) => TopLevel(e)
    BY DEF TopOf, TopLevel
  <2>2. Aside(S, s)
    BY <1>3, <2>1 DEF Aside
  <2>. QED
    BY <1>1, <2>2, AsideKeeps
<1>. QED
  BY <1>1, <1>4, <1>5

\* The start of a run.
LEMMA TellRunStartedOrdered ==
  ASSUME world \in Worlds, NEW o \in ObsRecords, Ordered(o), NEW r \in Spans, IsRun(r),
         Fresh(o, r), OpenAround(o, r, Watchers(r)), NEW p, p = TellRunStarted(o, r)
  PROVE  Ordered(p) /\ \A s : KeepsOrderOf(o, p, s)
<1>. DEFINE S == SayBegin(r, Watchers(r))
<1>1. p \in ObsRecords /\ Grows(o, p, S, {})
  BY TellRunStartedGrows
<1>2. Follows(o, S, {})
  BY RunStartFollows
<1>3. \A s : Aside(S, s)
  BY DEF SayBegin, Aside, TopOf, MarkOf
<1>. HIDE DEF S
<1>. QED
  BY <1>1, <1>2, <1>3, OrderedGrows, AsideKeeps

\* A decision on the latest execution of a run.
LEMMA TellDecisionOrdered ==
  ASSUME world \in Worlds, NEW o \in ObsRecords, Ordered(o), NEW r \in Spans, IsRun(r),
         NEW kind \in {"rejected", "taken"}, NEW taken \in {"none", "rewind", "skip", "fail"},
         OpenAround(o, r, Watchers(r)), NEW e \in Spans, Decided(o, r, e, kind),
         NEW p, p = TellDecision(o, r, kind, taken)
  PROVE  /\ Ordered(p) /\ \A s : s # r => KeepsOrderOf(o, p, s)
         /\ \A f : /\ f.last = e /\ f.phase = "decided"
                   /\ Head(f.todo) = "rejected" => kind = "rejected" /\ UntakenAt(o, r, e, Place(o))
                   => RunOrder(p, r, f)
<1>. DEFINE S == SayDecided(r, kind, Watchers(r))
<1>1. p \in ObsRecords /\ Grows(o, p, S, {})
  BY TellDecisionGrows
<1>2. Follows(o, S, {})
  BY DecideFollows
<1>3. \A ev \in S : ev.kind = kind /\ ev.span = r /\ MarkOf(ev.kind) # "begin" /\ ev.kind # "resolved"
  BY DEF SayDecided, MarkOf
<1>. HIDE DEF S
<1>4. Ordered(p)
  BY <1>1, <1>2, OrderedGrows
<1>5. \A s : s # r => Aside(S, s)
  BY <1>3 DEF Aside
<1>6. ASSUME NEW f, f.last = e, f.phase = "decided",
             Head(f.todo) = "rejected" => kind = "rejected" /\ UntakenAt(o, r, e, Place(o))
      PROVE  RunOrder(p, r, f)
  <2>1. TopOf(r, e) /\ LatestAt(o, r, e, Place(o)) /\ UnresolvedAt(o, e, Place(o)) /\ Place(p) \in Nat
    BY <1>1, LogIs DEF Decided
  <2>2. /\ \A ev \in S : MarkOf(ev.kind) = "begin" /\ TopOf(r, ev.span) => ev.span = e
        /\ \A ev \in S : ~(ev.kind = "resolved" /\ ev.span = e)
    BY <1>3
  <2>3. LatestAt(p, r, e, Place(p)) /\ UnresolvedAt(p, e, Place(p))
    BY <1>1, <2>1, <2>2, PlacesFollow
  <2>4. ASSUME Head(f.todo) = "rejected" PROVE UntakenAt(p, r, e, Place(p))
    <3>1. \A ev \in S : ~(ev.kind = "taken" /\ ev.span = r)
      BY <1>3, <1>6, <2>4
    <3>. QED
      BY <1>1, <1>6, <2>1, <2>4, <3>1, PlacesFollow
  <2>. QED
    BY <1>6, <2>1, <2>3, <2>4 DEF RunOrder
<1>. QED
  BY <1>1, <1>4, <1>5, <1>6, AsideKeeps

\* The resolution of what is pending on a run.
LEMMA TellResolvedOrdered ==
  ASSUME world \in Worlds, NEW o \in ObsRecords, Ordered(o), NEW r \in Spans,
         \A i \in DOMAIN o.log : MarkOf(o.log[i].kind) = "end" => ~Within(r, o.log[i].span),
         NEW p, p = TellResolved(o, r)
  PROVE  Ordered(p) /\ \A s : s # r => KeepsOrderOf(o, p, s)
<1>. DEFINE S == SayResolved(PendsOf(o), r, Watchers(r))
<1>1. p \in ObsRecords /\ Grows(o, p, S, {})
  BY TellResolvedGrows
<1>2. Follows(o, S, {})
  BY ResolveFollows
<1>3. \A ev \in S : ev.kind = "resolved" /\ TopOf(r, ev.span)
  BY DEF SayResolved, PendsOf, Ordered, PendFits
<1>. HIDE DEF S
<1>4. \A s : s # r => Aside(S, s)
  BY <1>3 DEF Aside, TopOf, MarkOf
<1>. QED
  BY <1>1, <1>2, <1>4, OrderedGrows, AsideKeeps

\* Nobody in T was told the end of r or of what is around it.
OpenTo(o, r, T) ==
  \A i \in DOMAIN o.log : MarkOf(o.log[i].kind) = "end" /\ Within(r, o.log[i].span) => o.log[i].to \cap T = {}

\* On a lane whose observers wait for it, what is pending on a run is resolved and then its end told.
LEMMA RunFinishedOrdered ==
  ASSUME world \in Worlds, NEW o \in ObsRecords, Ordered(o), NEW r \in Spans, IsRun(r), NEW text \in SUBSET Key,
         NEW name \in Names, Live(LanesOf(r)[name]), NEW T, T = LanesOf(r)[name].to, OpenTo(o, r, T),
         NEW p, p = RunFinishedOn(o, Lane(r, name), text)
  PROVE  /\ p \in ObsRecords /\ Ordered(p) /\ \A s : s # r => KeepsOrderOf(o, p, s)
         /\ \A U : OpenTo(o, r, U) /\ U \cap T = {} => OpenTo(p, r, U)
<1>. DEFINE l == Lane(r, name)
            q == ResolvePending(o, l)
            S == SayResolved(PendsOf(o), r, T)
            E == SayEnd(r, T)
<1>1. LaneFits(l) /\ l.run = r /\ l.lane.to = T /\ T \subseteq Watchers(r)
  BY LaneWatches, LaneIsFit
<1>. HIDE DEF l
<1>2. q \in ObsRecords /\ Grows(o, q, S, {})
  BY <1>1, ResolveGrows
<1>3. p \in ObsRecords /\ Grows(q, p, E, {})
  BY <1>1, RunFinishedGrows DEF l
<1>. HIDE DEF q
<1>4. Follows(o, S, {})
  BY <1>1, ResolveFollows DEF OpenTo
<1>5. \A ev \in S : ev.kind = "resolved" /\ MarkOf(ev.kind) = "none" /\ TopOf(r, ev.span)
  BY DEF SayResolved, PendsOf, Ordered, PendFits, MarkOf
<1>6. \A ev \in E : MarkOf(ev.kind) = "end" /\ ev.span = r /\ ev.to \subseteq T /\ ev.kind # "resolved" /\ ev.kind # "taken"
  BY DEF SayEnd, MarkOf
<1>. HIDE DEF S
<1>7. Ordered(q)
  BY <1>2, <1>4, OrderedGrows
<1>8. \A m \in DOMAIN q.log : \/ m \in DOMAIN o.log /\ q.log[m] = o.log[m]
                              \/ q.log[m] \in S
  BY <1>2, GrowsPlaces
<1>9. \A U : OpenTo(o, r, U) => OpenTo(q, r, U)
  BY <1>5, <1>8 DEF OpenTo
<1>10. Audience(r) = Watchers(r)
  BY AudienceIs DEF At
<1>11. OpenAround(q, r, T)
  BY <1>9 DEF OpenTo, OpenAround, Around
<1>12. Follows(q, E, {})
  BY <1>1, <1>2, <1>10, <1>11, EndFollows
<1>. HIDE DEF E
<1>13. Ordered(p)
  BY <1>2, <1>3, <1>7, <1>12, OrderedGrows
<1>14. ASSUME NEW s, s # r PROVE KeepsOrderOf(o, p, s)
  <2>1. Aside(S, s) /\ Aside(E, s)
    BY <1>5, <1>6, <1>14 DEF Aside, TopOf
  <2>2. KeepsOrderOf(o, q, s)
    BY <1>2, <2>1, AsideKeeps
  <2>3. KeepsOrderOf(q, p, s)
    BY <1>2, <1>3, <2>1, AsideKeeps
  <2>. QED
    BY <2>2, <2>3 DEF KeepsOrderOf
<1>15. \A m \in DOMAIN p.log : \/ m \in DOMAIN q.log /\ p.log[m] = q.log[m]
                               \/ p.log[m] \in E
  BY <1>2, <1>3, GrowsPlaces
<1>16. \A U : OpenTo(o, r, U) /\ U \cap T = {} => OpenTo(p, r, U)
  <2>. SUFFICES ASSUME NEW U, OpenTo(q, r, U), U \cap T = {}, NEW m \in DOMAIN p.log,
                       MarkOf(p.log[m].kind) = "end", Within(r, p.log[m].span)
                PROVE  p.log[m].to \cap U = {}
    BY <1>9 DEF OpenTo
  <2>1. CASE m \in DOMAIN q.log /\ p.log[m] = q.log[m]
    BY <2>1 DEF OpenTo
  <2>2. CASE p.log[m] \in E
    BY <1>6, <2>2
  <2>. QED
    BY <1>15, <2>1, <2>2
<1>. QED
  BY <1>3, <1>13, <1>14, <1>16

\* The end of a run.
LEMMA TellRunFinishedOrdered ==
  ASSUME world \in Worlds, NEW o \in ObsRecords, Ordered(o), NEW r \in Spans, IsRun(r), NEW text \in SUBSET Key,
         \A i \in DOMAIN o.log : MarkOf(o.log[i].kind) = "end" => ~Within(r, o.log[i].span),
         NEW p, p = TellRunFinished(o, r, text)
  PROVE  Ordered(p) /\ \A s : s # r => KeepsOrderOf(o, p, s)
<1>. DEFINE own == LanesOf(r).own
            recording == LanesOf(r).recording
            q == IF Live(own) THEN RunFinishedOn(o, Lane(r, "own"), text) ELSE o
<1>1. p = IF Live(recording) THEN RunFinishedOn(q, Lane(r, "recording"), text) ELSE q
  BY DEF TellRunFinished, OverLanes, OnLane, Lane
<1>2. \A U : OpenTo(o, r, U)
  BY DEF OpenTo
<1>3. "own" \in Names /\ "recording" \in Names
  BY DEF Names
<1>4. /\ q \in ObsRecords /\ Ordered(q) /\ \A s : s # r => KeepsOrderOf(o, q, s)
      /\ \A U : U \cap To(own) = {} => OpenTo(q, r, U)
  <2>1. CASE Live(own)
    <3>. DEFINE n == "own"
                T == LanesOf(r)[n].to
    <3>1. Live(LanesOf(r)[n]) /\ To(own) = T /\ q = RunFinishedOn(o, Lane(r, n), text) /\ n \in Names
      BY <1>3, <2>1 DEF To
    <3>. HIDE DEF own, q, n
    <3>2. T = LanesOf(r)[n].to
      OBVIOUS
    <3>. HIDE DEF T
    <3>3. OpenTo(o, r, T)
      BY <1>2
    <3>4. q \in ObsRecords /\ Ordered(q) /\ \A s : s # r => KeepsOrderOf(o, q, s)
      BY <3>1, <3>2, <3>3, RunFinishedOrdered
    <3>5. \A U : OpenTo(o, r, U) /\ U \cap T = {} => OpenTo(q, r, U)
      BY <3>1, <3>2, <3>3, RunFinishedOrdered
    <3>. QED
      BY <1>2, <3>1, <3>4, <3>5
  <2>2. CASE ~Live(own)
    BY <1>2, <2>2 DEF KeepsOrderOf
  <2>. QED
    BY <2>1, <2>2
<1>. HIDE DEF q
<1>5. CASE Live(recording)
  <2>1. recording.to \cap To(own) = {}
    BY <1>5, LanesSplit DEF To
  <2>2. OpenTo(q, r, recording.to)
    BY <1>4, <2>1
  <2>3. Ordered(p) /\ \A s : s # r => KeepsOrderOf(q, p, s)
    BY <1>1, <1>3, <1>4, <1>5, <2>2, RunFinishedOrdered
  <2>. QED
    BY <1>4, <2>3 DEF KeepsOrderOf
<1>6. CASE ~Live(recording)
  BY <1>1, <1>4, <1>6
<1>. QED
  BY <1>5, <1>6

-----------------------------------------------------------------------------
(* What the invariant says of the log.                                       *)

\* What was spoken of has started, and what was told to have ended runs no more.
LEMMA SpokenStarted ==
  ASSUME ObservationInv
  PROVE  /\ obs \in ObsRecords /\ world \in Worlds /\ StructureInv /\ TypeInv /\ SpansFit
         /\ Spoken(obs) \subseteq DOMAIN status
         /\ \A i \in DOMAIN obs.log :
              /\ obs.log[i].span \in DOMAIN status /\ obs.log[i].span \in Spans
              /\ MarkOf(obs.log[i].kind) = "end" => status[obs.log[i].span] # "running"
<1>1. /\ obs \in ObsRecords /\ world \in Worlds /\ StructureInv /\ TypeInv /\ SpansFit
  BY InvIs
<1>2. LogInv /\ OverInv
  BY DEF ObservationInv, ToldInv
<1>3. DOMAIN status \subseteq Spans
  BY <1>1 DEF TypeInv
<1>4. Spoken(obs) \subseteq DOMAIN status
  BY <1>2 DEF LogInv, Spoken, EventsOf
<1>5. ASSUME NEW i \in DOMAIN obs.log
      PROVE  /\ obs.log[i].span \in DOMAIN status /\ obs.log[i].span \in Spans
             /\ MarkOf(obs.log[i].kind) = "end" => status[obs.log[i].span] # "running"
  BY <1>2, <1>3 DEF LogInv, OverInv, MarkOf
<1>. QED
  BY <1>1, <1>4, <1>5

\* Nobody was told the end of what is around a running span, or of that span.
LEMMA OpenAbove ==
  ASSUME ObservationInv, NEW x \in DOMAIN status, status[x] = "running"
  PROVE  /\ \A i \in DOMAIN obs.log : MarkOf(obs.log[i].kind) = "end" => ~Within(x, obs.log[i].span)
         /\ \A T : OpenAround(obs, x, T)
         /\ \A a \in Marks : \A T : x \in Spans /\ OpenAround(obs, Append(x, a), T)
<1>1. \A i \in DOMAIN obs.log :
         /\ obs.log[i].span \in DOMAIN status /\ obs.log[i].span \in Spans
         /\ MarkOf(obs.log[i].kind) = "end" => status[obs.log[i].span] # "running"
  BY SpokenStarted
<1>2. \A i \in DOMAIN obs.log : MarkOf(obs.log[i].kind) = "end" => ~Within(x, obs.log[i].span)
  <2>1. SpansFit
    BY SpokenStarted
  <2>. QED
    BY <1>1, <2>1 DEF SpansFit
<1>3. \A T : OpenAround(obs, x, T)
  BY <1>2 DEF OpenAround, Around
<1>4. x \in Spans
  <2>1. TypeInv
    BY SpokenStarted
  <2>. QED
    BY <2>1 DEF TypeInv
<1>5. ASSUME NEW a \in Marks, NEW T PROVE OpenAround(obs, Append(x, a), T)
  <2>1. \A y \in Spans : Around(Append(x, a), y) => Within(x, y)
    BY <1>4, WithinAppend DEF Around, Marks
  <2>. QED
    BY <1>1, <1>2, <2>1 DEF OpenAround
<1>. QED
  BY <1>2, <1>3, <1>4, <1>5

\* Nothing was told within what starts, and no end around it.
LEMMA StartingIs ==
  ASSUME ObservationInv, NEW x \in Spans, Starting(x)
  PROVE  Fresh(obs, x) /\ \A T : OpenAround(obs, x, T)
<1>1. TypeInv /\ SpansFit
  BY SpokenStarted
<1>2. \A y \in DOMAIN status : ~Within(y, x) /\ (Within(x, y) => status[y] = "running")
  BY <1>1, AroundStarting
<1>3. Fresh(obs, x)
  BY <1>2, SpokenStarted DEF Fresh
<1>4. \A i \in DOMAIN obs.log :
         /\ obs.log[i].span \in DOMAIN status
         /\ MarkOf(obs.log[i].kind) = "end" => status[obs.log[i].span] # "running"
  BY SpokenStarted
<1>5. \A T : OpenAround(obs, x, T)
  BY <1>2, <1>4 DEF OpenAround, Around
<1>. QED
  BY <1>3, <1>5

\* What everybody was told, before the next event.
LEMMA ToldCovers ==
  ASSUME NEW o \in ObsRecords, NEW k, NEW x, ToldIn(o, k, x, Audience(x))
  PROVE  CoveredBefore(o, k, x, Place(o))
<1>. SUFFICES ASSUME NEW w \in Audience(x) PROVE \E m \in Marked(o, k, x) : m < Place(o) /\ w \in o.log[m].to
  BY DEF CoveredBefore
<1>1. PICK m \in Marked(o, k, x) : w \in o.log[m].to
  BY DEF ToldIn
<1>. QED
  BY <1>1, LogIs DEF Marked

\* Everybody was told the start of what started, and the end of what is over.
LEMMA InvCovers ==
  ASSUME ObservationInv, NEW x \in DOMAIN status
  PROVE  /\ CoveredBefore(obs, "begin", x, Place(obs))
         /\ ~Untold(x) => CoveredBefore(obs, "end", x, Place(obs))
         /\ Untold(x) => SilentIn(obs, "end", x)
<1>1. Begun(DOMAIN obs.log, x) = Marked(obs, "begin", x) /\ Over(DOMAIN obs.log, x) = Marked(obs, "end", x)
  BY DEF Begun, Over, Places, Marked, MarkOf
<1>2. AudienceTold /\ obs \in ObsRecords
  BY SpokenStarted DEF ObservationInv, ToldInv
<1>3. ToldIn(obs, "begin", x, Audience(x))
  BY <1>1, <1>2 DEF AudienceTold, Told, ToldIn
<1>4. ~Untold(x) => ToldIn(obs, "end", x, Audience(x))
  BY <1>1, <1>2 DEF AudienceTold, Told, ToldIn, Untold
<1>5. Untold(x) => SilentIn(obs, "end", x)
  BY <1>1, <1>2 DEF AudienceTold, SilentIn, Untold
<1>. QED
  BY <1>2, <1>3, <1>4, <1>5, ToldCovers

\* What is told or pending of a top-level execution of a run is of its executions.
LEMMA TopStarted ==
  ASSUME ObservationInv, NEW r, NEW x, x \in DOMAIN status, TopOf(r, x)
  PROVE  x \in Executions /\ Parent(x) = r /\ IsRun(r)
  BY DEF TopOf, Executions

\* Between visits, and between attempts, all executions of the run before were told to have ended.
LEMMA StepsToldIs ==
  ASSUME ObservationInv, OrderInv, NEW r \in DOMAIN flow, flow[r].phase \in {"visit", "retry"}
  PROVE  StepsTold(obs, r)
<1>. SUFFICES ASSUME InOneWrapper, NEW i \in DOMAIN obs.log,
                     MarkOf(obs.log[i].kind) = "begin", TopOf(r, obs.log[i].span)
              PROVE  CoveredBefore(obs, "end", obs.log[i].span, Place(obs))
  BY DEF StepsTold
<1>. DEFINE x == obs.log[i].span
<1>1. x \in DOMAIN status /\ StructureInv
  BY SpokenStarted
<1>2. x \in Executions /\ Parent(x) = r
  BY <1>1, TopStarted
<1>. HIDE DEF x
<1>3. status[x] # "running"
  BY <1>1, <1>2, NoneRunning
<1>4. ~(x = held /\ x # NoSpan)
  <2>. SUFFICES ASSUME x = held, x # NoSpan PROVE FALSE
    OBVIOUS
  <2>1. r = RootRun
    BY <1>1, <1>2, HeldIs
  <2>2. flow[r].phase = "returned"
    BY <2>1 DEF OrderInv, HoldFits
  <2>. QED
    BY <2>2
<1>. QED
  BY <1>1, <1>3, <1>4, InvCovers DEF Untold, x

-----------------------------------------------------------------------------
(* What a step must show to keep the order.                                  *)

\* The order of a log is about the log and the world.
LEMMA OrderPrimes ==
  ASSUME world' = world
  PROVE  /\ Ordered(obs') => Ordered(obs)'
         /\ InOneWrapper' <=> InOneWrapper
         /\ \A r \in DOMAIN flow' : RunOrder(obs', r, flow'[r]) => RunOrder(obs, r, flow[r])'
<1>1. InOneWrapper' <=> InOneWrapper
  BY DEF InOneWrapper
<1>2. \A k, x, i : CoveredBefore(obs', k, x, i) => CoveredBefore(obs, k, x, i)'
  BY DEF CoveredBefore, Audience, Marked
<1>3. \A x : Audience(x)' = Audience(x)
  BY DEF Audience
<1>4. BeginsFirst(obs') => BeginsFirst(obs)'
  BY DEF BeginsFirst
<1>5. EndsLast(obs') => EndsLast(obs)'
  BY DEF EndsLast
<1>6. StepsEnd(obs') => StepsEnd(obs)'
  BY <1>1, <1>2 DEF StepsEnd
<1>7. DecisionsAfter(obs') => DecisionsAfter(obs)'
  BY <1>2 DEF DecisionsAfter, DecisionOf, LatestAt, UnresolvedAt, UntakenAt, Marked
<1>8. ToAudience(obs') => ToAudience(obs)'
  BY <1>3 DEF ToAudience
<1>9. PendFits(obs') => PendFits(obs)'
  BY DEF PendFits
<1>10. \A r \in DOMAIN flow' : RunOrder(obs', r, flow'[r]) => RunOrder(obs, r, flow[r])'
  BY DEF RunOrder, LatestAt, UnresolvedAt, UntakenAt, Marked, Place
<1>. QED
  BY <1>1, <1>4, <1>5, <1>6, <1>7, <1>8, <1>9, <1>10 DEF Ordered

\* A step that moves one flow.
LEMMA FlowOrder ==
  ASSUME OrderInv, world' = world, NEW r \in DOMAIN flow, NEW g, flow' = [flow EXCEPT ![r] = g],
         Ordered(obs'), \A s : s # r => KeepsOrderOf(obs, obs', s), RunOrder(obs', r, g), TodoFits(g), HoldFits'
  PROVE  OrderInv'
<1>1. DOMAIN flow' = DOMAIN flow /\ flow'[r] = g /\ \A s \in DOMAIN flow : s # r => flow'[s] = flow[s]
  OBVIOUS
<1>2. \A s \in DOMAIN flow : RunOrder(obs', s, flow'[s]) /\ TodoFits(flow'[s])
  BY <1>1 DEF OrderInv, KeepsOrderOf
<1>3. \A s \in DOMAIN flow' : RunOrder(obs, s, flow[s])'
  BY <1>1, <1>2, OrderPrimes
<1>4. \A s \in DOMAIN flow : TodoFits(flow'[s])
  BY <1>2
<1>5. Ordered(obs)'
  BY OrderPrimes
<1>. QED
  BY <1>1, <1>3, <1>4, <1>5 DEF OrderInv, TodoFits

\* A step that moves no flow, and holds nothing new.
LEMMA StillOrder ==
  ASSUME OrderInv, UNCHANGED <<world, flow, held>>, Ordered(obs'), \A s : KeepsOrderOf(obs, obs', s)
  PROVE  OrderInv'
<1>1. \A s \in DOMAIN flow : RunOrder(obs', s, flow[s]) /\ TodoFits(flow[s])
  BY DEF OrderInv, KeepsOrderOf
<1>2. \A s \in DOMAIN flow' : RunOrder(obs, s, flow[s])'
  BY <1>1, OrderPrimes
<1>3. Ordered(obs)' /\ (InOneWrapper' <=> InOneWrapper)
  BY OrderPrimes
<1>4. HoldFits'
  BY <1>3 DEF OrderInv, HoldFits
<1>. QED
  BY <1>1, <1>2, <1>3, <1>4 DEF OrderInv, TodoFits

\* A visit that goes on, or that is decided, stays about its execution.
LEMMA PhaseMoves ==
  ASSUME NEW o, NEW r, NEW f, NEW g, RunOrder(o, r, f), f.phase \in InVisit \ {"decided"}, g.last = f.last
  PROVE  RunOrder(o, r, g)
  BY DEF RunOrder, InVisit

\* What is held stays held while a flow moves that has not returned.
LEMMA HoldStays ==
  ASSUME StructureInv, OrderInv, world' = world, NEW r \in DOMAIN flow, NEW g, flow' = [flow EXCEPT ![r] = g],
         held' = held, flow[r].phase # "returned"
  PROVE  HoldFits'
<1>. SUFFICES ASSUME InOneWrapper, held # NoSpan PROVE flow'[RootRun].phase = "returned"
  BY OrderPrimes DEF HoldFits
<1>1. flow[RootRun].phase = "returned"
  BY DEF OrderInv, HoldFits
<1>. QED
  BY <1>1

\* Nothing is held any more.
LEMMA HoldOver ==
  ASSUME held' = NoSpan
  PROVE  HoldFits'
  BY DEF HoldFits, NoSpan

\* Two sequences of which one has one element, in a row.
LEMMA ShortConcat ==
  ASSUME NEW S, NEW a \in S, NEW b \in S, NEW c \in S
  PROVE  <<a>> \o <<b>> = <<a, b>> /\ <<a, b>> \o <<c>> = <<a, b, c>>
<1>. DEFINE s1 == <<a>>
            s2 == <<a, b>>
            s3 == <<a, b, c>>
            t == <<b>>
            u == <<c>>
<1>1. s1 \in Seq(S) /\ s2 \in Seq(S) /\ s3 \in Seq(S) /\ t \in Seq(S) /\ u \in Seq(S)
  OBVIOUS
<1>2. Len(s1) = 1 /\ Len(s2) = 2 /\ Len(s3) = 3 /\ Len(t) = 1 /\ Len(u) = 1
  OBVIOUS
<1>3. /\ s1[1] = a /\ s2[1] = a /\ s2[2] = b /\ s3[1] = a /\ s3[2] = b /\ s3[3] = c /\ t[1] = b /\ u[1] = c
  OBVIOUS
<1>. HIDE DEF s1, s2, s3, t, u
<1>4. s1 \o t = s2
  <2>1. s1 \o t \in Seq(S) /\ Len(s1 \o t) = 2
    BY <1>1, <1>2, ConcatProperties, SMTT(20)
  <2>2. ASSUME NEW i \in 1..2 PROVE (s1 \o t)[i] = s2[i]
    <3>1. (s1 \o t)[i] = IF i <= 1 THEN s1[i] ELSE t[i - 1]
      BY <1>1, <1>2, ConcatProperties
    <3>2. i = 1 \/ i = 2
      OBVIOUS
    <3>. QED
      BY <1>3, <3>1, <3>2
  <2>. QED
    BY <1>1, <1>2, <2>1, <2>2, SeqEqual
<1>5. s2 \o u = s3
  <2>1. /\ s2 \o u \in Seq(S) /\ Len(s2 \o u) = Len(s2) + Len(u)
        /\ \A i \in 1..(Len(s2) + Len(u)) : (s2 \o u)[i] = IF i <= Len(s2) THEN s2[i] ELSE u[i - Len(s2)]
    BY <1>1, ConcatProperties
  <2>2. ASSUME NEW i \in 1..3 PROVE (s2 \o u)[i] = s3[i]
    <3>1. (s2 \o u)[i] = IF i <= 2 THEN s2[i] ELSE u[i - 2]
      BY <1>2, <2>1
    <3>2. i = 1 \/ i = 2 \/ i = 3
      OBVIOUS
    <3>. QED
      BY <1>3, <3>1, <3>2
  <2>. QED
    BY <1>1, <1>2, <2>1, <2>2, SeqEqual
<1>. QED
  BY <1>4, <1>5 DEF s1, s2, s3, t, u

\* The flow of a visit that is decided.
LEMMA DecideIs ==
  ASSUME StructureInv, NEW r \in DOMAIN flow, NEW e, NEW d, Decide(r, e, d), IsDecision(d)
  PROVE  \E g : flow' = [flow EXCEPT ![r] = g] /\ g.phase = "decided" /\ g.last = e /\ TodoFits(g)
<1>. DEFINE h == [flow[r] EXCEPT !.phase = "decided", !.todo = Todo(d.decision), !.last = e,
                                 !.decision = d.decision, !.to = d.to]
<1>1. flow' = [flow EXCEPT ![r] = h]
  BY DEF Decide
<1>2. flow[r] \in Flows
  BY FlowIs
<1>3. h.phase = "decided" /\ h.last = e /\ h.todo = Todo(d.decision)
  BY <1>2 DEF Flows
<1>4. Todo(d.decision) \in Todos
  <2>. DEFINE T == {"rejected", "taken", "resolve"}
  <2>00. "rejected" \in T /\ "taken" \in T /\ "resolve" \in T
    OBVIOUS
  <2>0. <<"rejected">> \in Seq(T) /\ <<"taken">> \in Seq(T) /\ <<"resolve">> \in Seq(T) /\ <<>> \in Seq(T)
    OBVIOUS
  <2>. HIDE DEF T
  <2>1. <<"rejected">> \o <<"taken">> = <<"rejected", "taken">>
    BY <2>00, ShortConcat
  <2>2. <<"rejected", "taken">> \o <<"resolve">> = <<"rejected", "taken", "resolve">>
    BY <2>00, ShortConcat
  <2>3. <<"rejected">> \o <<>> = <<"rejected">> /\ <<>> \o <<"taken">> = <<"taken">> /\ <<>> \o <<>> = <<>>
        /\ <<>> \o <<"resolve">> = <<"resolve">>
    BY <2>0, ConcatEmptySeq
  <2>4. <<"rejected">> \o <<"resolve">> = <<"rejected", "resolve">>
    BY <2>00, ShortConcat
  <2>5. <<"taken">> \o <<"resolve">> = <<"taken", "resolve">>
    BY <2>00, ShortConcat
  <2>6. CASE d.decision.rejected /\ d.decision.taken # "none"
    BY <2>1, <2>2, <2>6 DEF Todo, Todos
  <2>7. CASE d.decision.rejected /\ ~(d.decision.taken # "none")
    BY <2>3, <2>4, <2>7 DEF Todo, Todos
  <2>8. CASE ~d.decision.rejected /\ d.decision.taken # "none"
    BY <2>3, <2>5, <2>8 DEF Todo, Todos
  <2>9. CASE ~d.decision.rejected /\ ~(d.decision.taken # "none")
    BY <2>3, <2>9 DEF Todo, Todos
  <2>. QED
    BY <2>6, <2>7, <2>8, <2>9 DEF IsDecision, Decisions
<1>. HIDE DEF h
<1>. QED
  BY <1>1, <1>3, <1>4 DEF TodoFits

-----------------------------------------------------------------------------
(* Each step of the system keeps the order.                                  *)

\* Nobody was told the end of what is around an execution that may end, or that is held.
LEMMA OpenExecution ==
  ASSUME ObservationInv, NEW e \in Executions, status[Parent(e)] = "running"
  PROVE  IsExecution(e) /\ e \in Spans /\ \A T : OpenAround(obs, e, T)
<1>1. TypeInv /\ SpansFit
  BY SpokenStarted
<1>2. IsExecution(e) /\ e \in DOMAIN status /\ e # RootRun
  BY <1>1, ExecutionsAre
<1>3. Parent(e) \in DOMAIN status /\ Parent(e) \in Spans /\ e \in Spans /\ Last(e) \in Marks /\ e = Append(Parent(e), Last(e))
  BY <1>1, <1>2, ParentStarted
<1>4. \A T : OpenAround(obs, Append(Parent(e), Last(e)), T)
  BY <1>3, OpenAbove
<1>. QED
  BY <1>2, <1>3, <1>4

\* The parent of what runs is running, and so is the run of what is held.
LEMMA ParentRuns ==
  ASSUME ObservationInv, NEW e \in Executions, Untold(e)
  PROVE  status[Parent(e)] = "running"
<1>1. TypeInv /\ SpansFit /\ StructureInv
  BY SpokenStarted
<1>2. e \in DOMAIN status /\ e # RootRun
  BY <1>1, ExecutionsAre
<1>3. Parent(e) \in DOMAIN status /\ Within(e, Parent(e))
  BY <1>1, <1>2, ParentStarted
<1>4. CASE status[e] = "running"
  BY <1>1, <1>2, <1>3, <1>4 DEF SpansFit
<1>5. CASE e = held /\ e # NoSpan
  <2>1. Parent(e) = RootRun
    BY <1>1, <1>5, HeldIs
  <2>2. RootRun \in DOMAIN flow /\ flow[RootRun].phase # "done"
    <3>1. IsRun(RootRun)
      BY DEF IsRun
    <3>. QED
      BY <1>1, <1>3, <1>5, <2>1, <3>1 DEF StructureInv, TypeInv, FlowInv, HeldFits
  <2>. QED
    BY <1>1, <2>1, <2>2, FlowIs DEF FlowFits
<1>. QED
  BY <1>4, <1>5 DEF Untold

\* The report of an execution's end.
LEMMA ReportOrdered ==
  ASSUME ObservationInv, NEW o \in ObsRecords, Ordered(o), NEW e, IsExecution(e),
         OpenAround(o, e, Watchers(RunOf(e))), NEW p, p = ReportSuccess(o, e) \/ p = ReportFailure(o, e)
  PROVE  /\ p \in ObsRecords /\ Ordered(p) /\ \A s : KeepsOrderOf(o, p, s)
         /\ \A x, T : ~Around(x, e) /\ OpenAround(o, x, T) => OpenAround(p, x, T)
         /\ Spoken(p) \subseteq Spoken(o) \cup {e}
         /\ SilentIn(o, "end", e) => ToldIn(p, "end", e, Audience(e))
         /\ Grows(o, p, SayFinish(e, RunOf(e), Watchers(RunOf(e))), NewPends(e, RunOf(e)))
<1>1. world \in Worlds /\ StructureInv
  BY SpokenStarted
<1>2. PICK text, succeeded : p = TellFinished(o, e, succeeded, text) /\ text \in SUBSET Key /\ succeeded \in BOOLEAN
  <2>1. {} \in SUBSET Key /\ Failure(e) \in SUBSET Key
    <3>1. Failure(e) = TextOf(e)
      BY DEF Failure, TextOf, IsExecution
    <3>. QED
      BY <1>1, <3>1, TextIs
  <2>2. CASE p = ReportSuccess(o, e)
    BY <2>1, <2>2 DEF ReportSuccess
  <2>3. CASE p = ReportFailure(o, e)
    BY <2>1, <2>3 DEF ReportFailure
  <2>. QED
    BY <2>2, <2>3
<1>3. p \in ObsRecords /\ Ordered(p) /\ \A s : KeepsOrderOf(o, p, s)
  BY <1>1, <1>2, TellFinishedOrdered
<1>4. Grows(o, p, SayFinish(e, RunOf(e), Watchers(RunOf(e))), NewPends(e, RunOf(e)))
  BY <1>1, <1>2, TellFinishedGrows
<1>5. \A ev \in SayFinish(e, RunOf(e), Watchers(RunOf(e))) : MarkOf(ev.kind) = "end" => ev.span = e
  BY DEF SayFinish, SayEnd, SayResolved, MarkOf
<1>6. ASSUME NEW x, NEW T, ~Around(x, e), OpenAround(o, x, T) PROVE OpenAround(p, x, T)
  <2>. SUFFICES ASSUME NEW m \in DOMAIN p.log, MarkOf(p.log[m].kind) = "end", Around(x, p.log[m].span)
                PROVE  p.log[m].to \cap T = {}
    BY DEF OpenAround
  <2>1. m < Place(o) => m \in DOMAIN o.log /\ p.log[m] = o.log[m]
    BY <1>3, <1>4, GrowsPlaces
  <2>2. ~(m < Place(o)) => p.log[m] \in SayFinish(e, RunOf(e), Watchers(RunOf(e)))
    BY <1>3, <1>4, GrowsPlaces
  <2>3. m < Place(o)
    BY <1>5, <1>6, <2>2
  <2>. QED
    BY <1>6, <2>1, <2>3 DEF OpenAround
<1>7. TellsEnd(o, p, e, text)
  BY <1>1, <1>2, TellsEndIs
<1>8. Spoken(p) \subseteq Spoken(o) \cup {e}
  BY <1>7 DEF TellsEnd, Speaks
<1>9. ASSUME SilentIn(o, "end", e) PROVE ToldIn(p, "end", e, Audience(e))
  <2>1. ToldIn(o, "end", e, {}) /\ {} \in SUBSET Everyone
    BY <1>9, SilentTold
  <2>2. e \in Spans /\ Moves(o, p, "end", e, Watchers(At(e))) /\ Audience(e) = Watchers(At(e))
    BY <1>7, AudienceIs DEF TellsEnd, Speaks
  <2>3. ToldIn(p, "end", e, {} \cup Watchers(At(e)))
    BY <2>1, <2>2 DEF Moves
  <2>4. {} \cup Watchers(At(e)) = Watchers(At(e))
    OBVIOUS
  <2>. QED
    BY <2>2, <2>3, <2>4
<1>. QED
  BY <1>3, <1>4, <1>6, <1>8, <1>9

\* The report of what was held, if anything was.
LEMMA ReleaseOrdered ==
  ASSUME ObservationInv, NEW o \in ObsRecords, Ordered(o), held # NoSpan => OpenAround(o, held, Watchers(RunOf(held)))
  PROVE  Release(o) \in ObsRecords /\ Ordered(Release(o)) /\ \A s : KeepsOrderOf(o, Release(o), s)
<1>1. CASE held = NoSpan
  BY <1>1 DEF Release, KeepsOrderOf
<1>2. CASE held # NoSpan
  <2>1. TypeInv /\ SpansFit /\ StructureInv
    BY SpokenStarted
  <2>2. held \in Executions
    BY <1>2, <2>1, HeldIs
  <2>3. IsExecution(held)
    BY <2>1, <2>2, ExecutionsAre
  <2>4. Release(o) = ReportSuccess(o, held)
    BY <1>2 DEF Release
  <2>. QED
    BY <1>2, <2>3, <2>4, ReportOrdered
<1>. QED
  BY <1>1, <1>2

\* Nobody was told the end of what is around what is held.
LEMMA OpenHeld ==
  ASSUME ObservationInv, held # NoSpan
  PROVE  held \in Executions /\ held \in DOMAIN status /\ IsExecution(held) /\ held \in Spans /\ \A T : OpenAround(obs, held, T)
<1>1. StructureInv
  BY SpokenStarted
<1>2. held \in Executions /\ held \in DOMAIN status
  BY <1>1, HeldIs
<1>3. status[Parent(held)] = "running"
  BY <1>2, ParentRuns DEF Untold
<1>. QED
  BY <1>2, <1>3, OpenExecution

\* A run starts.
LEMMA RunStartOrder ==
  ASSUME ObservationInv, OrderInv, NEW r, RunStarts(r),
         r = RootRun \/ \E e \in Executions : StepOf(e) \in ProgramSteps /\ r = NestedRun(e)
  PROVE  OrderInv'
<1>1. StructureInv /\ world \in Worlds /\ obs \in ObsRecords /\ Ordered(obs) /\ HoldFits
  BY SpokenStarted DEF OrderInv
<1>2. Accounts({r}, {}) /\ IsRun(r) /\ r \in Spans
  BY <1>1, RunStartAccounts
<1>3. /\ r \notin DOMAIN status /\ UNCHANGED <<world, held>> /\ flow' = With(flow, r, NewFlow)
      /\ obs' = TellRunStarted(obs, r)
  BY DEF RunStarts
<1>4. Fresh(obs, r) /\ \A T : OpenAround(obs, r, T)
  BY <1>2, StartingIs DEF Accounts
<1>5. Ordered(obs') /\ \A s : KeepsOrderOf(obs, obs', s)
  BY <1>1, <1>2, <1>3, <1>4, TellRunStartedOrdered
<1>6. DOMAIN flow' = DOMAIN flow \cup {r} /\ flow'[r] = NewFlow /\ \A s \in DOMAIN flow : s # r => flow'[s] = flow[s]
  <2>1. /\ DOMAIN With(flow, r, NewFlow) = DOMAIN flow \cup {r} /\ With(flow, r, NewFlow)[r] = NewFlow
        /\ \A s \in DOMAIN flow : s # r => With(flow, r, NewFlow)[s] = flow[s]
    BY DEF With
  <2>. QED
    BY <1>3, <2>1
<1>7. RunOrder(obs', r, NewFlow) /\ TodoFits(NewFlow)
  BY DEF RunOrder, TodoFits, NewFlow, InVisit
<1>8. \A s \in DOMAIN flow' : RunOrder(obs', s, flow'[s]) /\ TodoFits(flow'[s])
  BY <1>5, <1>6, <1>7 DEF OrderInv, KeepsOrderOf
<1>9. \A s \in DOMAIN flow' : RunOrder(obs, s, flow[s])'
  BY <1>3, <1>8, OrderPrimes
<1>10. Ordered(obs)' /\ (InOneWrapper' <=> InOneWrapper)
  BY <1>3, <1>5, OrderPrimes
<1>11. HoldFits'
  <2>. SUFFICES ASSUME InOneWrapper, held # NoSpan PROVE flow'[RootRun].phase = "returned"
    BY <1>3, <1>10 DEF HoldFits
  <2>1. flow[RootRun].phase = "returned"
    BY <1>1 DEF HoldFits
  <2>2. held \in DOMAIN status
    BY <1>1, HeldIs
  <2>3. RootRun \in DOMAIN status
    BY <1>1, <2>2 DEF StructureInv, SpansFit
  <2>4. RootRun \in DOMAIN flow
    BY <1>1, <2>3 DEF StructureInv, TypeInv, IsRun
  <2>. QED
    BY <1>3, <1>6, <2>1, <2>3, <2>4
<1>. QED
  BY <1>8, <1>9, <1>10, <1>11 DEF OrderInv, TodoFits

\* A flow starts an execution.
LEMMA FlowStartOrder ==
  ASSUME ObservationInv, OrderInv, NEW r \in DOMAIN flow, StepStarts(r) \/ AttemptStarts(r)
  PROVE  OrderInv'
<1>0. PICK e : e = NextExecution(r, r, Current(r))
  OBVIOUS
<1>1. StructureInv /\ world \in Worlds /\ obs \in ObsRecords /\ Ordered(obs)
  BY SpokenStarted DEF OrderInv
<1>2. Accounts({e}, {}) /\ IsExecution(e) /\ RunOf(e) = r /\ Parent(e) = r
  BY <1>0, <1>1, FlowStartAccounts
<1>3. /\ flow[r].phase \in {"visit", "retry"} /\ UNCHANGED <<world, held>> /\ obs' = TellStarted(obs, e)
  BY <1>0 DEF StepStarts, AttemptStarts, Begin
<1>4. PICK g : flow' = [flow EXCEPT ![r] = g] /\ g.phase = "running" /\ g.last = e
  <2>1. flow[r] \in Flows
    BY <1>1, FlowIs
  <2>2. CASE AttemptStarts(r)
    <3>. DEFINE h == [flow[r] EXCEPT !.phase = "running", !.last = e, !.tries = @ + 1]
    <3>1. flow' = [flow EXCEPT ![r] = h]
      BY <1>0, <2>2 DEF AttemptStarts
    <3>2. h.phase = "running" /\ h.last = e
      BY <2>1 DEF Flows
    <3>. HIDE DEF h
    <3>. QED
      BY <3>1, <3>2
  <2>3. CASE StepStarts(r)
    <3>. DEFINE h == [flow[r] EXCEPT !.phase = "running", !.last = e]
    <3>1. flow' = [flow EXCEPT ![r] = h]
      BY <1>0, <2>3 DEF StepStarts
    <3>2. h.phase = "running" /\ h.last = e
      BY <2>1 DEF Flows
    <3>. HIDE DEF h
    <3>. QED
      BY <3>1, <3>2
  <2>. QED
    BY <2>2, <2>3
<1>5. e \in Spans /\ Starting(e)
  BY <1>2 DEF Accounts, IsExecution
<1>6. Fresh(obs, e) /\ \A T : OpenAround(obs, e, T)
  BY <1>5, StartingIs
<1>7. StepsTold(obs, r)
  BY <1>3, StepsToldIs
<1>8. TopLevel(e) /\ TopOf(r, e)
  <2>1. IsRun(r)
    BY <1>1, FlowIs
  <2>. QED
    BY <1>2, <2>1 DEF TopLevel, TopOf, IsExecution
<1>9. /\ Ordered(obs') /\ \A s : s # r => KeepsOrderOf(obs, obs', s)
      /\ \A f : f.last = e => RunOrder(obs', r, f)
  BY <1>1, <1>2, <1>3, <1>6, <1>7, <1>8, TellStartedOrdered
<1>10. RunOrder(obs', r, g) /\ TodoFits(g)
  BY <1>4, <1>9 DEF TodoFits
<1>11. HoldFits'
  BY <1>1, <1>3, <1>4, HoldStays
<1>. QED
  BY <1>3, <1>4, <1>9, <1>10, <1>11, FlowOrder

\* A composite starts a child.
LEMMA ChildStartOrder ==
  ASSUME ObservationInv, OrderInv, NEW p \in Executions, NEW c \in Children[StepOf(p)], ChildStarts(p, c)
  PROVE  OrderInv'
<1>0. PICK e : e = NextExecution(RunOf(p), p, c)
  OBVIOUS
<1>1. StructureInv /\ world \in Worlds /\ obs \in ObsRecords /\ Ordered(obs)
  BY SpokenStarted DEF OrderInv
<1>2. Accounts({e}, {}) /\ IsExecution(e) /\ RunOf(e) = RunOf(p) /\ Parent(e) = p
  BY <1>0, <1>1, ChildStartAccounts
<1>3. UNCHANGED <<world, flow, held>> /\ obs' = TellStarted(obs, e)
  BY <1>0 DEF ChildStarts, Begin
<1>4. Fresh(obs, e) /\ \A T : OpenAround(obs, e, T)
  BY <1>2, StartingIs DEF Accounts, IsExecution
<1>5. ~TopLevel(e)
  BY <1>2 DEF TopLevel, Executions
<1>6. Ordered(obs') /\ \A s : KeepsOrderOf(obs, obs', s)
  BY <1>1, <1>2, <1>3, <1>4, <1>5, TellStartedOrdered
<1>. QED
  BY <1>3, <1>6, StillOrder

\* A nested execution ends.
LEMMA ChildEndOrder ==
  ASSUME ObservationInv, OrderInv, NEW e \in Executions, ChildEnds(e)
  PROVE  OrderInv'
<1>1. obs \in ObsRecords /\ Ordered(obs)
  BY SpokenStarted DEF OrderInv
<1>2. /\ status[e] = "running" /\ UNCHANGED <<world, flow, held>>
      /\ obs' = ReportSuccess(obs, e) \/ obs' = ReportFailure(obs, e)
  BY DEF ChildEnds
<1>3. IsExecution(e) /\ \A T : OpenAround(obs, e, T)
  BY <1>2, ParentRuns, OpenExecution DEF Untold
<1>4. Ordered(obs') /\ \A s : KeepsOrderOf(obs, obs', s)
  BY <1>1, <1>2, <1>3, ReportOrdered
<1>. QED
  BY <1>2, <1>4, StillOrder

\* A flow moves on about the execution of its visit, after reports of what it holds or ends.
LEMMA VisitOrder ==
  ASSUME ObservationInv, OrderInv, world' = world, NEW r \in DOMAIN flow, flow[r].phase \in InVisit \ {"decided"},
         NEW g, flow' = [flow EXCEPT ![r] = g], g.last = flow[r].last, TodoFits(g),
         Ordered(obs'), \A s : KeepsOrderOf(obs, obs', s), HoldFits'
  PROVE  OrderInv'
<1>1. RunOrder(obs, r, flow[r])
  BY DEF OrderInv
<1>2. RunOrder(obs', r, flow[r])
  BY <1>1 DEF KeepsOrderOf
<1>3. RunOrder(obs', r, g)
  BY <1>2, PhaseMoves
<1>. QED
  BY <1>3, FlowOrder

\* What stays unsaid keeps the order.
LEMMA NothingOrdered ==
  ASSUME OrderInv, obs' = obs
  PROVE  Ordered(obs') /\ \A s : KeepsOrderOf(obs, obs', s)
  BY DEF OrderInv, KeepsOrderOf

\* A top-level execution in no wrapper ends, and its visit is decided.
LEMMA StepEndOrder ==
  ASSUME ObservationInv, OrderInv, NEW r \in DOMAIN flow, StepEnds(r)
  PROVE  OrderInv'
<1>0. PICK e : e = flow[r].last
  OBVIOUS
<1>1. StructureInv /\ obs \in ObsRecords /\ Ordered(obs) /\ flow[r] \in Flows
  BY SpokenStarted, FlowIs DEF OrderInv
<1>2. /\ flow[r].phase = "running" /\ UNCHANGED <<world, held>>
      /\ obs' = ReportSuccess(obs, e) \/ obs' = ReportFailure(obs, e)
  BY <1>0 DEF StepEnds
<1>3. PICK d \in SuccessDecisions(r) \cup FailureDecisions(r) : Decide(r, e, d)
  BY <1>0 DEF StepEnds
<1>4. IsDecision(d)
  BY <1>1, FlowDecides
<1>5. PICK g : flow' = [flow EXCEPT ![r] = g] /\ g.phase = "decided" /\ g.last = e /\ TodoFits(g)
  BY <1>1, <1>3, <1>4, DecideIs
<1>6. e \in Executions /\ status[e] = "running"
  BY <1>0, <1>1, <1>2, VisitIs DEF VisitFits
<1>7. IsExecution(e) /\ \A T : OpenAround(obs, e, T)
  BY <1>6, ParentRuns, OpenExecution DEF Untold
<1>8. Ordered(obs') /\ \A s : KeepsOrderOf(obs, obs', s)
  BY <1>1, <1>2, <1>7, ReportOrdered
<1>9. HoldFits'
  BY <1>1, <1>2, <1>5, HoldStays
<1>. QED
  BY <1>0, <1>2, <1>5, <1>8, <1>9, VisitOrder DEF InVisit

\* An attempt succeeds, and is held in place of the success before it.
LEMMA AttemptSucceedsOrder ==
  ASSUME ObservationInv, OrderInv, NEW r \in DOMAIN flow, AttemptSucceeds(r)
  PROVE  OrderInv'
<1>1. StructureInv /\ obs \in ObsRecords /\ Ordered(obs)
  BY SpokenStarted DEF OrderInv
<1>2. /\ flow[r].phase = "running" /\ Wrapped(r) /\ world' = world
      /\ obs' = Release(obs) /\ flow' = [flow EXCEPT ![r].phase = "returned"]
  BY DEF AttemptSucceeds
<1>3. PICK g \in Flows : flow' = [flow EXCEPT ![r] = g] /\ g.phase = "returned" /\ g.last = flow[r].last
  BY <1>1, <1>2, PhaseIs
<1>4. r = RootRun
  BY <1>1, <1>2, WrappedIs
<1>5. Ordered(obs') /\ \A s : KeepsOrderOf(obs, obs', s)
  BY <1>1, <1>2, OpenHeld, ReleaseOrdered
<1>6. HoldFits' /\ TodoFits(g)
  BY <1>3, <1>4 DEF HoldFits, TodoFits
<1>. QED
  BY <1>2, <1>3, <1>5, <1>6, VisitOrder DEF InVisit

\* An attempt fails.
LEMMA AttemptFailsOrder ==
  ASSUME ObservationInv, OrderInv, NEW r \in DOMAIN flow, AttemptFails(r)
  PROVE  OrderInv'
<1>0. PICK e : e = flow[r].last
  OBVIOUS
<1>1. StructureInv /\ obs \in ObsRecords /\ Ordered(obs)
  BY SpokenStarted DEF OrderInv
<1>2. flow[r].phase = "running" /\ UNCHANGED <<world, held>> /\ obs' = ReportFailure(obs, e)
  BY <1>0 DEF AttemptFails
<1>3. PICK phase \in {"returned", "failing", "retry"} :
        flow' = [flow EXCEPT ![r].phase = phase] /\ phase \in {"failing", "retry"}
  BY DEF AttemptFails
<1>4. PICK g \in Flows : flow' = [flow EXCEPT ![r] = g] /\ g.phase \in {"failing", "retry"} /\ g.last = flow[r].last
  BY <1>1, <1>3, PhaseIs
<1>5. e \in Executions /\ status[e] = "running"
  BY <1>0, <1>1, <1>2, VisitIs DEF VisitFits
<1>6. IsExecution(e) /\ \A T : OpenAround(obs, e, T)
  BY <1>5, ParentRuns, OpenExecution DEF Untold
<1>7. Ordered(obs') /\ \A s : KeepsOrderOf(obs, obs', s)
  BY <1>1, <1>2, <1>6, ReportOrdered
<1>8. HoldFits' /\ TodoFits(g)
  BY <1>1, <1>2, <1>4, HoldStays DEF TodoFits
<1>. QED
  BY <1>2, <1>4, <1>7, <1>8, VisitOrder DEF InVisit

\* A timeout of an outer wrapper drops the result of the inner one.
LEMMA ResultDroppedOrder ==
  ASSUME ObservationInv, OrderInv, NEW r \in DOMAIN flow, ResultDropped(r)
  PROVE  OrderInv'
<1>1. StructureInv
  BY SpokenStarted
<1>2. flow[r].phase = "returned" /\ Wrappers[Current(r)] > 1 /\ UNCHANGED <<world, held, obs>>
  BY DEF ResultDropped
<1>3. PICK phase \in {"returned", "failing", "retry"} :
        flow' = [flow EXCEPT ![r].phase = phase] /\ phase \in {"failing", "retry"}
  BY DEF ResultDropped
<1>4. PICK g \in Flows : flow' = [flow EXCEPT ![r] = g] /\ g.phase \in {"failing", "retry"} /\ g.last = flow[r].last
  BY <1>1, <1>3, PhaseIs
<1>5. ~InOneWrapper
  <2>1. Wrappers[Current(r)] \in Nat /\ Current(r) \in Range(StepsOf(r))
    BY <1>1, FlowIs
  <2>2. r = RootRun
    BY <1>1, <1>2, <2>1, WrappedIs DEF Wrapped
  <2>. QED
    BY <1>2, <2>1, <2>2 DEF InOneWrapper, StepsOf
<1>6. HoldFits'
  BY <1>2, <1>5, OrderPrimes DEF HoldFits
<1>7. TodoFits(g)
  BY <1>3, <1>4 DEF TodoFits
<1>. QED
  BY <1>2, <1>4, <1>6, <1>7, NothingOrdered, VisitOrder DEF InVisit

\* A visit is committed, or its wrapper fails: either way what is held is reported.
LEMMA ReleasedOrder ==
  ASSUME ObservationInv, OrderInv, NEW r \in DOMAIN flow, Commits(r) \/ WrapperFails(r)
  PROVE  OrderInv'
<1>0. PICK e : e = flow[r].last
  OBVIOUS
<1>1. StructureInv /\ obs \in ObsRecords /\ Ordered(obs) /\ flow[r] \in Flows
  BY SpokenStarted, FlowIs DEF OrderInv
<1>2. /\ flow[r].phase \in {"returned", "failing"} /\ world' = world /\ held' = NoSpan
      /\ obs' = Release(obs)
  BY DEF Commits, WrapperFails
<1>3. PICK d : IsDecision(d) /\ Decide(r, e, d)
  <2>1. CASE \E d \in SuccessDecisions(r) \cup FailureDecisions(r) : Decide(r, e, d)
    BY <1>1, <2>1, FlowDecides
  <2>2. CASE Decide(r, e, Decision(FALSE, "none", "fail"))
    <3>1. "fail" \in Directions
      BY DEF Directions
    <3>2. IsDecision(Decision(FALSE, "none", "fail"))
      BY <3>1, DecisionIs
    <3>. QED
      BY <2>2, <3>2
  <2>. QED
    BY <1>0, <2>1, <2>2 DEF Commits, WrapperFails
<1>4. PICK g : flow' = [flow EXCEPT ![r] = g] /\ g.phase = "decided" /\ g.last = e /\ TodoFits(g)
  BY <1>1, <1>3, DecideIs
<1>5. Ordered(obs') /\ \A s : KeepsOrderOf(obs, obs', s)
  BY <1>1, <1>2, OpenHeld, ReleaseOrdered
<1>6. HoldFits'
  BY <1>2, HoldOver
<1>. QED
  BY <1>0, <1>2, <1>4, <1>5, <1>6, VisitOrder DEF InVisit

\* A transition fails the held execution.
LEMMA TransitionFailsOrder ==
  ASSUME ObservationInv, OrderInv, NEW r \in DOMAIN flow, TransitionFails(r)
  PROVE  OrderInv'
<1>0. PICK e : e = flow[r].last
  OBVIOUS
<1>1. StructureInv /\ obs \in ObsRecords /\ Ordered(obs) /\ flow[r] \in Flows
  BY SpokenStarted, FlowIs DEF OrderInv
<1>2. /\ flow[r].phase = "returned" /\ world' = world /\ held' = NoSpan /\ obs' = ReportFailure(obs, held)
  BY DEF TransitionFails
<1>3. held # NoSpan
  BY <1>1, TransitionFailsAccounts
<1>4. PICK d \in FailureDecisions(r) : Decide(r, e, d)
  BY <1>0 DEF TransitionFails
<1>5. IsDecision(d)
  BY <1>1, FlowDecides
<1>6. PICK g : flow' = [flow EXCEPT ![r] = g] /\ g.phase = "decided" /\ g.last = e /\ TodoFits(g)
  BY <1>1, <1>4, <1>5, DecideIs
<1>7. Ordered(obs') /\ \A s : KeepsOrderOf(obs, obs', s)
  BY <1>1, <1>2, <1>3, OpenHeld, ReportOrdered
<1>8. HoldFits'
  BY <1>2, HoldOver
<1>. QED
  BY <1>0, <1>2, <1>6, <1>7, <1>8, VisitOrder DEF InVisit

\* An execution of a flow's wrapped step that starts and is over at once.
LEMMA StandInOrder ==
  ASSUME ObservationInv, NEW r \in DOMAIN flow, Wrapped(r), flow[r].phase \in {"visit", "retry", "returned"},
         NEW e, e = NextExecution(r, r, Current(r)), NEW v \in {"succeeded", "failed"},
         status' = With(status, e, v), world' = world
  PROVE  /\ Starting(e) /\ IsExecution(e) /\ RunOf(e) = r /\ e \in Spans /\ TopOf(r, e) /\ TopLevel(e)
         /\ r = RootRun /\ Fresh(obs, e) /\ \A T : OpenAround(obs, e, T)
<1>1. StructureInv
  BY SpokenStarted
<1>2. status[r] = "running" /\ \A x \in Executions : Parent(x) = r => status[x] # "running"
  BY <1>1, NoneRunning
<1>3. Starting(e) /\ IsExecution(e) /\ Parent(e) = r /\ RunOf(e) = r /\ r = RootRun
  BY <1>1, <1>2, StandInIs
<1>4. IsRun(r)
  BY <1>1, FlowIs
<1>5. e \in Spans /\ TopOf(r, e) /\ TopLevel(e)
  BY <1>3, <1>4 DEF IsExecution, TopOf, TopLevel
<1>. QED
  BY <1>3, <1>5, StartingIs

\* A cache hit stands in for an execution.
LEMMA CacheHitOrder ==
  ASSUME ObservationInv, OrderInv, NEW r \in DOMAIN flow, CacheHit(r)
  PROVE  OrderInv'
<1>0. PICK e : e = NextExecution(r, r, Current(r))
  OBVIOUS
<1>1. StructureInv /\ world \in Worlds /\ obs \in ObsRecords /\ Ordered(obs)
  BY SpokenStarted DEF OrderInv
<1>2. PICK told : told = TellStarted(obs, e)
  OBVIOUS
<1>3. /\ flow[r].phase \in {"visit", "retry"} /\ Wrapped(r) /\ world' = world
      /\ status' = With(status, e, "succeeded") /\ obs' = Release(told)
  BY <1>0, <1>2 DEF CacheHit
<1>4. /\ IsExecution(e) /\ RunOf(e) = r /\ e \in Spans /\ TopOf(r, e) /\ TopLevel(e)
      /\ r = RootRun /\ Fresh(obs, e) /\ \A T : OpenAround(obs, e, T)
  BY <1>0, <1>3, StandInOrder
<1>5. PICK g : flow' = [flow EXCEPT ![r] = g] /\ g.phase = "returned" /\ g.last = e
  <2>. DEFINE h == [flow[r] EXCEPT !.phase = "returned", !.last = e, !.tries = @ + 1]
  <2>1. flow[r] \in Flows
    BY <1>1, FlowIs
  <2>2. h.phase = "returned" /\ h.last = e
    BY <2>1 DEF Flows
  <2>3. flow' = [flow EXCEPT ![r] = h]
    BY <1>0 DEF CacheHit
  <2>. HIDE DEF h
  <2>. QED
    BY <2>2, <2>3
<1>6. StepsTold(obs, r)
  BY <1>3, StepsToldIs
<1>7. /\ told \in ObsRecords /\ Ordered(told) /\ KeepsOpen(obs, told)
      /\ \A s : s # r => KeepsOrderOf(obs, told, s)
      /\ \A f : f.last = e => RunOrder(told, r, f)
  BY <1>1, <1>2, <1>4, <1>6, TellStartedOrdered
<1>8. held # NoSpan => OpenAround(told, held, Watchers(RunOf(held)))
  BY <1>7, OpenHeld DEF KeepsOpen
<1>9. Ordered(obs') /\ \A s : KeepsOrderOf(told, obs', s)
  BY <1>3, <1>7, <1>8, ReleaseOrdered
<1>10. \A s : s # r => KeepsOrderOf(obs, obs', s)
  BY <1>7, <1>9 DEF KeepsOrderOf
<1>11. RunOrder(obs', r, g)
  BY <1>5, <1>7, <1>9 DEF KeepsOrderOf
<1>12. HoldFits' /\ TodoFits(g)
  BY <1>4, <1>5 DEF HoldFits, TodoFits
<1>. QED
  BY <1>3, <1>5, <1>9, <1>10, <1>11, <1>12, FlowOrder

\* Once what is held was reported, all executions of the run before were told to have ended.
LEMMA StepsToldAfter ==
  ASSUME ObservationInv, OrderInv, NEW r \in DOMAIN flow, flow[r].phase = "returned", held # NoSpan,
         NEW p, p = ReportSuccess(obs, held)
  PROVE  StepsTold(p, r)
<1>. DEFINE S == SayFinish(held, RunOf(held), Watchers(RunOf(held)))
            N == NewPends(held, RunOf(held))
<1>1. StructureInv /\ obs \in ObsRecords /\ Ordered(obs)
  BY SpokenStarted DEF OrderInv
<1>2. held \in DOMAIN status /\ IsExecution(held) /\ Untold(held)
  BY OpenHeld DEF Untold
<1>3. p \in ObsRecords /\ Grows(obs, p, S, N) /\ (SilentIn(obs, "end", held) => ToldIn(p, "end", held, Audience(held)))
  BY <1>1, <1>2, OpenHeld, ReportOrdered
<1>4. CoveredBefore(p, "end", held, Place(p))
  BY <1>2, <1>3, InvCovers, ToldCovers
<1>5. \A ev \in S : MarkOf(ev.kind) # "begin"
  BY DEF SayFinish, SayEnd, SayResolved, MarkOf
<1>. HIDE DEF S, N
<1>. SUFFICES ASSUME NEW i \in DOMAIN p.log, MarkOf(p.log[i].kind) = "begin", TopOf(r, p.log[i].span)
              PROVE  CoveredBefore(p, "end", p.log[i].span, Place(p))
  BY DEF StepsTold
<1>. DEFINE x == p.log[i].span
<1>6. i < Place(obs)
  <2>1. ~(i < Place(obs)) => p.log[i] \in S
    BY <1>1, <1>3, GrowsPlaces
  <2>. QED
    BY <1>5, <2>1
<1>7. i \in DOMAIN obs.log /\ obs.log[i] = p.log[i]
  BY <1>1, <1>3, <1>6, GrowsPlaces
<1>8. x \in DOMAIN status
  BY <1>7, SpokenStarted
<1>9. x \in Executions /\ Parent(x) = r
  BY <1>8, TopStarted
<1>10. status[x] # "running"
  BY <1>1, <1>9, NoneRunning
<1>11. CASE x = held
  BY <1>4, <1>11
<1>12. CASE x # held
  <2>. HIDE DEF x
  <2>1. CoveredBefore(obs, "end", x, Place(obs))
    BY <1>8, <1>10, <1>12, InvCovers DEF Untold
  <2>2. Place(obs) \in Nat /\ Place(p) \in Nat /\ Place(obs) <= Place(p)
    BY <1>1, <1>3, LogIs, GrowsPlaces
  <2>3. CoveredBefore(p, "end", x, Place(p))
    BY <1>1, <1>3, <2>1, <2>2, CoveredGrows
  <2>. QED
    BY <2>3 DEF x
<1>. QED
  BY <1>11, <1>12

\* A merge fails, in an execution of its own.
LEMMA MergeFailsOrder ==
  ASSUME ObservationInv, OrderInv, NEW r \in DOMAIN flow, MergeFails(r)
  PROVE  OrderInv'
<1>0. PICK e : e = NextExecution(r, r, Current(r))
  OBVIOUS
<1>1. StructureInv /\ world \in Worlds /\ obs \in ObsRecords /\ Ordered(obs) /\ flow[r] \in Flows
  BY SpokenStarted, FlowIs DEF OrderInv
<1>2. PICK rel, told : rel = Release(obs) /\ told = TellStarted(rel, e)
  OBVIOUS
<1>3. /\ flow[r].phase = "returned" /\ world' = world /\ held' = NoSpan
      /\ status' = With(status, e, "failed") /\ obs' = ReportFailure(told, e)
  BY <1>0, <1>2 DEF MergeFails
<1>4. Wrapped(r) /\ held = flow[r].last
  BY <1>1, <1>3, FlowIs DEF FlowFits, Wrapped, Visited
<1>5. held # NoSpan
  <2>1. held \in Executions
    BY <1>1, <1>3, <1>4, VisitIs DEF VisitFits
  <2>. QED
    BY <2>1 DEF Executions, IsRun, NoSpan, RootRun
<1>6. /\ IsExecution(e) /\ RunOf(e) = r /\ e \in Spans /\ TopOf(r, e) /\ TopLevel(e) /\ Starting(e)
      /\ r = RootRun /\ Fresh(obs, e) /\ \A T : OpenAround(obs, e, T)
  BY <1>0, <1>3, <1>4, StandInOrder
<1>7. PICK d \in FailureDecisions(r) : Decide(r, e, d)
  BY <1>0 DEF MergeFails
<1>8. IsDecision(d)
  BY <1>1, <1>7, FlowDecides
<1>9. PICK g : flow' = [flow EXCEPT ![r] = g] /\ g.phase = "decided" /\ g.last = e /\ TodoFits(g)
  BY <1>1, <1>7, <1>8, DecideIs
<1>10. rel = ReportSuccess(obs, held)
  BY <1>2, <1>5 DEF Release
<1>11. ~Within(held, e)
  <2>1. TypeInv /\ SpansFit /\ held \in DOMAIN status
    BY <1>5, SpokenStarted, OpenHeld
  <2>. QED
    BY <1>6, <2>1, AroundStarting
<1>12. /\ rel \in ObsRecords /\ Ordered(rel) /\ \A s : KeepsOrderOf(obs, rel, s)
       /\ \A x, T : ~Around(x, held) /\ OpenAround(obs, x, T) => OpenAround(rel, x, T)
       /\ Spoken(rel) \subseteq Spoken(obs) \cup {held}
  BY <1>1, <1>5, <1>10, OpenHeld, ReportOrdered
<1>13. Fresh(rel, e)
  BY <1>6, <1>11, <1>12 DEF Fresh
<1>14. ~Around(e, held)
  <2>1. status[held] # "running"
    BY <1>1, <1>5, HeldIs
  <2>2. TypeInv /\ SpansFit /\ held \in DOMAIN status
    BY <1>5, SpokenStarted, OpenHeld
  <2>. QED
    BY <1>6, <2>1, <2>2, AroundStarting DEF Around
<1>15. \A T : OpenAround(rel, e, T)
  BY <1>6, <1>12, <1>14
<1>16. StepsTold(rel, r)
  BY <1>3, <1>5, <1>10, StepsToldAfter
<1>17. /\ told \in ObsRecords /\ Ordered(told) /\ KeepsOpen(rel, told)
       /\ \A s : s # r => KeepsOrderOf(rel, told, s)
       /\ \A f : f.last = e => RunOrder(told, r, f)
  BY <1>1, <1>2, <1>6, <1>12, <1>13, <1>15, <1>16, TellStartedOrdered
<1>18. OpenAround(told, e, Watchers(RunOf(e)))
  BY <1>15, <1>17 DEF KeepsOpen
<1>19. Ordered(obs') /\ \A s : KeepsOrderOf(told, obs', s)
  BY <1>3, <1>6, <1>17, <1>18, ReportOrdered
<1>20. \A s : s # r => KeepsOrderOf(obs, obs', s)
  BY <1>12, <1>17, <1>19 DEF KeepsOrderOf
<1>21. RunOrder(obs', r, g)
  BY <1>9, <1>17, <1>19 DEF KeepsOrderOf
<1>22. HoldFits'
  BY <1>3, HoldOver
<1>. QED
  BY <1>3, <1>9, <1>19, <1>20, <1>21, <1>22, FlowOrder

\* The flow tells what it decided.
LEMMA TellsOrder ==
  ASSUME ObservationInv, OrderInv, NEW r \in DOMAIN flow, Tells(r)
  PROVE  OrderInv'
<1>. DEFINE f == flow[r]
            e == f.last
            kind == Head(f.todo)
<1>1. StructureInv /\ world \in Worlds /\ obs \in ObsRecords /\ Ordered(obs)
  BY SpokenStarted DEF OrderInv
<1>2. f \in Flows /\ r \in DOMAIN status /\ r \in Spans /\ IsRun(r)
  BY <1>1, FlowIs
<1>3. /\ f.phase = "decided" /\ UNCHANGED <<world, held>>
      /\ obs' = IF kind = "resolve" THEN TellResolved(obs, r) ELSE TellDecision(obs, r, kind, f.decision.taken)
  BY DEF Tells
<1>4. f.todo \in Todos /\ RunOrder(obs, r, f)
  BY <1>3 DEF OrderInv, TodoFits
<1>5. PICK g : /\ flow' = [flow EXCEPT ![r] = g] /\ g.last = e
               /\ IF Tail(f.todo) = <<>> THEN g.phase # "decided" /\ g.phase \notin InVisit
                  ELSE g.phase = "decided" /\ g.todo = Tail(f.todo)
  <2>. DEFINE rest == [f EXCEPT !.todo = Tail(@)]
  <2>1. /\ rest.phase = "decided" /\ rest.last = e /\ rest.todo = Tail(f.todo)
        /\ flow' = [flow EXCEPT ![r] = IF rest.todo = <<>> THEN GoesOn(rest, r) ELSE rest]
    BY <1>2, <1>3 DEF Tells, Flows
  <2>2. GoesOn(rest, r).last = e /\ GoesOn(rest, r).phase \in {"visit", "ended"}
    BY <1>2 DEF Flows, GoesOn
  <2>3. GoesOn(rest, r).phase \notin InVisit /\ GoesOn(rest, r).phase # "decided"
    BY <2>2 DEF InVisit
  <2>. HIDE DEF rest
  <2>4. CASE rest.todo = <<>>
    BY <2>1, <2>2, <2>3, <2>4
  <2>5. CASE rest.todo # <<>>
    BY <2>1, <2>5
  <2>. QED
    BY <2>4, <2>5
<1>6. /\ kind \in {"rejected", "taken", "resolve"}
      /\ kind = "resolve" => Tail(f.todo) = <<>>
      /\ Tail(f.todo) # <<>> => Tail(f.todo) \in Todos /\ Head(Tail(f.todo)) # "rejected"
  <2>1. CASE f.todo = <<"rejected", "taken", "resolve">>
    <3>1. kind = "rejected" /\ Tail(f.todo) = <<"taken", "resolve">>
      BY <2>1
    <3>2. <<"taken", "resolve">> \in Todos /\ Head(<<"taken", "resolve">>) # "rejected"
      BY DEF Todos
    <3>. QED
      BY <3>1, <3>2
  <2>2. CASE f.todo = <<"rejected", "resolve">>
    <3>1. kind = "rejected" /\ Tail(f.todo) = <<"resolve">>
      BY <2>2
    <3>2. <<"resolve">> \in Todos /\ Head(<<"resolve">>) # "rejected"
      BY DEF Todos
    <3>. QED
      BY <3>1, <3>2
  <2>3. CASE f.todo = <<"taken", "resolve">>
    <3>1. kind = "taken" /\ Tail(f.todo) = <<"resolve">>
      BY <2>3
    <3>2. <<"resolve">> \in Todos /\ Head(<<"resolve">>) # "rejected"
      BY DEF Todos
    <3>. QED
      BY <3>1, <3>2
  <2>4. CASE f.todo = <<"resolve">>
    <3>1. kind = "resolve" /\ Tail(f.todo) = <<>>
      BY <2>4
    <3>. QED
      BY <3>1
  <2>. QED
    BY <1>4, <2>1, <2>2, <2>3, <2>4 DEF Todos
<1>7. TodoFits(g)
  BY <1>5, <1>6 DEF TodoFits
<1>8. HoldFits'
  BY <1>1, <1>3, <1>5, HoldStays
<1>9. status[r] = "running" /\ e \in Executions /\ e \in DOMAIN status /\ e \in Spans /\ status[e] # "running"
  BY <1>1, <1>2, <1>3, VisitIs DEF VisitFits, IsExecution
<1>10. \A T : OpenAround(obs, r, T)
  BY <1>2, <1>9, OpenAbove
<1>11. CASE kind = "resolve"
  <2>1. \A i \in DOMAIN obs.log : MarkOf(obs.log[i].kind) = "end" => ~Within(r, obs.log[i].span)
    BY <1>2, <1>9, OpenAbove
  <2>2. Ordered(obs') /\ \A s : s # r => KeepsOrderOf(obs, obs', s)
    BY <1>1, <1>2, <1>3, <1>11, <2>1, TellResolvedOrdered
  <2>3. RunOrder(obs', r, g)
    BY <1>5, <1>6, <1>11 DEF RunOrder
  <2>. QED
    BY <1>3, <1>5, <1>7, <1>8, <2>2, <2>3, FlowOrder
<1>12. CASE kind # "resolve"
  <2>1. f.decision.taken \in {"none", "rewind", "skip", "fail"} /\ kind \in {"rejected", "taken"}
    BY <1>2, <1>6, <1>12 DEF Flows, Decisions
  <2>2. obs' = TellDecision(obs, r, kind, f.decision.taken)
    BY <1>3, <1>12
  <2>3. /\ TopOf(r, e) /\ LatestAt(obs, r, e, Place(obs)) /\ UnresolvedAt(obs, e, Place(obs))
        /\ kind = "rejected" => UntakenAt(obs, r, e, Place(obs))
    BY <1>3, <1>4 DEF RunOrder, InVisit
  <2>4. ~Untold(e)
    <3>. SUFFICES ASSUME e = held, e # NoSpan PROVE FALSE
      BY <1>9 DEF Untold
    <3>1. Parent(e) = RootRun
      BY <1>1, HeldIs
    <3>2. r = RootRun
      BY <2>3, <3>1 DEF TopOf
    <3>3. HeldFits
      BY <1>1, FlowIs
    <3>. QED
      BY <1>3, <3>2, <3>3 DEF HeldFits
  <2>5. Decided(obs, r, e, kind)
    BY <1>9, <2>3, <2>4, InvCovers DEF Decided
  <2>6. /\ Ordered(obs') /\ \A s : s # r => KeepsOrderOf(obs, obs', s)
        /\ \A h : /\ h.last = e /\ h.phase = "decided"
                  /\ Head(h.todo) = "rejected" => kind = "rejected" /\ UntakenAt(obs, r, e, Place(obs))
                  => RunOrder(obs', r, h)
    <3>. HIDE DEF f, e, kind
    <3>. QED
      BY <1>1, <1>2, <1>9, <1>10, <2>1, <2>2, <2>5, TellDecisionOrdered
  <2>7. RunOrder(obs', r, g)
    <3>1. CASE Tail(f.todo) = <<>>
      BY <1>5, <3>1 DEF RunOrder
    <3>2. CASE Tail(f.todo) # <<>>
      BY <1>5, <1>6, <2>6, <3>2
    <3>. QED
      BY <3>1, <3>2
  <2>. QED
    BY <1>3, <1>5, <1>7, <1>8, <2>6, <2>7, FlowOrder
<1>. QED
  BY <1>11, <1>12

\* A run ends.
LEMMA RunEndOrder ==
  ASSUME ObservationInv, OrderInv, NEW r \in DOMAIN flow, RunEnds(r)
  PROVE  OrderInv'
<1>1. StructureInv /\ world \in Worlds /\ obs \in ObsRecords /\ Ordered(obs) /\ flow[r] \in Flows /\ r \in DOMAIN status
  BY SpokenStarted, FlowIs DEF OrderInv
<1>2. IsRun(r) /\ r \in Spans
  BY <1>1, RunEndAccounts
<1>3. flow[r].phase = "ended" /\ UNCHANGED <<world, held>> /\ flow' = [flow EXCEPT ![r].phase = "done"]
  BY DEF RunEnds
<1>4. PICK text : text \subseteq TextOf(r) /\ obs' = TellRunFinished(obs, r, text)
  BY DEF RunEnds, TextOf
<1>5. text \in SUBSET Key
  BY <1>1, <1>2, <1>4, TextIs
<1>6. status[r] = "running"
  BY <1>1, <1>3, NoneRunning
<1>7. \A i \in DOMAIN obs.log : MarkOf(obs.log[i].kind) = "end" => ~Within(r, obs.log[i].span)
  BY <1>1, <1>6, OpenAbove
<1>8. Ordered(obs') /\ \A s : s # r => KeepsOrderOf(obs, obs', s)
  BY <1>1, <1>2, <1>4, <1>5, <1>7, TellRunFinishedOrdered
<1>9. PICK g : flow' = [flow EXCEPT ![r] = g] /\ g.phase = "done"
  <2>. DEFINE h == [flow[r] EXCEPT !.phase = "done"]
  <2>1. flow' = [flow EXCEPT ![r] = h] /\ h.phase = "done"
    BY <1>1, <1>3 DEF Flows
  <2>. HIDE DEF h
  <2>. QED
    BY <2>1
<1>10. RunOrder(obs', r, g) /\ TodoFits(g)
  BY <1>9 DEF RunOrder, TodoFits, InVisit
<1>11. HoldFits'
  BY <1>1, <1>3, <1>9, HoldStays
<1>. QED
  BY <1>3, <1>8, <1>9, <1>10, <1>11, FlowOrder

\* Nothing has been told before anything starts.
LEMMA InitOrdered == Init => OrderInv
<1>. SUFFICES ASSUME Init
              PROVE  OrderInv
  OBVIOUS
<1>1. /\ world \in Worlds /\ status = <<>> /\ flow = <<>> /\ held = NoSpan /\ kept = {} /\ decided = <<>>
      /\ obs = [log |-> <<>>, pending |-> {}, memory |-> {}]
  BY DEF Init
<1>2. DOMAIN flow = {} /\ DOMAIN obs.log = {} /\ obs.pending = {}
  BY <1>1
<1>3. Ordered(obs)
  BY <1>2 DEF Ordered, BeginsFirst, EndsLast, StepsEnd, DecisionsAfter, ToAudience, PendFits
<1>4. HoldFits
  BY <1>1 DEF HoldFits
<1>. QED
  BY <1>2, <1>3, <1>4 DEF OrderInv

\* Every step keeps the order.
LEMMA NextOrdered ==
  ASSUME ObservationInv, OrderInv, [Next]_vars
  PROVE  OrderInv'
<1>1. CASE RunStarts(RootRun)
  BY <1>1, RunStartOrder
<1>2. ASSUME NEW e \in Executions, StepOf(e) \in ProgramSteps, RunStarts(NestedRun(e))
      PROVE  OrderInv'
  BY <1>2, RunStartOrder
<1>3. ASSUME NEW e \in Executions, NEW c \in Children[StepOf(e)], ChildStarts(e, c)
      PROVE  OrderInv'
  BY <1>3, ChildStartOrder
<1>4. ASSUME NEW e \in Executions, ChildEnds(e)
      PROVE  OrderInv'
  BY <1>4, ChildEndOrder
<1>5. ASSUME NEW r \in DOMAIN flow, StepStarts(r) \/ AttemptStarts(r)
      PROVE  OrderInv'
  BY <1>5, FlowStartOrder
<1>6. ASSUME NEW r \in DOMAIN flow, StepEnds(r)
      PROVE  OrderInv'
  BY <1>6, StepEndOrder
<1>7. ASSUME NEW r \in DOMAIN flow, AttemptSucceeds(r)
      PROVE  OrderInv'
  BY <1>7, AttemptSucceedsOrder
<1>8. ASSUME NEW r \in DOMAIN flow, AttemptFails(r)
      PROVE  OrderInv'
  BY <1>8, AttemptFailsOrder
<1>9. ASSUME NEW r \in DOMAIN flow, CacheHit(r)
      PROVE  OrderInv'
  BY <1>9, CacheHitOrder
<1>10. ASSUME NEW r \in DOMAIN flow, ResultDropped(r)
       PROVE  OrderInv'
  BY <1>10, ResultDroppedOrder
<1>11. ASSUME NEW r \in DOMAIN flow, Commits(r) \/ WrapperFails(r)
       PROVE  OrderInv'
  BY <1>11, ReleasedOrder
<1>12. ASSUME NEW r \in DOMAIN flow, TransitionFails(r)
       PROVE  OrderInv'
  BY <1>12, TransitionFailsOrder
<1>13. ASSUME NEW r \in DOMAIN flow, MergeFails(r)
       PROVE  OrderInv'
  BY <1>13, MergeFailsOrder
<1>14. ASSUME NEW r \in DOMAIN flow, Tells(r)
       PROVE  OrderInv'
  BY <1>14, TellsOrder
<1>15. ASSUME NEW r \in DOMAIN flow, RunEnds(r)
       PROVE  OrderInv'
  BY <1>15, RunEndOrder
<1>16. CASE Terminated \/ UNCHANGED vars
  BY <1>16, NothingOrdered, StillOrder DEF Terminated, vars
<1>. QED
  BY <1>1, <1>2, <1>3, <1>4, <1>5, <1>6, <1>7, <1>8, <1>9, <1>10, <1>11, <1>12, <1>13, <1>14, <1>15, <1>16
  DEF Next

-----------------------------------------------------------------------------
(* What one observer saw, once the run is over.                              *)

\* Nothing waits to be told.
LEMMA EndedToldAll ==
  ASSUME ObservationInv, RunEnded
  PROVE  \A x \in DOMAIN status : ~Untold(x)
<1>1. StructureInv /\ TypeInv /\ SpansFit /\ RootRun \in DOMAIN status /\ status[RootRun] # "running"
  BY SpokenStarted DEF RunEnded
<1>2. ASSUME NEW x \in DOMAIN status PROVE status[x] # "running"
  <2>1. x \in Spans
    BY <1>1 DEF TypeInv
  <2>2. Within(x, RootRun)
    BY <2>1, WithinRoot
  <2>. QED
    BY <1>1, <2>2 DEF SpansFit
<1>3. held = NoSpan
  <2>. SUFFICES ASSUME held # NoSpan PROVE FALSE
    OBVIOUS
  <2>1. held \in Executions /\ Parent(held) = RootRun
    BY <1>1, HeldIs
  <2>2. status[RootRun] = "running"
    BY <2>1, ParentRuns DEF Untold
  <2>. QED
    BY <1>1, <2>2
<1>. QED
  BY <1>2, <1>3 DEF Untold

\* An observer of a span saw it start once and end once, in this order.
SawOnce(I, x, b, c) ==
  /\ Begun(I, x) = {b} /\ Over(I, x) = {c} /\ b < c
  /\ b \in Marked(obs, "begin", x) /\ c \in Marked(obs, "end", x)

\* Once the run is over, every observer of a span saw it so.
LEMMA SeenOnce ==
  ASSUME ObservationInv, OrderInv, RunEnded, NEW o, NEW I, I = DeliveredTo(o),
         NEW x \in DOMAIN status, o \in Audience(x)
  PROVE  \E b, c \in I : SawOnce(I, x, b, c)
<1>1. obs \in ObsRecords /\ Ordered(obs) /\ AudienceTold /\ ~Untold(x)
  BY SpokenStarted, EndedToldAll DEF OrderInv, ObservationInv, ToldInv
<1>. DEFINE B == Begun(DOMAIN obs.log, x)
            C == Over(DOMAIN obs.log, x)
<1>2. Told(B, Audience(x)) /\ Told(C, Audience(x))
  BY <1>1 DEF AudienceTold, Untold
<1>3. /\ B = Marked(obs, "begin", x) /\ C = Marked(obs, "end", x)
      /\ Begun(I, x) = {i \in B : o \in obs.log[i].to} /\ Over(I, x) = {i \in C : o \in obs.log[i].to}
      /\ B \subseteq DOMAIN obs.log /\ C \subseteq DOMAIN obs.log
  BY DEF Begun, Over, Places, Marked, MarkOf, DeliveredTo
<1>. HIDE DEF B, C
<1>4. PICK b \in B : o \in obs.log[b].to
  BY <1>2 DEF Told
<1>5. PICK c \in C : o \in obs.log[c].to
  BY <1>2 DEF Told
<1>6. Begun(I, x) = {b}
  BY <1>2, <1>3, <1>4 DEF Told
<1>7. Over(I, x) = {c}
  BY <1>2, <1>3, <1>5 DEF Told
<1>8. b \in I /\ c \in I
  BY <1>3, <1>4, <1>5 DEF DeliveredTo
<1>9. b \in Nat /\ c \in Nat /\ x \in Spans
  <2>1. TypeInv
    BY SpokenStarted
  <2>. QED
    BY <1>1, <1>3, <1>4, <1>5, <2>1, LogIs DEF TypeInv
<1>10. /\ MarkOf(obs.log[b].kind) = "begin" /\ MarkOf(obs.log[c].kind) = "end"
       /\ obs.log[b].span = x /\ obs.log[c].span = x
  BY <1>3 DEF Marked
<1>11. b < c
  <2>1. b # c
    BY <1>10
  <2>2. ~(c < b)
    <3>. SUFFICES ASSUME c < b PROVE FALSE
      OBVIOUS
    <3>1. Within(x, x)
      BY <1>9, WithinSelf
    <3>2. BeginsFirst(obs)
      BY <1>1 DEF Ordered
    <3>. QED
      BY <1>3, <1>10, <3>1, <3>2 DEF BeginsFirst
  <2>. QED
    BY <1>9, <2>1, <2>2
<1>. QED
  BY <1>3, <1>6, <1>7, <1>8, <1>11 DEF SawOnce

\* What an observer saw it was in the audience of.
LEMMA SeenIs ==
  ASSUME ObservationInv, OrderInv, NEW o, NEW I, I = DeliveredTo(o)
  PROVE  /\ \A i \in I : /\ i \in DOMAIN obs.log /\ i \in Nat /\ o \in obs.log[i].to
                         /\ obs.log[i].span \in DOMAIN status /\ obs.log[i].span \in Spans
                         /\ o \in Audience(obs.log[i].span)
         /\ \A x \in Seen(I) : x \in DOMAIN status /\ x \in Spans /\ o \in Audience(x)
<1>1. obs \in ObsRecords /\ ToAudience(obs)
  BY SpokenStarted DEF OrderInv, Ordered
<1>2. ASSUME NEW i \in I
      PROVE  /\ i \in DOMAIN obs.log /\ i \in Nat /\ o \in obs.log[i].to
             /\ obs.log[i].span \in DOMAIN status /\ obs.log[i].span \in Spans
             /\ o \in Audience(obs.log[i].span)
  <2>1. i \in DOMAIN obs.log /\ o \in obs.log[i].to
    BY DEF DeliveredTo
  <2>. QED
    BY <1>1, <2>1, LogIs, SpokenStarted DEF ToAudience
<1>. QED
  BY <1>2 DEF Seen

\* What an observer saw nests.
LEMMA NestedSeen ==
  ASSUME ObservationInv, OrderInv, RunEnded, NEW o, NEW I, I = DeliveredTo(o)
  PROVE  SpansNest(I)
<1>1. BeginsFirst(obs) /\ EndsLast(obs)
  BY DEF OrderInv, Ordered
<1>2. \A x \in Seen(I) : x \in DOMAIN status /\ x \in Spans /\ o \in Audience(x)
  BY SeenIs
<1>3. \A i \in I : i \in DOMAIN obs.log /\ i \in Nat /\ o \in obs.log[i].to
  BY SeenIs
<1>4. ASSUME NEW x \in Seen(I), NEW b \in I, NEW c \in I, SawOnce(I, x, b, c)
      PROVE  /\ Begun(I, x) = {b} /\ Over(I, x) = {c} /\ b < c /\ b \in Nat /\ c \in Nat
             /\ b \in DOMAIN obs.log /\ c \in DOMAIN obs.log
             /\ MarkOf(obs.log[b].kind) = "begin" /\ MarkOf(obs.log[c].kind) = "end"
             /\ obs.log[b].span = x /\ obs.log[c].span = x
  BY <1>3, <1>4 DEF SawOnce, Marked
<1>5. ASSUME NEW x \in Seen(I)
      PROVE  /\ Cardinality(Begun(I, x)) = 1 /\ Cardinality(Over(I, x)) <= 1
             /\ AllBefore(Begun(I, x), Over(I, x))
  <2>1. PICK b, c \in I : SawOnce(I, x, b, c)
    BY <1>2, SeenOnce
  <2>2. Begun(I, x) = {b} /\ Over(I, x) = {c} /\ b < c
    BY <1>4, <2>1
  <2>3. Cardinality({b}) = 1 /\ Cardinality({c}) = 1
    BY FS_Singleton
  <2>. QED
    BY <2>2, <2>3 DEF AllBefore
<1>6. ASSUME NEW x \in Seen(I), NEW y \in Seen(I), Within(y, x), y # x
      PROVE  /\ AllBefore(Begun(I, x), Begun(I, y))
             /\ AllBefore(Over(I, y) \cup ResolvedAt(I, y), Over(I, x))
             /\ Over(I, x) # {} => Over(I, y) # {}
  <2>1. PICK b, c \in I : SawOnce(I, x, b, c)
    BY <1>2, SeenOnce
  <2>2. PICK d, e \in I : SawOnce(I, y, d, e)
    BY <1>2, SeenOnce
  <2>3. /\ Begun(I, x) = {b} /\ Over(I, x) = {c} /\ b \in Nat /\ c \in Nat
        /\ b \in DOMAIN obs.log /\ c \in DOMAIN obs.log
        /\ MarkOf(obs.log[b].kind) = "begin" /\ MarkOf(obs.log[c].kind) = "end"
        /\ obs.log[b].span = x /\ obs.log[c].span = x
    BY <1>4, <2>1
  <2>4. /\ Begun(I, y) = {d} /\ Over(I, y) = {e} /\ d \in Nat /\ e \in Nat
        /\ d \in DOMAIN obs.log /\ obs.log[d].span = y /\ obs.log[e].span = y
    BY <1>4, <2>2
  <2>5. b < d
    <3>1. ~(d < b)
      BY <1>1, <1>6, <2>3, <2>4 DEF BeginsFirst
    <3>. QED
      BY <1>6, <2>3, <2>4, <3>1
  <2>6. ASSUME NEW k \in Over(I, y) \cup ResolvedAt(I, y) PROVE k < c
    <3>1. k \in I /\ obs.log[k].span = y
      BY DEF Over, ResolvedAt, Places
    <3>2. k \in DOMAIN obs.log /\ k \in Nat /\ o \in obs.log[k].to /\ o \in obs.log[c].to
      BY <1>3, <3>1
    <3>3. ~(c < k)
      BY <1>1, <1>6, <2>3, <3>1, <3>2 DEF EndsLast, Around
    <3>. QED
      BY <1>6, <2>3, <3>1, <3>2, <3>3
  <2>. QED
    BY <2>3, <2>4, <2>5, <2>6 DEF AllBefore
<1>. QED
  BY <1>5, <1>6 DEF SpansNest

\* A top-level execution was seen to end before the next was seen to start.
LEMMA StepsSeen ==
  ASSUME ObservationInv, OrderInv, RunEnded, InOneWrapper, NEW o, NEW I, I = DeliveredTo(o)
  PROVE  StepsFollow(I)
<1>1. StepsEnd(obs)
  BY DEF OrderInv, Ordered
<1>. SUFFICES ASSUME NEW e \in Seen(I), ~IsRun(e), TopLevel(e), NEW f \in Later(I, e)
              PROVE  Over(I, e) # {} /\ AllBefore(Over(I, e), Begun(I, f))
  BY DEF StepsFollow
<1>2. f \in Seen(I) /\ ~IsRun(f) /\ Parent(f) = Parent(e) /\ \E i \in Begun(I, e), j \in Begun(I, f) : i < j
  BY DEF Later
<1>3. \A x \in {e, f} : x \in DOMAIN status /\ x \in Spans /\ o \in Audience(x)
  BY <1>2, SeenIs
<1>4. PICK b, c \in I : SawOnce(I, e, b, c)
  BY <1>3, SeenOnce
<1>5. PICK d, k \in I : SawOnce(I, f, d, k)
  BY <1>3, SeenOnce
<1>6. b < d
  BY <1>2, <1>4, <1>5 DEF SawOnce
<1>7. b \in Nat /\ d \in Nat /\ b \in DOMAIN obs.log /\ d \in DOMAIN obs.log
  BY SeenIs
<1>8. e # f
  BY <1>4, <1>5, <1>6, <1>7 DEF SawOnce
<1>9. Parent(e) \in Spans /\ TopOf(Parent(e), e) /\ TopOf(Parent(e), f)
  <2>1. TopOf(Parent(e), e) /\ TopOf(Parent(e), f)
    BY <1>2 DEF TopOf, TopLevel
  <2>. QED
    BY <1>3, <2>1, TopIs
<1>10. /\ MarkOf(obs.log[b].kind) = "begin" /\ obs.log[b].span = e
       /\ MarkOf(obs.log[d].kind) = "begin" /\ obs.log[d].span = f
  BY <1>4, <1>5 DEF SawOnce, Marked
<1>11. CoveredBefore(obs, "end", e, d)
  BY <1>1, <1>6, <1>7, <1>8, <1>9, <1>10 DEF StepsEnd
<1>12. PICK m \in Marked(obs, "end", e) : m < d /\ o \in obs.log[m].to
  BY <1>3, <1>11 DEF CoveredBefore
<1>13. m \in Over(I, e)
  BY <1>12 DEF Over, Places, Marked, MarkOf, DeliveredTo
<1>. QED
  BY <1>4, <1>5, <1>12, <1>13 DEF SawOnce, AllBefore

\* Decisions were seen between the end of the execution they are on and its resolution.
LEMMA DecisionsSeen ==
  ASSUME ObservationInv, OrderInv, RunEnded, NEW o, NEW I, I = DeliveredTo(o)
  PROVE  DecisionsFollow(I)
<1>. DEFINE
       TopsAt(i) == {x \in Seen(I) : ~ IsRun(x) /\ Parent(x) = obs.log[i].span
                                   /\ \E j \in Begun(I, x) : j < i}
       LatestTop(i) == CHOOSE x \in TopsAt(i) : \A y \in TopsAt(i) : AllBefore(Begun(I, y), Begun(I, x)) \/ x = y
<1>. SUFFICES ASSUME NEW i \in I, obs.log[i].kind \in {"taken", "rejected"}
              PROVE  /\ TopsAt(i) # {}
                     /\ Over(I, LatestTop(i)) # {} /\ AllBefore(Over(I, LatestTop(i)), {i})
                     /\ AllBefore({i}, ResolvedAt(I, LatestTop(i)))
                     /\ obs.log[i].kind = "rejected" => \A j \in Places(I, {"taken"}, obs.log[i].span) :
                          ~ (j < i /\ AllBefore(Begun(I, LatestTop(i)), {j}))
  BY Zenon DEF DecisionsFollow
<1>. DEFINE r == obs.log[i].span
            tops == TopsAt(i)
            last == LatestTop(i)
<1>0. /\ r = obs.log[i].span
      /\ tops = {x \in Seen(I) : ~ IsRun(x) /\ Parent(x) = r /\ \E j \in Begun(I, x) : j < i}
      /\ last = CHOOSE x \in tops : \A y \in tops : AllBefore(Begun(I, y), Begun(I, x)) \/ x = y
  BY Zenon
<1>. SUFFICES /\ tops # {}
              /\ Over(I, last) # {} /\ AllBefore(Over(I, last), {i})
              /\ AllBefore({i}, ResolvedAt(I, last))
              /\ obs.log[i].kind = "rejected" => \A j \in Places(I, {"taken"}, r) :
                   ~ (j < i /\ AllBefore(Begun(I, last), {j}))
  BY Zenon
<1>. HIDE DEF TopsAt, LatestTop, r, tops, last
<1>. USE <1>0
<1>1. i \in DOMAIN obs.log /\ i \in Nat /\ o \in obs.log[i].to /\ r \in Spans /\ r \in DOMAIN status /\ o \in Audience(r)
  BY SeenIs
<1>2. PICK e \in Spans : DecisionOf(obs, i, e)
  BY <1>1 DEF OrderInv, Ordered, DecisionsAfter, Decisive
<1>3. /\ TopOf(r, e) /\ CoveredBefore(obs, "begin", e, i) /\ CoveredBefore(obs, "end", e, i)
      /\ LatestAt(obs, r, e, i) /\ UnresolvedAt(obs, e, i)
      /\ obs.log[i].kind = "rejected" => UntakenAt(obs, r, e, i)
  BY <1>2 DEF DecisionOf
<1>4. o \in Audience(e)
  <2>1. Audience(e) = Watchers(r) /\ IsRun(r)
    BY <1>3, TopIs DEF TopOf
  <2>. QED
    BY <1>1, <2>1, AudienceIs DEF At
<1>5. PICK m \in Marked(obs, "begin", e) : m < i /\ o \in obs.log[m].to
  BY <1>3, <1>4 DEF CoveredBefore
<1>6. PICK n \in Marked(obs, "end", e) : n < i /\ o \in obs.log[n].to
  BY <1>3, <1>4 DEF CoveredBefore
<1>7. m \in I /\ obs.log[m].span = e /\ m \in Begun(I, e) /\ n \in Over(I, e)
  BY <1>5, <1>6 DEF DeliveredTo, Marked, Begun, Over, Places, MarkOf
<1>8. e \in Seen(I) /\ e \in DOMAIN status
  BY <1>7, SeenIs DEF Seen
<1>9. PICK b, c \in I : SawOnce(I, e, b, c)
  BY <1>4, <1>8, SeenOnce
<1>10. b = m /\ c = n /\ b \in Nat /\ c \in Nat
  BY <1>7, <1>9, SeenIs DEF SawOnce
<1>11. e \in tops
  BY <1>3, <1>5, <1>7, <1>8 DEF TopOf
<1>12. ASSUME NEW y \in tops, y # e
       PROVE  \E d \in Nat : Begun(I, y) = {d} /\ d < b
  <2>1. y \in Seen(I) /\ ~IsRun(y) /\ Parent(y) = r /\ \E j \in Begun(I, y) : j < i
    OBVIOUS
  <2>2. y \in DOMAIN status /\ o \in Audience(y)
    BY <2>1, SeenIs
  <2>3. PICK d, k \in I : SawOnce(I, y, d, k)
    BY <2>2, SeenOnce
  <2>4. Begun(I, y) = {d} /\ d < i /\ d \in DOMAIN obs.log /\ d \in Nat
    BY <2>1, <2>3, SeenIs DEF SawOnce
  <2>5. MarkOf(obs.log[d].kind) = "begin" /\ obs.log[d].span = y
    BY <2>3 DEF SawOnce, Marked
  <2>6. TopOf(r, y)
    BY <1>3, <2>1 DEF TopOf
  <2>7. d < b
    BY <1>3, <1>5, <1>10, <1>12, <2>4, <2>5, <2>6 DEF LatestAt
  <2>. QED
    BY <2>4, <2>7
<1>13. Begun(I, e) = {b} /\ Over(I, e) = {c}
  BY <1>9 DEF SawOnce
<1>14. \A y \in tops : AllBefore(Begun(I, y), Begun(I, e)) \/ e = y
  BY <1>12, <1>13 DEF AllBefore
<1>15. last \in tops /\ \A y \in tops : AllBefore(Begun(I, y), Begun(I, last)) \/ last = y
  BY <1>11, <1>14
<1>16. last = e
  <2>. SUFFICES ASSUME last # e PROVE FALSE
    OBVIOUS
  <2>1. PICK d \in Nat : Begun(I, last) = {d} /\ d < b
    BY <1>12, <1>15
  <2>2. b < d
    BY <1>11, <1>13, <1>15, <2>1 DEF AllBefore
  <2>. QED
    BY <1>10, <2>1, <2>2
<1>17. AllBefore(Over(I, e), {i})
  BY <1>6, <1>10, <1>13 DEF AllBefore
<1>18. AllBefore({i}, ResolvedAt(I, e))
  <2>. SUFFICES ASSUME NEW j \in ResolvedAt(I, e) PROVE i < j
    BY DEF AllBefore
  <2>1. j \in I /\ obs.log[j].kind = "resolved" /\ obs.log[j].span = e
    BY DEF ResolvedAt, Places
  <2>2. j \in DOMAIN obs.log /\ j \in Nat
    BY <2>1, SeenIs
  <2>3. ~(j < i)
    BY <1>3, <2>1, <2>2 DEF UnresolvedAt
  <2>. QED
    BY <1>1, <2>1, <2>2, <2>3
<1>19. ASSUME obs.log[i].kind = "rejected", NEW j \in Places(I, {"taken"}, r), j < i, AllBefore(Begun(I, e), {j})
       PROVE  FALSE
  <2>1. j \in I /\ obs.log[j].kind = "taken" /\ obs.log[j].span = r
    BY DEF Places
  <2>2. j \in DOMAIN obs.log /\ j \in Nat
    BY <2>1, SeenIs
  <2>3. j < b
    BY <1>3, <1>5, <1>10, <1>19, <2>1, <2>2 DEF UntakenAt
  <2>4. b < j
    BY <1>13, <1>19 DEF AllBefore
  <2>. QED
    BY <1>10, <2>2, <2>3, <2>4
<1>. QED
  BY <1>11, <1>13, <1>16, <1>17, <1>18, <1>19

\* Each observer is told in order, whatever runs side by side, of steps that stand in at most one
\* wrapper: spans nest, a top-level execution ends before the next starts, and its transitions
\* follow its end and come before its resolution.
THEOREM EventsAlwaysInOrder == Spec => []EventsInOrder
<1>1. Init => ObservationInv /\ OrderInv
  BY InitKept, InitOrdered
<1>2. (ObservationInv /\ OrderInv) /\ [Next]_vars => (ObservationInv /\ OrderInv)'
  <2>. SUFFICES ASSUME ObservationInv, OrderInv, [Next]_vars PROVE ObservationInv' /\ OrderInv'
    OBVIOUS
  <2>. QED
    BY NextKept, NextOrdered
<1>3. ObservationInv /\ OrderInv => EventsInOrder
  BY NestedSeen, StepsSeen, DecisionsSeen DEF EventsInOrder
<1>. QED
  BY <1>1, <1>2, <1>3, PTL DEF Spec
=============================================================================
