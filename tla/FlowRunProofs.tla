--------------------------- MODULE FlowRunProofs ---------------------------
(***************************************************************************)
(* For every set of pipelines that Build accepts: the state of a run is    *)
(* what the visits that stand wrote, rewinds are taken back exactly, work  *)
(* that was dropped is gone, and what Build promises of reads and merges   *)
(* holds.  The operators of the inductive invariant take the pipeline p    *)
(* and the parts of the state they speak of as arguments.                  *)
(***************************************************************************)
EXTENDS FlowRun, ProofLemmas

-----------------------------------------------------------------------------
(* What a state holds, given the visits S that stand. *)

Writers(S, key) == {c \in S : key \in c.writes}

\* m holds key as the visits of S wrote it: the combination of their writes, or the input or the
\* Default when none wrote it.
Holds(p, m, S, key) ==
  /\ key \in DOMAIN m.values <=> Writers(S, key) # {} \/ key \in p.inputs \union p.defaults
  /\ key \in DOMAIN m.values => m.values[key] = {c.by : c \in Writers(S, key)}
  /\ key \in m.defaulted <=> Writers(S, key) = {} /\ key \in p.defaults

Fits(p, m, S) == \A key : Holds(p, m, S, key)

\* The writes w are some that step i may make.
MayWrite(p, i, w) == w \subseteq p.writes[i] /\ p.writes[i] \ p.preserves[i] \subseteq w

\* At most one visit of each step stands, and what it wrote is what its step may write.
StandingOK(p, S) ==
  /\ \A c \in S : c.id.step \in Steps(p) /\ MayWrite(p, c.id.step, c.writes)
  /\ \A c, d \in S : c.id.step = d.id.step => c = d

\* A visit of step i is one of S.
Has(S, i) == \E c \in S : c.id.step = i

Before(S, i) == {c \in S : c.id.step < i}

Outside(S, r) == {c \in S : c.id.step \notin r.to..r.from}

-----------------------------------------------------------------------------
(* How a run gets to a step. *)

\* Each step before i either may be without a write or has a visit that stands.
CoveredTo(p, S, i) == \A j \in 1..(i - 1) : MayNotWrite(p, j) \/ Has(S, j)

\* The run may have gone on from each step of S to a step at or before i, or landed between.
Arrived(p, S, i) ==
  \A c \in S : \/ \E to \in Continuations(p, c.id.step) : to <= i
               \/ \E t \in Targets(p) : c.id.step < t /\ t <= i

\* The visits of S are those that stand as the run gets to step i.  A run that failed back may
\* have gone on from a step as if the visit of it that stands had failed.
Reached(p, S, i, failedBack) ==
  /\ \A c \in S : c.id.step < i
  /\ CoveredTo(p, S, i)
  /\ failedBack \/ Arrived(p, S, i)

\* Going on from step i by rule k, or past it when k is 0, is one of its Continuations.
Onward(p, i, k) ==
  IF k = 0 THEN \A j \in SuccessRules(p, i) : Rewind(p.rules[j]) \/ ~p.rules[j].always
  ELSE /\ k \in SuccessRules(p, i)
       /\ \/ Rewind(p.rules[k])
          \/ \A j \in SuccessRules(p, i) : j < k => Rewind(p.rules[j]) \/ ~p.rules[j].always

-----------------------------------------------------------------------------
(* The inductive invariant. *)

IsFunction(f) == f = [x \in DOMAIN f |-> f[x]]

SnapshotShape(m) == m = [values |-> m.values, defaulted |-> m.defaulted] /\ IsFunction(m.values)

RewindShape(p, r) ==
  /\ r = [on |-> r.on, rule |-> r.rule, prev |-> r.prev, amended |-> r.amended, stage |-> r.stage,
          replaced |-> r.replaced]
  /\ SnapshotShape(r.prev) /\ IsFunction(r.replaced)
  /\ r.on \in BOOLEAN
  /\ r.on => r.rule \in Rewinds(p)

StoreShape(p, s) ==
  /\ s = [values |-> s.values, defaulted |-> s.defaulted, cache |-> s.cache, memory |-> s.memory,
          rewind |-> s.rewind]
  /\ IsFunction(s.values) /\ IsFunction(s.cache)
  /\ RewindShape(p, s.rewind)

VisitShape(v) ==
  v = [amended |-> v.amended, failed |-> v.failed, rule |-> v.rule, verdict |-> v.verdict,
       maxed |-> v.maxed, amends |-> v.amends, writes |-> v.writes, by |-> v.by,
       restorable |-> v.restorable, exhausted |-> v.exhausted, tried |-> v.tried,
       matched |-> v.matched]

KeptShape(h) ==
  /\ h = [standing |-> h.standing, dropped |-> h.dropped, committed |-> h.committed,
          rejections |-> h.rejections, failedBack |-> h.failedBack, taken |-> h.taken]
  /\ h.taken = [state |-> h.taken.state, cache |-> h.taken.cache, standing |-> h.taken.standing,
                visits |-> h.taken.visits]
  /\ SnapshotShape(h.taken.state) /\ IsFunction(h.taken.cache)
  /\ h.rejections \in Nat /\ h.failedBack \in BOOLEAN

BeforeShape(p, b) ==
  /\ b = [i \in Steps(p) |-> b[i]]
  /\ \A i \in Steps(p) : SnapshotShape(b[i])

\* What the step cache c serves is something its step may write.
CacheFits(p, c) == \A e \in DOMAIN c : e.step \in Steps(p) /\ MayWrite(p, e.step, c[e].writes)

\* Every variable has its type and every record its fields.
ShapeInv ==
  /\ pipe \in Pipelines
  /\ at \in Steps(pipe)
  /\ visits \in [Steps(pipe) -> Nat]
  /\ BeforeShape(pipe, before)
  /\ StoreShape(pipe, store)
  /\ VisitShape(visit)
  /\ KeptShape(kept)
  /\ pc \in {"next", "step", "succeeded", "failed", "rules", "done"}

\* m and l hold the same at key.
SameAt(m, l, key) ==
  /\ key \in DOMAIN m.values <=> key \in DOMAIN l.values
  /\ key \in DOMAIN m.values => m.values[key] = l.values[key]
  /\ key \in m.defaulted <=> key \in l.defaulted

\* The journal of the rewind has what the step cache held for entry e when the rewind began.
JournalFits(s, cache, e) ==
  IF e \in DOMAIN s.rewind.replaced
  THEN s.rewind.replaced[e] = IF e \in DOMAIN cache THEN {cache[e]} ELSE {}
  ELSE /\ e \in DOMAIN s.cache <=> e \in DOMAIN cache
       /\ e \in DOMAIN cache => s.cache[e] = cache[e]

\* Store s agrees with what held when its rewind began outside the rewind's keys, and has kept
\* what held within.
KeepsWhatHeld(p, s, then) ==
  LET keys == RangeKeys(p, p.rules[s.rewind.rule])
  IN /\ s.rewind.prev = SnapshotOf(then.state, keys)
     /\ \A key : key \notin keys => SameAt(s, then.state, key)
     /\ \A e : JournalFits(s, then.cache, e)

\* What held when the rewind by rule r began, at its From, is a state the run can be in there,
\* and of the visits that stood only those of the range may differ now.
HeldThen(p, r, then, S, failedBack) ==
  /\ CacheFits(p, then.cache)
  /\ Outside(S, r) = Outside(then.standing, r)
  /\ Fits(p, then.state, then.standing)
  /\ StandingOK(p, then.standing)
  /\ \A c \in then.standing : c.id.step <= r.from
  /\ Reached(p, Before(then.standing, r.from), r.from, failedBack)
  /\ r.onError \/ Has(then.standing, r.from)

RewindFits(p, s, h) ==
  /\ KeepsWhatHeld(p, s, h.taken)
  /\ HeldThen(p, p.rules[s.rewind.rule], h.taken, h.standing, h.failedBack)

\* The rewind that is running has the run in its range while a step is visited.
RewindInv ==
  store.rewind.on =>
    /\ RewindFits(pipe, store, kept)
    /\ Running.to <= at /\ pc # "done"
    /\ pc # "next" => at <= Running.from

\* What a rewind by rule r resets its keys to is what the visits before its range wrote.
BeforeFits(p, b, S, r) ==
  \A key \in RangeKeys(p, r) : Holds(p, b[r.to], Before(S, r.to), key)

\* The targets whose range the run is in have been passed.
BeforeInv ==
  pc # "done" => \A k \in Rewinds(pipe) :
    /\ Rule(k).to <= at /\ at <= Rule(k).from
    /\ pc = "next" => Rule(k).to < at
    => BeforeFits(pipe, before, kept.standing, Rule(k))

\* The visits that stand lead to the step the run is at; only a visit that was taken back leaves
\* one of its own step.
StandingInv ==
  /\ StandingOK(pipe, kept.standing)
  /\ pc # "done" => /\ Reached(pipe, Before(kept.standing, at), at, kept.failedBack)
                    /\ \A c \in kept.standing : c.id.step <= at
                    /\ Has(kept.standing, at) => pc = "rules" /\ kept.failedBack

\* A visit that succeeded goes on as Build foresaw, and only rewinds with the hook are judged or
\* restored.
VisitInv ==
  /\ pc = "step" => visit.rule = 0 /\ visit.verdict = "none"
  /\ pc = "succeeded" =>
       /\ MayWrite(pipe, at, visit.writes)
       /\ Onward(pipe, at, visit.rule)
       /\ visit.verdict = "reject" => visit.rule = 0 \/ ~Rewind(Rule(visit.rule))
  /\ pc \in {"succeeded", "failed"} /\ EndsRewind(at) /\ visit.verdict \in {"reject", "panic"} => Running.accept
  /\ pc = "rules" /\ visit.restorable => store.rewind.on /\ Running.restore
  /\ visit.failed = "unmerged" => kept.failedBack

FlowInv ==
  /\ ShapeInv
  /\ Fits(pipe, store, kept.standing)
  /\ CacheFits(pipe, store.cache)
  /\ RewindInv /\ BeforeInv /\ StandingInv /\ VisitInv

-----------------------------------------------------------------------------
(* What Build promises of the rules. *)

\* The rules of an accepted pipeline go from a step to a step, the end or Fail.
LEMMA RuleFacts ==
  ASSUME NEW p \in Pipelines, NEW k \in DOMAIN p.rules
  PROVE  /\ k \in Nat \ {0}
         /\ p.n \in Nat \ {0}
         /\ p.rules[k].from \in 1..p.n
         /\ p.rules[k].to \in 0..(p.n + 1)
         /\ p.rules[k].accept \/ p.rules[k].restore => ~p.rules[k].onError
<1>1. RuleValid(p, p.rules[k]) /\ p.n \in Nat \ {0} /\ DOMAIN p.rules \subseteq Nat \ {0}
  BY PipelinesAssumption DEF Accepted, TransitionsValid
<1>. QED
  BY <1>1 DEF RuleValid, Steps, End, Fail

\* A rewind goes back to a step at or before its From, and rewinds whose ranges meet have the same.
LEMMA RewindFacts ==
  ASSUME NEW p \in Pipelines, NEW j \in Rewinds(p), NEW k \in Rewinds(p)
  PROVE  /\ p.rules[k].to \in 1..p.n /\ p.rules[k].from \in 1..p.n /\ p.rules[k].to <= p.rules[k].from
         /\ p.rules[k].to \in Targets(p)
         /\ \/ p.rules[j].to = p.rules[k].to /\ p.rules[j].from = p.rules[k].from
            \/ p.rules[j].from < p.rules[k].to
            \/ p.rules[k].from < p.rules[j].to
<1>1. k \in DOMAIN p.rules /\ Rewind(p.rules[k])
  BY DEF Rewinds
<1>2. p.rules[k].to \in 1..p.n /\ p.rules[k].from \in 1..p.n /\ p.rules[k].to <= p.rules[k].from
  BY <1>1, RuleFacts DEF Rewind, Fail
<1>3. p.rules[k].to \in Targets(p)
  BY DEF Targets
<1>4. RangesApart(p)
  BY PipelinesAssumption DEF Accepted, TransitionsValid
<1>. QED
  BY <1>2, <1>3, <1>4 DEF RangesApart

-----------------------------------------------------------------------------
(* What the run does to its store, field by field and key by key. *)

\* m is the snapshot of l at keys.
IsSnapshotOf(m, l, keys) ==
  \A key : /\ key \in DOMAIN m.values <=> key \in DOMAIN l.values /\ key \in keys
           /\ key \in DOMAIN m.values => m.values[key] = l.values[key]
           /\ key \in m.defaulted <=> key \in l.defaulted /\ key \in keys

\* e is s with keys as snap holds them.
IsRestored(e, s, snap, keys) ==
  /\ e.cache = s.cache /\ e.memory = s.memory /\ e.rewind = s.rewind
  /\ \A key : /\ key \in keys => SameAt(e, snap, key)
              /\ key \notin keys => SameAt(e, s, key)

\* e is s after visit v committed.
IsCommitted(e, s, v) ==
  /\ e.cache = s.cache
  /\ e.memory = IF s.rewind.on THEN s.memory ELSE s.memory \union {v.by}
  /\ e.rewind.on = s.rewind.on /\ e.rewind.rule = s.rewind.rule /\ e.rewind.prev = s.rewind.prev
  /\ e.rewind.replaced = s.rewind.replaced
  /\ e.rewind.stage = IF s.rewind.on THEN s.rewind.stage \union {v.by} ELSE s.rewind.stage
  /\ \A key : /\ key \notin v.writes => SameAt(e, s, key)
              /\ key \in v.writes =>
                   /\ key \in DOMAIN e.values /\ key \notin e.defaulted
                   /\ e.values[key] = IF key \in DOMAIN s.values \ s.defaulted
                                      THEN s.values[key] \union {v.by} ELSE {v.by}

\* e is s after its rewind ended by being kept.
IsEnded(e, s) ==
  /\ e.values = s.values /\ e.defaulted = s.defaulted /\ e.cache = s.cache
  /\ e.memory = IF s.rewind.on THEN s.memory \union s.rewind.stage ELSE s.memory
  /\ e.rewind = IF s.rewind.on THEN NoRewind ELSE s.rewind
  /\ ~e.rewind.on

\* e is s after result was stored for entry.
IsCached(e, s, entry, result) ==
  /\ e.values = s.values /\ e.defaulted = s.defaulted /\ e.memory = s.memory
  /\ e.rewind.on = s.rewind.on /\ e.rewind.rule = s.rewind.rule
  /\ e.rewind.prev = s.rewind.prev /\ e.rewind.stage = s.rewind.stage
  /\ \A x : /\ x \in DOMAIN e.cache <=> x \in DOMAIN s.cache \/ x = entry
            /\ x \in DOMAIN e.cache => e.cache[x] = IF x = entry THEN result ELSE s.cache[x]
            /\ s.rewind.on =>
                 /\ x \in DOMAIN e.rewind.replaced <=> x \in DOMAIN s.rewind.replaced \/ x = entry
                 /\ x \in DOMAIN e.rewind.replaced =>
                      e.rewind.replaced[x] = IF x \in DOMAIN s.rewind.replaced THEN s.rewind.replaced[x]
                                             ELSE IF x \in DOMAIN s.cache THEN {s.cache[x]} ELSE {}

\* A snapshot of some keys is a snapshot and holds what the state holds of them.
LEMMA SnapshotOfGives ==
  ASSUME NEW s, NEW keys
  PROVE  SnapshotShape(SnapshotOf(s, keys)) /\ IsSnapshotOf(SnapshotOf(s, keys), s, keys)
<1>1. SnapshotShape(SnapshotOf(s, keys))
  BY DEF SnapshotOf, SnapshotShape, IsFunction
<1>2. IsSnapshotOf(SnapshotOf(s, keys), s, keys)
  BY DEF SnapshotOf, IsSnapshotOf
<1>. QED
  BY <1>1, <1>2

\* A commit changes the values and the default marks by what the visit wrote, and stages or
\* keeps its tool writes.
LEMMA CommitGives ==
  ASSUME NEW p, NEW s, NEW v, StoreShape(p, s)
  PROVE  StoreShape(p, Commit(s, v)) /\ IsCommitted(Commit(s, v), s, v)
<1>. DEFINE c == Commit(s, v)
            values == [key \in DOMAIN s.values \union v.writes |->
                         IF key \notin v.writes THEN s.values[key]
                         ELSE IF key \in DOMAIN s.values \ s.defaulted
                              THEN s.values[key] \union {v.by} ELSE {v.by}]
            memory == IF s.rewind.on THEN s.memory ELSE s.memory \union {v.by}
            rewind == IF s.rewind.on THEN [s.rewind EXCEPT !.stage = s.rewind.stage \union {v.by}]
                      ELSE s.rewind
<1>1. DOMAIN s = {"values", "defaulted", "cache", "memory", "rewind"}
  BY DEF StoreShape
<1>2. c = [s EXCEPT !.values = values, !.defaulted = s.defaulted \ v.writes, !.memory = memory,
                    !.rewind = rewind]
  BY DEF Commit
<1>3. /\ rewind.on = s.rewind.on /\ rewind.rule = s.rewind.rule /\ rewind.prev = s.rewind.prev
      /\ rewind.replaced = s.rewind.replaced
      /\ rewind.stage = IF s.rewind.on THEN s.rewind.stage \union {v.by} ELSE s.rewind.stage
      /\ RewindShape(p, rewind)
  BY DEF StoreShape, RewindShape
<1>4. /\ IsFunction(values)
      /\ \A key : /\ key \in DOMAIN values <=> key \in DOMAIN s.values \/ key \in v.writes
                  /\ key \in DOMAIN values =>
                       values[key] = IF key \notin v.writes THEN s.values[key]
                                     ELSE IF key \in DOMAIN s.values \ s.defaulted
                                          THEN s.values[key] \union {v.by} ELSE {v.by}
  BY DEF IsFunction
<1>. HIDE DEF values, memory, rewind, c
<1>5. /\ c.values = values /\ c.defaulted = s.defaulted \ v.writes /\ c.cache = s.cache
      /\ c.memory = memory /\ c.rewind = rewind /\ DOMAIN c = DOMAIN s /\ c = [x \in DOMAIN c |-> c[x]]
  BY <1>1, <1>2
<1>6. c = [values |-> c.values, defaulted |-> c.defaulted, cache |-> c.cache, memory |-> c.memory,
           rewind |-> c.rewind]
  BY <1>1, <1>5
<1>7. StoreShape(p, c)
  BY <1>3, <1>4, <1>5, <1>6 DEF StoreShape
<1>8. IsCommitted(c, s, v)
  <2>1. ASSUME NEW key
        PROVE  /\ key \notin v.writes => SameAt(c, s, key)
               /\ key \in v.writes =>
                    /\ key \in DOMAIN c.values /\ key \notin c.defaulted
                    /\ c.values[key] = IF key \in DOMAIN s.values \ s.defaulted
                                       THEN s.values[key] \union {v.by} ELSE {v.by}
    BY <1>4, <1>5 DEF SameAt
  <2>. QED
    BY <1>3, <1>5, <2>1 DEF IsCommitted, memory
<1>. QED
  BY <1>7, <1>8 DEF c

\* A rewind that is not running has nothing to end.
LEMMA NothingToEnd ==
  ASSUME NEW s, NEW keep, ~s.rewind.on
  PROVE  EndRewind(s, keep) = s
  BY DEF EndRewind

\* A rewind that ends by being kept leaves the state and the step cache as they are.
LEMMA EndRewindGives ==
  ASSUME NEW p, NEW s, StoreShape(p, s)
  PROVE  StoreShape(p, EndRewind(s, TRUE)) /\ IsEnded(EndRewind(s, TRUE), s)
<1>1. CASE ~s.rewind.on
  BY <1>1, NothingToEnd DEF IsEnded
<1>2. CASE s.rewind.on
  <2>. DEFINE e == EndRewind(s, TRUE)
  <2>1. e = [values |-> s.values, defaulted |-> s.defaulted, cache |-> s.cache,
             memory |-> s.memory \union s.rewind.stage, rewind |-> NoRewind]
    BY <1>2 DEF EndRewind, StoreShape
  <2>2. RewindShape(p, NoRewind) /\ ~NoRewind.on
    BY DEF RewindShape, NoRewind, SnapshotShape, NoSnapshot, IsFunction
  <2>. HIDE DEF e
  <2>3. /\ e.values = s.values /\ e.defaulted = s.defaulted /\ e.cache = s.cache
        /\ e.memory = s.memory \union s.rewind.stage /\ e.rewind = NoRewind
    BY <2>1
  <2>4. StoreShape(p, e)
    BY <2>1, <2>2, <2>3 DEF StoreShape
  <2>. QED
    BY <1>2, <2>2, <2>3, <2>4 DEF e, IsEnded
<1>. QED
  BY <1>1, <1>2

\* Restoring a snapshot changes the values and the default marks only.
LEMMA RestoredGives ==
  ASSUME NEW p, NEW s, NEW snap, NEW keys, StoreShape(p, s)
  PROVE  StoreShape(p, Restored(s, snap, keys)) /\ IsRestored(Restored(s, snap, keys), s, snap, keys)
<1>. DEFINE e == Restored(s, snap, keys)
            values == [key \in (DOMAIN s.values \ keys) \union (DOMAIN snap.values \intersect keys) |->
                         IF key \in keys THEN snap.values[key] ELSE s.values[key]]
            defaulted == (s.defaulted \ keys) \union (snap.defaulted \intersect keys)
<1>1. e = [s EXCEPT !.values = values, !.defaulted = defaulted]
  BY DEF Restored
<1>2. /\ IsFunction(values)
      /\ \A key : /\ key \in DOMAIN values
                       <=> IF key \in keys THEN key \in DOMAIN snap.values ELSE key \in DOMAIN s.values
                  /\ key \in DOMAIN values =>
                       values[key] = IF key \in keys THEN snap.values[key] ELSE s.values[key]
                  /\ key \in defaulted
                       <=> IF key \in keys THEN key \in snap.defaulted ELSE key \in s.defaulted
  BY DEF IsFunction
<1>3. DOMAIN s = {"values", "defaulted", "cache", "memory", "rewind"}
  BY DEF StoreShape
<1>. HIDE DEF values, defaulted, e
<1>4. /\ e.values = values /\ e.defaulted = defaulted /\ e.cache = s.cache /\ e.memory = s.memory
      /\ e.rewind = s.rewind /\ DOMAIN e = DOMAIN s /\ e = [x \in DOMAIN e |-> e[x]]
  BY <1>1, <1>3
<1>5. e = [values |-> e.values, defaulted |-> e.defaulted, cache |-> e.cache, memory |-> e.memory,
           rewind |-> e.rewind]
  BY <1>3, <1>4
<1>6. StoreShape(p, e)
  BY <1>2, <1>4, <1>5 DEF StoreShape
<1>7. IsRestored(e, s, snap, keys)
  BY <1>2, <1>4 DEF IsRestored, SameAt
<1>. QED
  BY <1>6, <1>7 DEF e

\* A rewind resets the keys of its range to what held before its target.
LEMMA StartRewindGives ==
  ASSUME NEW s, NEW k, NEW amended, NEW p, StoreShape(p, s), k \in Rewinds(p),
         NEW keys, keys = RangeKeys(pipe, Rule(k)), NEW snap, snap = before[Rule(k).to],
         NEW e, e = StartRewind(s, k, amended)
  PROVE  /\ StoreShape(p, e)
         /\ \A key : /\ key \in keys => SameAt(e, snap, key)
                     /\ key \notin keys => SameAt(e, s, key)
         /\ e.cache = s.cache /\ e.memory = s.memory
         /\ e.rewind.on /\ e.rewind.rule = k /\ e.rewind.prev = SnapshotOf(s, keys)
         /\ e.rewind.stage = {} /\ e.rewind.replaced = <<>>
<1>. DEFINE r == Restored(s, snap, keys)
            prev == SnapshotOf(s, keys)
            rewind == [on |-> TRUE, rule |-> k, prev |-> prev, amended |-> amended,
                       stage |-> {}, replaced |-> <<>>]
<1>1. e = [r EXCEPT !.rewind = rewind]
  BY DEF StartRewind
<1>2. SnapshotShape(prev)
  BY SnapshotOfGives
<1>3. StoreShape(p, r) /\ IsRestored(r, s, snap, keys)
  BY RestoredGives
<1>. HIDE DEF prev, r
<1>4. /\ RewindShape(p, rewind)
      /\ rewind.on /\ rewind.rule = k /\ rewind.prev = prev /\ rewind.stage = {} /\ rewind.replaced = <<>>
  BY <1>2 DEF RewindShape, IsFunction
<1>. HIDE DEF rewind
<1>5. DOMAIN r = {"values", "defaulted", "cache", "memory", "rewind"}
  BY <1>3 DEF StoreShape
<1>6. /\ e.values = r.values /\ e.defaulted = r.defaulted /\ e.cache = r.cache /\ e.memory = r.memory
      /\ e.rewind = rewind /\ DOMAIN e = DOMAIN r /\ e = [x \in DOMAIN e |-> e[x]]
  BY <1>1, <1>5
<1>7. e = [values |-> e.values, defaulted |-> e.defaulted, cache |-> e.cache, memory |-> e.memory,
           rewind |-> e.rewind]
  BY <1>5, <1>6
<1>8. StoreShape(p, e)
  BY <1>3, <1>4, <1>6, <1>7 DEF StoreShape
<1>9. \A key : /\ key \in keys => SameAt(e, snap, key)
               /\ key \notin keys => SameAt(e, s, key)
  BY <1>3, <1>6 DEF IsRestored, SameAt
<1>10. e.cache = s.cache /\ e.memory = s.memory
  BY <1>3, <1>6 DEF IsRestored
<1>. QED
  BY <1>4, <1>6, <1>8, <1>9, <1>10 DEF prev

\* Storing a result changes that entry.
LEMMA StoreCachedGives ==
  ASSUME NEW p, NEW s, NEW entry, NEW result, StoreShape(p, s)
  PROVE  /\ StoreShape(p, StoreCached(s, entry, result))
         /\ IsCached(StoreCached(s, entry, result), s, entry, result)
<1>. DEFINE e == StoreCached(s, entry, result)
            cache == [x \in DOMAIN s.cache \union {entry} |-> IF x = entry THEN result ELSE s.cache[x]]
            journal == [x \in DOMAIN s.rewind.replaced \union {entry} |->
                          IF x # entry THEN s.rewind.replaced[x]
                          ELSE IF entry \in DOMAIN s.cache THEN {s.cache[entry]} ELSE {}]
            journals == s.rewind.on /\ entry \notin DOMAIN s.rewind.replaced
            rewind == IF journals THEN [s.rewind EXCEPT !.replaced = journal] ELSE s.rewind
<1>1. e = [s EXCEPT !.cache = cache, !.rewind = rewind]
  BY DEF StoreCached
<1>2. /\ rewind.on = s.rewind.on /\ rewind.rule = s.rewind.rule /\ rewind.prev = s.rewind.prev
      /\ rewind.stage = s.rewind.stage
      /\ rewind.replaced = IF journals THEN journal ELSE s.rewind.replaced
      /\ rewind = [on |-> rewind.on, rule |-> rewind.rule, prev |-> rewind.prev,
                   amended |-> rewind.amended, stage |-> rewind.stage, replaced |-> rewind.replaced]
  <2>1. CASE ~journals
    BY <2>1 DEF StoreShape, RewindShape
  <2>2. CASE journals
    <3>. DEFINE w == [s.rewind EXCEPT !.replaced = journal]
    <3>1. DOMAIN s.rewind = {"on", "rule", "prev", "amended", "stage", "replaced"}
      BY DEF StoreShape, RewindShape
    <3>. HIDE DEF journal
    <3>2. /\ w = [x \in DOMAIN w |-> w[x]] /\ DOMAIN w = DOMAIN s.rewind
          /\ w["on"] = s.rewind["on"] /\ w["rule"] = s.rewind["rule"] /\ w["prev"] = s.rewind["prev"]
          /\ w["stage"] = s.rewind["stage"] /\ w["replaced"] = journal
      BY <3>1
    <3>3. rewind = w
      BY <2>2 DEF rewind
    <3>. HIDE DEF w
    <3>. QED
      BY <2>2, <3>1, <3>2, <3>3
  <2>. QED
    BY <2>1, <2>2
<1>3. /\ IsFunction(cache) /\ IsFunction(journal)
      /\ \A x : /\ x \in DOMAIN cache <=> x \in DOMAIN s.cache \/ x = entry
                /\ x \in DOMAIN cache => cache[x] = IF x = entry THEN result ELSE s.cache[x]
      /\ \A x : /\ x \in DOMAIN journal <=> x \in DOMAIN s.rewind.replaced \/ x = entry
                /\ x \in DOMAIN journal =>
                     journal[x] = IF x # entry THEN s.rewind.replaced[x]
                                  ELSE IF entry \in DOMAIN s.cache THEN {s.cache[entry]} ELSE {}
  BY DEF IsFunction
<1>. HIDE DEF cache, journal, rewind, e
<1>4. DOMAIN s = {"values", "defaulted", "cache", "memory", "rewind"}
  BY DEF StoreShape
<1>5. /\ e.values = s.values /\ e.defaulted = s.defaulted /\ e.cache = cache /\ e.memory = s.memory
      /\ e.rewind = rewind /\ DOMAIN e = DOMAIN s /\ e = [x \in DOMAIN e |-> e[x]]
  BY <1>1, <1>4
<1>6. StoreShape(p, e)
  <2>1. e = [values |-> e.values, defaulted |-> e.defaulted, cache |-> e.cache, memory |-> e.memory,
             rewind |-> e.rewind]
    BY <1>4, <1>5
  <2>2. RewindShape(p, rewind)
    BY <1>2, <1>3 DEF StoreShape, RewindShape
  <2>. QED
    BY <1>3, <1>5, <2>1, <2>2 DEF StoreShape
<1>7. IsCached(e, s, entry, result)
  <2>1. ASSUME NEW x
        PROVE  /\ x \in DOMAIN e.cache <=> x \in DOMAIN s.cache \/ x = entry
               /\ x \in DOMAIN e.cache => e.cache[x] = IF x = entry THEN result ELSE s.cache[x]
    BY <1>3, <1>5
  <2>2. ASSUME NEW x, s.rewind.on
        PROVE  /\ x \in DOMAIN rewind.replaced <=> x \in DOMAIN s.rewind.replaced \/ x = entry
               /\ x \in DOMAIN rewind.replaced =>
                    rewind.replaced[x] = IF x \in DOMAIN s.rewind.replaced THEN s.rewind.replaced[x]
                                         ELSE IF x \in DOMAIN s.cache THEN {s.cache[x]} ELSE {}
    BY <1>2, <1>3, <2>2
  <2>. QED
    BY <1>2, <1>5, <2>1, <2>2 DEF IsCached
<1>. QED
  BY <1>6, <1>7 DEF e

\* e is s after a rejection brought back what held then.
IsRejected(e, s, then) ==
  /\ Snapshot(e) = then.state
  /\ e.values = then.state.values /\ e.defaulted = then.state.defaulted /\ e.cache = then.cache
  /\ e.memory = s.memory /\ e.rewind = NoRewind /\ ~e.rewind.on

\* A rejection puts the entries of the journal back.
LEMMA UnjournaledGives ==
  ASSUME NEW s, NEW cache, IsFunction(cache),
         \A e : JournalFits(s, cache, e)
  PROVE  Unjournaled(s) = cache
<1>. DEFINE replaced == s.rewind.replaced
            entries == {e \in DOMAIN s.cache \union DOMAIN replaced : e \in DOMAIN replaced => replaced[e] # {}}
            entry(e) == IF e \in DOMAIN replaced THEN CHOOSE r \in replaced[e] : TRUE ELSE s.cache[e]
<1>1. entries = DOMAIN cache
  <2>1. \A e : e \in entries <=> e \in DOMAIN cache
    BY DEF JournalFits
  <2>. HIDE DEF entries
  <2>. QED
    BY <2>1
<1>2. \A e \in entries : entry(e) = cache[e]
  <2>1. \A x : (CHOOSE r \in {x} : TRUE) = x
    OBVIOUS
  <2>. QED
    BY <1>1, <2>1 DEF JournalFits
<1>3. Unjournaled(s) = [e \in entries |-> entry(e)]
  BY DEF Unjournaled
<1>. HIDE DEF entries, entry
<1>. QED
  BY <1>1, <1>2, <1>3 DEF IsFunction

\* A rejection brings back exactly the state and the step cache from when the rewind began, and
\* drops what the visits since staged.
LEMMA RejectRewindGives ==
  ASSUME NEW s, StoreShape(pipe, s), s.rewind.on, NEW then, SnapshotShape(then.state),
         IsFunction(then.cache), KeepsWhatHeld(pipe, s, then)
  PROVE  StoreShape(pipe, RejectRewind(s)) /\ IsRejected(RejectRewind(s), s, then)
<1>. DEFINE keys == RangeKeys(pipe, pipe.rules[s.rewind.rule])
            prev == s.rewind.prev
            e == Restored(s, prev, keys)
            w == RejectRewind(s)
<1>1. prev = SnapshotOf(then.state, keys)
  BY DEF KeepsWhatHeld
<1>2. StoreShape(pipe, e) /\ IsRestored(e, s, prev, keys)
  <2>. HIDE DEF keys, prev
  <2>. QED
    BY RestoredGives
<1>3. IsSnapshotOf(prev, then.state, keys)
  <2>. HIDE DEF keys
  <2>. QED
    BY <1>1, SnapshotOfGives
<1>4. \A key : key \notin keys => SameAt(s, then.state, key)
  BY DEF KeepsWhatHeld
<1>5. Unjournaled(s) = then.cache
  BY UnjournaledGives DEF KeepsWhatHeld
<1>6. w = EndRewind(e, FALSE)
  BY DEF RejectRewind
<1>7. Unjournaled(e) = Unjournaled(s)
  <2>. HIDE DEF e
  <2>. QED
    BY <1>2 DEF Unjournaled, IsRestored
<1>. HIDE DEF keys, e, w
<1>8. w = [e EXCEPT !.rewind = NoRewind, !.memory = e.memory, !.cache = then.cache]
  BY <1>2, <1>5, <1>6, <1>7 DEF EndRewind, IsRestored
<1>9. \A key : SameAt(e, then.state, key)
  BY <1>2, <1>3, <1>4 DEF SameAt, IsRestored, IsSnapshotOf
<1>10. e.values = then.state.values /\ e.defaulted = then.state.defaulted
  <2>1. IsFunction(e.values) /\ IsFunction(then.state.values)
    BY <1>2 DEF StoreShape, SnapshotShape
  <2>2. DOMAIN e.values = DOMAIN then.state.values
    BY <1>9 DEF SameAt
  <2>3. \A key \in DOMAIN e.values : e.values[key] = then.state.values[key]
    BY <1>9 DEF SameAt
  <2>4. e.defaulted = then.state.defaulted
    BY <1>9 DEF SameAt
  <2>. QED
    BY <2>1, <2>2, <2>3, <2>4 DEF IsFunction
<1>11. DOMAIN e = {"values", "defaulted", "cache", "memory", "rewind"}
  BY <1>2 DEF StoreShape
<1>12. /\ w.values = e.values /\ w.defaulted = e.defaulted /\ w.cache = then.cache /\ w.memory = e.memory
       /\ w.rewind = NoRewind /\ DOMAIN w = DOMAIN e /\ w = [x \in DOMAIN w |-> w[x]]
  BY <1>8, <1>11
<1>13. RewindShape(pipe, NoRewind) /\ ~NoRewind.on
  BY DEF RewindShape, NoRewind, SnapshotShape, NoSnapshot, IsFunction
<1>14. StoreShape(pipe, w)
  <2>1. w = [values |-> w.values, defaulted |-> w.defaulted, cache |-> w.cache, memory |-> w.memory,
             rewind |-> w.rewind]
    BY <1>11, <1>12
  <2>. QED
    BY <1>2, <1>10, <1>12, <1>13, <2>1 DEF StoreShape, SnapshotShape
<1>15. Snapshot(w) = then.state
  BY <1>10, <1>12 DEF Snapshot, SnapshotShape
<1>. QED
  BY <1>2, <1>10, <1>12, <1>13, <1>14, <1>15 DEF w, IsRestored, IsRejected

-----------------------------------------------------------------------------
(* The history. *)

\* A visit that commits is added to the history; the rest of it stays.
LEMMA KeepVisitGives ==
  ASSUME NEW h, NEW v, KeptShape(h)
  PROVE  /\ KeptShape(KeepVisit(h, v))
         /\ KeepVisit(h, v).standing = h.standing \union {[id |-> This, by |-> v.by, writes |-> v.writes]}
         /\ KeepVisit(h, v).committed = h.committed \union {v.by}
         /\ KeepVisit(h, v).dropped = h.dropped
         /\ KeepVisit(h, v).rejections = h.rejections
         /\ KeepVisit(h, v).failedBack = h.failedBack
         /\ KeepVisit(h, v).taken = h.taken
<1>. DEFINE w == KeepVisit(h, v)
            standing == h.standing \union {[id |-> This, by |-> v.by, writes |-> v.writes]}
            committed == h.committed \union {v.by}
<1>1. w = [h EXCEPT !.standing = standing, !.committed = committed]
  BY DEF KeepVisit
<1>2. DOMAIN h = {"standing", "dropped", "committed", "rejections", "failedBack", "taken"}
  BY DEF KeptShape
<1>. HIDE DEF standing, committed, w
<1>3. /\ w.standing = standing /\ w.committed = committed /\ w.dropped = h.dropped
      /\ w.rejections = h.rejections /\ w.failedBack = h.failedBack /\ w.taken = h.taken
      /\ DOMAIN w = DOMAIN h /\ w = [x \in DOMAIN w |-> w[x]]
  BY <1>1, <1>2
<1>4. w = [standing |-> w.standing, dropped |-> w.dropped, committed |-> w.committed,
           rejections |-> w.rejections, failedBack |-> w.failedBack, taken |-> w.taken]
  BY <1>2, <1>3
<1>5. KeptShape(w)
  BY <1>3, <1>4 DEF KeptShape
<1>. QED
  BY <1>3, <1>5 DEF w, standing, committed

\* Taking a rewind takes the visits of its range out of the standing ones, and notes what held.
LEMMA KeepRewoundGives ==
  ASSUME NEW h, NEW s, NEW k, KeptShape(h), StoreShape(pipe, s)
  PROVE  LET w == KeepRewound(h, s, k)
         IN /\ KeptShape(w)
            /\ w.standing = Outside(h.standing, Rule(k))
            /\ w.committed = h.committed /\ w.dropped = h.dropped
            /\ w.rejections = h.rejections /\ w.failedBack = h.failedBack
            /\ w.taken.state = Snapshot(s) /\ w.taken.cache = s.cache
            /\ w.taken.standing = h.standing /\ w.taken.visits = visits
<1>. DEFINE w == KeepRewound(h, s, k)
            standing == Outside(h.standing, Rule(k))
            taken == [state |-> Snapshot(s), cache |-> s.cache, standing |-> h.standing, visits |-> visits]
<1>1. w = [h EXCEPT !.standing = standing, !.taken = taken]
  BY DEF KeepRewound, Outside
<1>2. DOMAIN h = {"standing", "dropped", "committed", "rejections", "failedBack", "taken"}
  BY DEF KeptShape
<1>3. /\ taken.state = Snapshot(s) /\ taken.cache = s.cache /\ taken.standing = h.standing
      /\ taken.visits = visits
      /\ taken = [state |-> taken.state, cache |-> taken.cache, standing |-> taken.standing,
                  visits |-> taken.visits]
  OBVIOUS
<1>4. SnapshotShape(Snapshot(s)) /\ IsFunction(s.cache)
  BY DEF StoreShape, SnapshotShape, Snapshot
<1>. HIDE DEF standing, taken, w
<1>5. /\ w.standing = standing /\ w.committed = h.committed /\ w.dropped = h.dropped
      /\ w.rejections = h.rejections /\ w.failedBack = h.failedBack /\ w.taken = taken
      /\ DOMAIN w = DOMAIN h /\ w = [x \in DOMAIN w |-> w[x]]
  BY <1>1, <1>2
<1>6. w = [standing |-> w.standing, dropped |-> w.dropped, committed |-> w.committed,
           rejections |-> w.rejections, failedBack |-> w.failedBack, taken |-> w.taken]
  BY <1>2, <1>5
<1>7. KeptShape(w)
  BY <1>3, <1>4, <1>5, <1>6 DEF KeptShape
<1>. QED
  BY <1>3, <1>5, <1>7 DEF w, standing

\* Dropping visits changes nothing else of the history.
LEMMA KeepDroppedGives ==
  ASSUME NEW h, KeptShape(h), NEW ids
  PROVE  LET w == [h EXCEPT !.dropped = @ \union ids]
         IN /\ KeptShape(w)
            /\ w.standing = h.standing /\ w.committed = h.committed
            /\ w.dropped = h.dropped \union ids
            /\ w.rejections = h.rejections /\ w.failedBack = h.failedBack /\ w.taken = h.taken
<1>. DEFINE dropped == h.dropped \union ids
            w == [h EXCEPT !.dropped = dropped]
<1>1. DOMAIN h = {"standing", "dropped", "committed", "rejections", "failedBack", "taken"}
  BY DEF KeptShape
<1>. HIDE DEF dropped
<1>2. /\ w.standing = h.standing /\ w.committed = h.committed /\ w.dropped = dropped
      /\ w.rejections = h.rejections /\ w.failedBack = h.failedBack /\ w.taken = h.taken
      /\ DOMAIN w = DOMAIN h /\ w = [x \in DOMAIN w |-> w[x]]
  BY <1>1
<1>. HIDE DEF w
<1>3. w = [standing |-> w.standing, dropped |-> w.dropped, committed |-> w.committed,
           rejections |-> w.rejections, failedBack |-> w.failedBack, taken |-> w.taken]
  BY <1>1, <1>2
<1>4. KeptShape(w)
  BY <1>2, <1>3 DEF KeptShape
<1>. QED
  BY <1>2, <1>4 DEF w, dropped

\* Taking a rewind back has the visits stand that stood, and drops those made since.
LEMMA KeepRejectedGives ==
  ASSUME NEW h, KeptShape(h)
  PROVE  LET w == KeepRejected(h)
         IN /\ KeptShape(w)
            /\ w.standing = h.taken.standing
            /\ w.rejections = h.rejections + 1
            /\ w.failedBack = h.failedBack
            /\ w.committed = h.committed /\ w.taken = h.taken
            /\ w.dropped = h.dropped \union
                 UNION {{Visited(i, n) : n \in (h.taken.visits[i] + 1)..visits[i]} : i \in Steps(pipe)}
<1>. DEFINE w == KeepRejected(h)
            dropped == h.dropped \union
                 UNION {{Visited(i, n) : n \in (h.taken.visits[i] + 1)..visits[i]} : i \in Steps(pipe)}
<1>1. w = [h EXCEPT !.standing = h.taken.standing, !.rejections = h.rejections + 1, !.dropped = dropped]
  BY DEF KeepRejected
<1>2. DOMAIN h = {"standing", "dropped", "committed", "rejections", "failedBack", "taken"}
  BY DEF KeptShape
<1>. HIDE DEF dropped, w
<1>3. /\ w.standing = h.taken.standing /\ w.committed = h.committed /\ w.dropped = dropped
      /\ w.rejections = h.rejections + 1 /\ w.failedBack = h.failedBack /\ w.taken = h.taken
      /\ DOMAIN w = DOMAIN h /\ w = [x \in DOMAIN w |-> w[x]]
  BY <1>1, <1>2
<1>4. w = [standing |-> w.standing, dropped |-> w.dropped, committed |-> w.committed,
           rejections |-> w.rejections, failedBack |-> w.failedBack, taken |-> w.taken]
  BY <1>2, <1>3
<1>5. KeptShape(w)
  BY <1>3, <1>4 DEF KeptShape
<1>. QED
  BY <1>3, <1>5 DEF w, dropped

\* A rewind taken back by a panic is a rewind taken back.
LEMMA KeepFailedBackGives ==
  ASSUME NEW h, KeptShape(h)
  PROVE  LET w == KeepFailedBack(h)
             r == KeepRejected(h)
         IN /\ KeptShape(w)
            /\ w.standing = r.standing /\ w.rejections = r.rejections /\ w.failedBack
            /\ w.committed = r.committed /\ w.taken = r.taken /\ w.dropped = r.dropped
<1>. DEFINE w == KeepFailedBack(h)
            r == KeepRejected(h)
<1>1. w = [r EXCEPT !.failedBack = TRUE]
  BY DEF KeepFailedBack
<1>2. KeptShape(r)
  BY KeepRejectedGives
<1>. HIDE DEF w, r
<1>3. DOMAIN r = {"standing", "dropped", "committed", "rejections", "failedBack", "taken"}
  BY <1>2 DEF KeptShape
<1>4. /\ w.standing = r.standing /\ w.committed = r.committed /\ w.dropped = r.dropped
      /\ w.rejections = r.rejections /\ w.failedBack = TRUE /\ w.taken = r.taken
      /\ DOMAIN w = DOMAIN r /\ w = [x \in DOMAIN w |-> w[x]]
  BY <1>1, <1>3
<1>5. w = [standing |-> w.standing, dropped |-> w.dropped, committed |-> w.committed,
           rejections |-> w.rejections, failedBack |-> w.failedBack, taken |-> w.taken]
  BY <1>3, <1>4
<1>6. KeptShape(w)
  BY <1>2, <1>4, <1>5 DEF KeptShape
<1>. QED
  BY <1>4, <1>6 DEF w, r

-----------------------------------------------------------------------------
(* What the visits that stand wrote. *)

\* Only the values and the default marks decide what fits.
LEMMA SameFits ==
  ASSUME NEW p, NEW m, NEW l, NEW S, Fits(p, m, S), l.values = m.values, l.defaulted = m.defaulted
  PROVE  Fits(p, l, S)
  BY DEF Fits, Holds

\* What holds of a key does so in every state that has the same of it, for the same writers.
LEMMA SameHolds ==
  ASSUME NEW p, NEW m, NEW l, NEW S, NEW T, NEW key, Holds(p, m, S, key), SameAt(l, m, key),
         Writers(T, key) = Writers(S, key)
  PROVE  Holds(p, l, T, key)
  BY DEF Holds, SameAt

\* A visit that commits adds its writes to the values it finds, and replaces a Default.
LEMMA CommitFits ==
  ASSUME NEW p, NEW s, NEW v, NEW e, NEW S, NEW c, Fits(p, s, S), IsCommitted(e, s, v),
         c.writes = v.writes, c.by = v.by
  PROVE  Fits(p, e, S \union {c})
<1>1. SUFFICES ASSUME NEW key PROVE Holds(p, e, S \union {c}, key)
  BY DEF Fits
<1>. DEFINE W == Writers(S, key)
            X == Writers(S \union {c}, key)
<1>2. Holds(p, s, S, key)
  BY DEF Fits
<1>3. CASE key \notin v.writes
  <2>1. X = W
    BY <1>3 DEF Writers
  <2>2. SameAt(e, s, key)
    BY <1>3 DEF IsCommitted
  <2>. QED
    BY <1>2, <2>1, <2>2, SameHolds
<1>4. CASE key \in v.writes
  <2>1. X = W \union {c}
    BY <1>4 DEF Writers
  <2>2. /\ key \in DOMAIN e.values /\ key \notin e.defaulted
        /\ e.values[key] = IF key \in DOMAIN s.values \ s.defaulted
                           THEN s.values[key] \union {v.by} ELSE {v.by}
    BY <1>4 DEF IsCommitted
  <2>3. {d.by : d \in X} = {d.by : d \in W} \union {v.by}
    BY <2>1
  <2>4. /\ key \in DOMAIN s.values => s.values[key] = {d.by : d \in W}
        /\ key \notin DOMAIN s.values => W = {}
        /\ key \in s.defaulted => W = {}
    BY <1>2 DEF Holds
  <2>5. e.values[key] = {d.by : d \in X}
    <3>1. CASE key \in DOMAIN s.values \ s.defaulted
      BY <2>2, <2>3, <2>4, <3>1
    <3>2. CASE key \notin DOMAIN s.values \ s.defaulted
      <4>1. {d.by : d \in W} = {}
        BY <2>4, <3>2
      <4>. QED
        BY <2>2, <2>3, <3>2, <4>1
    <3>. QED
      BY <3>1, <3>2
  <2>6. X # {}
    BY <2>1
  <2>. HIDE DEF X
  <2>7. Writers(S \union {c}, key) = X
    BY DEF X
  <2>. QED
    BY <2>2, <2>5, <2>6, <2>7 DEF Holds
<1>. QED
  BY <1>3, <1>4

\* A rewind leaves what the visits outside its range wrote.
LEMMA RewindFitsAtOnce ==
  ASSUME NEW p, NEW s, NEW e, NEW b, NEW S, NEW r, NEW snap, snap = b[r.to], Fits(p, s, S), StandingOK(p, S),
         \A key : /\ key \in RangeKeys(p, r) => SameAt(e, snap, key)
                  /\ key \notin RangeKeys(p, r) => SameAt(e, s, key),
         Outside(S, r) = Before(S, r.to),
         BeforeFits(p, b, S, r)
  PROVE  Fits(p, e, Outside(S, r))
<1>1. SUFFICES ASSUME NEW key PROVE Holds(p, e, Outside(S, r), key)
  BY DEF Fits
<1>2. CASE key \in RangeKeys(p, r)
  BY <1>2, SameHolds DEF BeforeFits
<1>3. CASE key \notin RangeKeys(p, r)
  <2>1. \A c \in S : c.id.step \in r.to..r.from => key \notin c.writes
    BY <1>3 DEF StandingOK, MayWrite, RangeKeys
  <2>2. Writers(Outside(S, r), key) = Writers(S, key)
    BY <2>1 DEF Writers, Outside
  <2>. QED
    BY <1>3, <2>2, SameHolds DEF Fits
<1>. QED
  BY <1>2, <1>3

-----------------------------------------------------------------------------
(* How a run goes on from a step. *)

\* Rule k may take the run on from step i, given the visits S that stand: a rule on success from
\* a visit that stands, a rule on failure from one that does not.
GoesOn(p, S, i, k, failedBack) ==
  /\ k # 0 => k \in DOMAIN p.rules /\ p.rules[k].from = i
  /\ \/ k # 0 /\ p.rules[k].to = Fail
     \/ Onward(p, i, k) /\ Has(S, i)
     \/ k # 0 /\ p.rules[k].onError /\ (Has(S, i) => failedBack)

\* A forward rule reaches the step it goes to.
LEMMA ReachedOn ==
  ASSUME NEW p \in Pipelines, NEW S, NEW i \in Steps(p), NEW k, NEW failedBack, NEW next \in Nat,
         StandingOK(p, S), \A c \in S : c.id.step <= i, Reached(p, Before(S, i), i, failedBack),
         GoesOn(p, S, i, k, failedBack),
         k = 0 => next = i + 1,
         k # 0 => p.rules[k].to # Fail /\ ~Rewind(p.rules[k]) /\ next = p.rules[k].to
  PROVE  /\ i < next
         /\ Before(S, next) = S
         /\ Reached(p, S, next, failedBack)
<1>1. p.n \in Nat /\ i \in 1..p.n
  BY PipelinesAssumption DEF Steps
<1>2. i < next
  BY <1>1 DEF GoesOn, Rewind
<1>3. \A c \in S : c.id.step \in 1..p.n /\ c.id.step < next
  BY <1>1, <1>2 DEF StandingOK, Steps
<1>4. Before(S, next) = S
  BY <1>3 DEF Before
<1>5. CoveredTo(p, S, next)
  <2>1. SUFFICES ASSUME NEW j \in 1..(next - 1), ~Has(S, j) PROVE MayNotWrite(p, j)
    BY DEF CoveredTo
  <2>2. CASE j < i
    <3>1. ~Has(Before(S, i), j)
      BY <2>1 DEF Has, Before
    <3>. QED
      BY <1>1, <2>2, <3>1 DEF Reached, CoveredTo
  <2>3. CASE j = i
    <3>1. k # 0 /\ k \in DOMAIN p.rules /\ p.rules[k].from = i /\ p.rules[k].onError
      BY <2>1, <2>3 DEF GoesOn
    <3>. QED
      BY <2>3, <3>1 DEF MayNotWrite
  <2>4. CASE i < j
    <3>1. k # 0 /\ k \in DOMAIN p.rules /\ p.rules[k].from = i
      BY <1>1, <2>4 DEF GoesOn
    <3>2. Skips(p.rules[k], j)
      BY <2>4, <3>1, <1>1 DEF Skips
    <3>. QED
      BY <3>1, <3>2 DEF MayNotWrite
  <2>. QED
    BY <1>1, <2>2, <2>3, <2>4
<1>6. failedBack \/ Arrived(p, S, next)
  <2>1. SUFFICES ASSUME ~failedBack PROVE Arrived(p, S, next)
    OBVIOUS
  <2>2. SUFFICES ASSUME NEW c \in S
                 PROVE  \/ \E to \in Continuations(p, c.id.step) : to <= next
                        \/ \E t \in Targets(p) : c.id.step < t /\ t <= next
    BY DEF Arrived
  <2>3. CASE c.id.step < i
    <3>1. c \in Before(S, i)
      BY <2>3 DEF Before
    <3>2. Arrived(p, Before(S, i), i)
      BY <2>1 DEF Reached
    <3>3. CASE \E t \in Targets(p) : c.id.step < t /\ t <= i
      <4>1. \A t \in Targets(p) : t \in 1..p.n
        BY RewindFacts DEF Targets
      <4>. QED
        BY <1>1, <1>2, <3>3, <4>1
    <3>4. CASE \E to \in Continuations(p, c.id.step) : to <= i
      <4>1. \A j \in DOMAIN p.rules : p.rules[j].to \in 0..(p.n + 1)
        BY RuleFacts
      <4>2. \A to \in Continuations(p, c.id.step) : to \in Nat
        BY <1>1, <1>3, <4>1 DEF Continuations, SuccessRules
      <4>. QED
        BY <1>1, <1>2, <3>4, <4>2
    <3>. QED
      BY <3>1, <3>2, <3>3, <3>4 DEF Arrived
  <2>4. CASE c.id.step = i
    <3>1. Has(S, i)
      BY <2>4 DEF Has
    <3>2. Onward(p, i, k)
      BY <2>1, <3>1 DEF GoesOn
    <3>3. next \in Continuations(p, i)
      <4>. DEFINE forward == {j \in SuccessRules(p, i) : ~Rewind(p.rules[j])}
                  closing == {j \in forward : p.rules[j].always}
                  tried == {j \in forward : \A d \in closing : j <= d}
      <4>1. CASE k = 0
        <5>1. closing = {}
          BY <3>2, <4>1 DEF Onward
        <5>2. next = i + 1
          BY <4>1
        <5>. HIDE DEF closing
        <5>3. Continuations(p, i) = {p.rules[j].to : j \in {j \in tried : p.rules[j].to # Fail}}
                                    \union (IF closing = {} THEN {i + 1} ELSE {})
          BY DEF Continuations, closing
        <5>. QED
          BY <5>1, <5>2, <5>3
      <4>2. CASE k # 0
        <5>1. k \in forward
          BY <3>2, <4>2 DEF Onward
        <5>2. \A j \in SuccessRules(p, i) : j < k => Rewind(p.rules[j]) \/ ~p.rules[j].always
          BY <3>2, <4>2 DEF Onward
        <5>3. \A j \in SuccessRules(p, i) : j \in Nat
          BY RuleFacts DEF SuccessRules
        <5>4. \A d \in closing : k <= d
          BY <5>1, <5>2, <5>3
        <5>5. k \in {j \in tried : p.rules[j].to # Fail} /\ next = p.rules[k].to
          BY <4>2, <5>1, <5>4
        <5>6. Continuations(p, i) = {p.rules[j].to : j \in {j \in tried : p.rules[j].to # Fail}}
                                    \union (IF closing = {} THEN {i + 1} ELSE {})
          BY DEF Continuations
        <5>. HIDE DEF tried, closing, forward
        <5>. QED
          BY <5>5, <5>6
      <4>. QED
        BY <4>1, <4>2
    <3>. QED
      BY <2>4, <3>3
  <2>. QED
    BY <1>1, <1>3, <2>3, <2>4
<1>7. Reached(p, S, next, failedBack)
  BY <1>3, <1>5, <1>6 DEF Reached
<1>. QED
  BY <1>2, <1>4, <1>7

\* A rewind leaves the visits before its target, which reached it.
LEMMA ReachedBack ==
  ASSUME NEW p \in Pipelines, NEW S, NEW k \in Rewinds(p), NEW r, r = p.rules[k], NEW failedBack,
         StandingOK(p, S), \A c \in S : c.id.step <= r.from,
         Reached(p, Before(S, r.from), r.from, failedBack)
  PROVE  /\ Outside(S, r) = Before(S, r.to)
         /\ Before(Outside(S, r), r.to) = Outside(S, r)
         /\ StandingOK(p, Outside(S, r))
         /\ Reached(p, Outside(S, r), r.to, failedBack)
<1>1. p.n \in Nat /\ r.to \in 1..p.n /\ r.from \in 1..p.n /\ r.to <= r.from /\ r.to \in Targets(p)
  BY RewindFacts, PipelinesAssumption
<1>2. \A c \in S : c.id.step \in 1..p.n
  BY DEF StandingOK, Steps
<1>3. Outside(S, r) = Before(S, r.to)
  BY <1>1, <1>2 DEF Outside, Before
<1>4. Before(Outside(S, r), r.to) = Outside(S, r)
  BY <1>3 DEF Before
<1>5. StandingOK(p, Outside(S, r))
  BY DEF StandingOK, Outside
<1>6. \A c \in Before(S, r.to) : c.id.step < r.to
  BY DEF Before
<1>7. CoveredTo(p, Before(S, r.to), r.to)
  <2>1. SUFFICES ASSUME NEW j \in 1..(r.to - 1), ~MayNotWrite(p, j) PROVE Has(Before(S, r.to), j)
    BY DEF CoveredTo
  <2>2. Has(Before(S, r.from), j)
    BY <1>1, <2>1 DEF Reached, CoveredTo
  <2>. QED
    BY <1>1, <2>1, <2>2 DEF Has, Before
<1>8. Arrived(p, Before(S, r.to), r.to)
  BY <1>1, <1>6 DEF Arrived
<1>. QED
  BY <1>3, <1>4, <1>5, <1>6, <1>7, <1>8 DEF Reached

-----------------------------------------------------------------------------
(* Where the run lands. *)

\* The snapshots of the rewind targets after the run went on from step here to next.
Reset(p, b, s, here, next) ==
  [j \in Steps(p) |-> IF j \in Targets(p) /\ here < j /\ j < next THEN Snapshot(s) ELSE b[j]]

\* The run may be at step next, or at the end, with store s, history h and snapshots b.
Lands(p, b, s, h, next) ==
  /\ StoreShape(p, s) /\ KeptShape(h) /\ BeforeShape(p, b)
  /\ CacheFits(p, s.cache)
  /\ Fits(p, s, h.standing) /\ StandingOK(p, h.standing)
  /\ next \in Steps(p) =>
       /\ \A c \in h.standing : c.id.step < next
       /\ Reached(p, h.standing, next, h.failedBack)
       /\ s.rewind.on => RewindFits(p, s, h) /\ p.rules[s.rewind.rule].to <= next
       /\ \A j \in Rewinds(p) : p.rules[j].to < next /\ next <= p.rules[j].from
                                  => BeforeFits(p, b, h.standing, p.rules[j])

\* Rule k may take the run, at step here, on from step i.
Ready(p, b, s, h, here, i, k) ==
  /\ StoreShape(p, s) /\ KeptShape(h) /\ BeforeShape(p, b)
  /\ CacheFits(p, s.cache)
  /\ Fits(p, s, h.standing) /\ StandingOK(p, h.standing)
  /\ here \in Steps(p) /\ i \in Steps(p) /\ here <= i
  /\ \A c \in h.standing : c.id.step <= i
  /\ Reached(p, Before(h.standing, i), i, h.failedBack)
  /\ GoesOn(p, h.standing, i, k, h.failedBack)
  /\ \A j \in Rewinds(p) : p.rules[j].to <= here /\ i <= p.rules[j].from
                             => BeforeFits(p, b, h.standing, p.rules[j])
  /\ \A j \in Rewinds(p) : here < p.rules[j].to /\ i < p.rules[j].from => i < p.rules[j].to
  /\ k \in Rewinds(p) => here = i /\ ~s.rewind.on
  /\ s.rewind.on => RewindFits(p, s, h) /\ p.rules[s.rewind.rule].to <= here

\* The values and the default marks of a state are a snapshot.
LEMMA SnapshotShapeOf ==
  ASSUME NEW p, NEW s, StoreShape(p, s)
  PROVE  SnapshotShape(Snapshot(s))
  BY DEF StoreShape, SnapshotShape, Snapshot

\* Keeping what held before the steps that are about to run keeps snapshots.
LEMMA ResetGives ==
  ASSUME NEW p, NEW b, NEW s, NEW here, NEW next, BeforeShape(p, b), StoreShape(p, s)
  PROVE  BeforeShape(p, Reset(p, b, s, here, next))
<1>. DEFINE c == Reset(p, b, s, here, next)
<1>1. c = [j \in Steps(p) |-> c[j]]
  BY DEF Reset
<1>2. \A j \in Steps(p) : c[j] = Snapshot(s) \/ c[j] = b[j]
  BY DEF Reset
<1>3. \A j \in Steps(p) : SnapshotShape(b[j])
  BY DEF BeforeShape
<1>4. SnapshotShape(Snapshot(s))
  BY SnapshotShapeOf
<1>. HIDE DEF c
<1>. QED
  BY <1>1, <1>2, <1>3, <1>4 DEF c, BeforeShape

\* A forward step from i passes the targets before next, whose snapshots it resets.
LEMMA BeforeAhead ==
  ASSUME NEW p \in Pipelines, NEW b, NEW s, NEW S, NEW here \in Nat, NEW i \in Nat, NEW next \in Nat,
         Fits(p, s, S), \A c \in S : c.id.step \in Nat /\ c.id.step <= i, i < next, here <= i,
         NEW j \in Rewinds(p), NEW r, r = p.rules[j],
         r.to <= here /\ i <= r.from => BeforeFits(p, b, S, r),
         here < r.to /\ i < r.from => i < r.to,
         r.to < next, next <= r.from
  PROVE  BeforeFits(p, Reset(p, b, s, here, next), S, r)
<1>1. p.n \in Nat /\ r.to \in 1..p.n /\ r.from \in 1..p.n /\ r.to \in Targets(p) /\ r.to \in Steps(p)
  BY RewindFacts, PipelinesAssumption DEF Steps
<1>2. i < r.from
  BY <1>1
<1>3. CASE r.to <= here
  <2>1. Reset(p, b, s, here, next)[r.to] = b[r.to]
    BY <1>1, <1>3 DEF Reset
  <2>. QED
    BY <1>1, <1>2, <1>3, <2>1 DEF BeforeFits
<1>4. CASE here < r.to
  <2>1. Reset(p, b, s, here, next)[r.to] = Snapshot(s)
    BY <1>1, <1>4 DEF Reset
  <2>2. Before(S, r.to) = S
    BY <1>1, <1>2, <1>4 DEF Before
  <2>3. Snapshot(s).values = s.values /\ Snapshot(s).defaulted = s.defaulted
    BY DEF Snapshot
  <2>4. Fits(p, Snapshot(s), S)
    BY <2>3, SameFits
  <2>. QED
    BY <2>1, <2>2, <2>4 DEF BeforeFits, Fits
<1>. QED
  BY <1>1, <1>3, <1>4

\* A run that is ready to go forward lands where the rule goes.
LEMMA ForwardLands ==
  ASSUME NEW p \in Pipelines, NEW b, NEW s, NEW h, NEW here, NEW i, NEW k, NEW next \in Nat,
         Ready(p, b, s, h, here, i, k),
         k = 0 => next = i + 1,
         k # 0 => p.rules[k].to # Fail /\ ~Rewind(p.rules[k]) /\ next = p.rules[k].to
  PROVE  Lands(p, Reset(p, b, s, here, next), s, h, next)
<1>. DEFINE S == h.standing
            c == Reset(p, b, s, here, next)
<1>1. p.n \in Nat /\ i \in 1..p.n /\ here \in 1..p.n /\ here <= i
  BY PipelinesAssumption DEF Ready, Steps
<1>2. i < next /\ Before(S, next) = S /\ Reached(p, S, next, h.failedBack)
  <2>1. /\ i \in Steps(p) /\ StandingOK(p, S) /\ \A d \in S : d.id.step <= i
        /\ Reached(p, Before(S, i), i, h.failedBack) /\ GoesOn(p, S, i, k, h.failedBack)
    BY DEF Ready
  <2>. HIDE DEF S
  <2>. QED
    BY <2>1, ReachedOn
<1>3. \A d \in S : d.id.step \in 1..p.n /\ d.id.step <= i /\ d.id.step < next
  BY <1>1, <1>2 DEF Ready, StandingOK, Steps
<1>4. BeforeShape(p, c)
  BY ResetGives DEF Ready
<1>5. ASSUME NEW j \in Rewinds(p), p.rules[j].to < next, next <= p.rules[j].from
      PROVE  BeforeFits(p, c, S, p.rules[j])
  <2>. DEFINE r == p.rules[j]
  <2>1. /\ r.to <= here /\ i <= r.from => BeforeFits(p, b, S, r)
        /\ here < r.to /\ i < r.from => i < r.to
        /\ Fits(p, s, S)
    BY DEF Ready
  <2>2. r.to < next /\ next <= r.from /\ r = p.rules[j]
    BY <1>5
  <2>. HIDE DEF r, S
  <2>3. BeforeFits(p, c, S, r)
    BY <1>1, <1>2, <1>3, <2>1, <2>2, BeforeAhead
  <2>. QED
    BY <2>3 DEF r
<1>6. s.rewind.on => RewindFits(p, s, h) /\ p.rules[s.rewind.rule].to <= next
  <2>1. SUFFICES ASSUME s.rewind.on PROVE RewindFits(p, s, h) /\ p.rules[s.rewind.rule].to <= next
    OBVIOUS
  <2>2. RewindFits(p, s, h) /\ p.rules[s.rewind.rule].to <= here /\ s.rewind.rule \in Rewinds(p)
    BY <2>1 DEF Ready, StoreShape, RewindShape
  <2>3. p.rules[s.rewind.rule].to \in 1..p.n
    BY <2>2, RewindFacts
  <2>. QED
    BY <1>1, <1>2, <2>2, <2>3
<1>7. /\ StoreShape(p, s) /\ KeptShape(h) /\ CacheFits(p, s.cache)
      /\ Fits(p, s, S) /\ StandingOK(p, S)
  BY DEF Ready
<1>. HIDE DEF c, S
<1>8. Lands(p, c, s, h, next)
  BY <1>2, <1>3, <1>4, <1>5, <1>6, <1>7 DEF Lands, S
<1>. QED
  BY <1>8 DEF c

\* A run that is ready to go back lands at the target, with the rewind running.
LEMMA RewindLands ==
  ASSUME pipe \in Pipelines, NEW s, NEW h, NEW here, NEW i, NEW k \in Rewinds(pipe), NEW amends,
         Ready(pipe, before, s, h, here, i, k)
  PROVE  LET e == StartRewind(s, k, amends)
         IN Lands(pipe, Reset(pipe, before, e, here, Rule(k).to), e, KeepRewound(h, s, k), Rule(k).to)
<1>. DEFINE r == Rule(k)
            e == StartRewind(s, k, amends)
            w == KeepRewound(h, s, k)
            S == h.standing
            T == Outside(S, r)
            keys == RangeKeys(pipe, r)
            snap == before[r.to]
            then == w.taken
<1>1. /\ pipe.n \in Nat /\ r.to \in 1..pipe.n /\ r.from \in 1..pipe.n /\ r.to <= r.from
      /\ r = pipe.rules[k] /\ k \in DOMAIN pipe.rules /\ Rewind(r) /\ r.to # Fail /\ k # 0
  BY RewindFacts, RuleFacts, PipelinesAssumption DEF Rule, Rewinds, Rewind, Fail
<1>2. i = r.from /\ here = i /\ ~s.rewind.on
  BY <1>1 DEF Ready, GoesOn
<1>3. /\ StoreShape(pipe, s) /\ KeptShape(h) /\ BeforeShape(pipe, before) /\ CacheFits(pipe, s.cache)
      /\ Fits(pipe, s, S) /\ StandingOK(pipe, S) /\ \A c \in S : c.id.step <= r.from
      /\ Reached(pipe, Before(S, r.from), r.from, h.failedBack)
  BY <1>2 DEF Ready
<1>4. BeforeFits(pipe, before, S, r)
  BY <1>1, <1>2 DEF Ready
<1>5. r.onError \/ Has(S, r.from)
  BY <1>1, <1>2 DEF Ready, GoesOn
<1>6. /\ StoreShape(pipe, e)
      /\ \A key : /\ key \in keys => SameAt(e, snap, key)
                  /\ key \notin keys => SameAt(e, s, key)
      /\ e.cache = s.cache /\ e.memory = s.memory
      /\ e.rewind.on /\ e.rewind.rule = k /\ e.rewind.prev = SnapshotOf(s, keys)
      /\ e.rewind.stage = {} /\ e.rewind.replaced = <<>>
  <2>1. keys = RangeKeys(pipe, Rule(k)) /\ snap = before[Rule(k).to] /\ e = StartRewind(s, k, amends)
    OBVIOUS
  <2>. HIDE DEF keys, snap, e
  <2>. QED
    BY <1>3, <2>1, StartRewindGives
<1>7. /\ KeptShape(w) /\ w.standing = T /\ w.failedBack = h.failedBack
      /\ then.state = Snapshot(s) /\ then.cache = s.cache /\ then.standing = S
  BY <1>3, KeepRewoundGives
<1>. HIDE DEF e, w, then, snap
<1>8. /\ T = Before(S, r.to)
      /\ StandingOK(pipe, T)
      /\ Reached(pipe, T, r.to, h.failedBack)
  <2>. HIDE DEF S
  <2>1. r = pipe.rules[k]
    BY <1>1
  <2>. HIDE DEF r
  <2>. QED
    BY <1>3, <2>1, ReachedBack
<1>9. \A c \in T : c.id.step < r.to
  BY <1>8 DEF Before
<1>10. Fits(pipe, e, T)
  <2>1. snap = before[r.to]
    BY DEF snap
  <2>. HIDE DEF S, r
  <2>2. \A key : /\ key \in RangeKeys(pipe, r) => SameAt(e, snap, key)
                 /\ key \notin RangeKeys(pipe, r) => SameAt(e, s, key)
    BY <1>6
  <2>. QED
    BY <1>3, <1>4, <1>8, <2>1, <2>2, RewindFitsAtOnce
<1>11. RewindFits(pipe, e, w)
  <2>1. pipe.rules[e.rewind.rule] = r
    BY <1>1, <1>6
  <2>2. Fits(pipe, then.state, S)
    <3>1. Snapshot(s).values = s.values /\ Snapshot(s).defaulted = s.defaulted
      BY DEF Snapshot
    <3>2. Fits(pipe, Snapshot(s), S)
      BY <1>3, <3>1, SameFits
    <3>. QED
      BY <1>7, <3>2
  <2>3. HeldThen(pipe, r, then, T, w.failedBack)
    <3>1. Outside(T, r) = Outside(S, r)
      BY DEF Outside
    <3>. QED
      BY <1>3, <1>5, <1>7, <2>2, <3>1 DEF HeldThen
  <2>4. KeepsWhatHeld(pipe, e, then)
    <3>1. e.rewind.prev = SnapshotOf(then.state, keys)
      BY <1>6, <1>7 DEF SnapshotOf, Snapshot
    <3>2. \A key : key \notin keys => SameAt(e, then.state, key)
      BY <1>6, <1>7 DEF SameAt, Snapshot
    <3>3. \A x : JournalFits(e, then.cache, x)
      BY <1>6, <1>7 DEF JournalFits
    <3>. QED
      BY <2>1, <3>1, <3>2, <3>3 DEF KeepsWhatHeld
  <2>. QED
    BY <1>7, <2>1, <2>3, <2>4 DEF RewindFits, then
<1>12. BeforeShape(pipe, Reset(pipe, before, e, here, r.to))
  BY <1>3, <1>6, ResetGives
<1>13. ASSUME NEW j \in Rewinds(pipe), pipe.rules[j].to < r.to, r.to <= pipe.rules[j].from
       PROVE  FALSE
  <2>1. /\ pipe.rules[j].to \in 1..pipe.n /\ pipe.rules[j].from \in 1..pipe.n
        /\ \/ pipe.rules[k].to = pipe.rules[j].to /\ pipe.rules[k].from = pipe.rules[j].from
           \/ pipe.rules[k].from < pipe.rules[j].to
           \/ pipe.rules[j].from < pipe.rules[k].to
    BY RewindFacts
  <2>. QED
    BY <1>1, <1>13, <2>1
<1>14. CacheFits(pipe, e.cache)
  BY <1>3, <1>6
<1>15. pipe.rules[e.rewind.rule].to <= r.to
  BY <1>1, <1>6
<1>16. Lands(pipe, Reset(pipe, before, e, here, r.to), e, w, r.to)
  <2>. DEFINE c == Reset(pipe, before, e, here, r.to)
  <2>. HIDE DEF c, T, S, r
  <2>. QED
    BY <1>6, <1>7, <1>8, <1>9, <1>10, <1>11, <1>12, <1>13, <1>14, <1>15 DEF Lands, c
<1>. QED
  BY <1>16 DEF e, w

-----------------------------------------------------------------------------
(* The steps that go on, or end the run. *)

\* A visit that begins is well formed and has not failed.
LEMMA NewVisitShape == VisitShape(NewVisit) /\ NewVisit.failed = "no"
  BY DEF VisitShape, NewVisit

\* A run that fails keeps what its rewind wrote.
LEMMA FailRunKeeps ==
  ASSUME ShapeInv, NEW s, NEW h, StoreShape(pipe, s), KeptShape(h), CacheFits(pipe, s.cache),
         Fits(pipe, s, h.standing), StandingOK(pipe, h.standing),
         FailRun(s), kept' = h, UNCHANGED <<pipe, visits, ctxEnded>>
  PROVE  FlowInv'
<1>. DEFINE e == EndRewind(s, TRUE)
<1>1. /\ store' = e /\ pc' = "done" /\ visit' = NewVisit /\ at' = at /\ before' = before /\ pipe' = pipe
      /\ visits' = visits
  BY DEF FailRun
<1>2. StoreShape(pipe, e) /\ IsEnded(e, s)
  BY EndRewindGives
<1>. HIDE DEF e
<1>3. ShapeInv'
  BY <1>1, <1>2, NewVisitShape DEF ShapeInv
<1>4. Fits(pipe, e, h.standing)
  BY <1>2, SameFits DEF IsEnded
<1>5. CacheFits(pipe, e.cache) /\ ~e.rewind.on
  BY <1>2 DEF IsEnded
<1>6. RewindInv' /\ BeforeInv' /\ StandingInv' /\ VisitInv'
  <2>1. RewindInv'
    BY <1>1, <1>5 DEF RewindInv
  <2>2. BeforeInv'
    BY <1>1 DEF BeforeInv
  <2>3. StandingInv'
    BY <1>1 DEF StandingInv
  <2>4. VisitInv'
    BY <1>1, NewVisitShape DEF VisitInv
  <2>. QED
    BY <2>1, <2>2, <2>3, <2>4
<1>. QED
  BY <1>1, <1>3, <1>4, <1>5, <1>6 DEF FlowInv

\* A run goes on where it lands.
LEMMA ContinueKeeps ==
  ASSUME ShapeInv, NEW s, NEW h, NEW here, NEW next,
         Lands(pipe, Reset(pipe, before, s, here, next), s, h, next),
         Continue(s, here, next), kept' = h, UNCHANGED <<pipe, visits, ctxEnded>>
  PROVE  FlowInv'
<1>. DEFINE b == Reset(pipe, before, s, here, next)
<1>1. before' = b /\ visit' = NewVisit /\ pipe' = pipe /\ visits' = visits
  BY DEF Continue, Reset
<1>2. /\ StoreShape(pipe, s) /\ KeptShape(h) /\ BeforeShape(pipe, b) /\ CacheFits(pipe, s.cache)
      /\ Fits(pipe, s, h.standing) /\ StandingOK(pipe, h.standing)
  BY DEF Lands
<1>3. CASE next \in Steps(pipe)
  <2>1. store' = s /\ at' = next /\ pc' = "next"
    BY <1>3 DEF Continue
  <2>2. /\ \A c \in h.standing : c.id.step < next
        /\ Reached(pipe, h.standing, next, h.failedBack)
        /\ s.rewind.on => RewindFits(pipe, s, h) /\ pipe.rules[s.rewind.rule].to <= next
        /\ \A j \in Rewinds(pipe) : pipe.rules[j].to < next /\ next <= pipe.rules[j].from
                                      => BeforeFits(pipe, b, h.standing, pipe.rules[j])
    BY <1>3 DEF Lands
  <2>. HIDE DEF b
  <2>3. ShapeInv'
    BY <1>1, <1>2, <1>3, <2>1, NewVisitShape DEF ShapeInv
  <2>4. RewindInv'
    BY <1>1, <2>1, <2>2 DEF RewindInv, Running, Rule
  <2>5. BeforeInv'
    BY <1>1, <2>1, <2>2 DEF BeforeInv, Rule
  <2>6. StandingInv'
    <3>1. next \in Int /\ \A c \in h.standing : c.id.step \in Int
      BY <1>2, <1>3, PipelinesAssumption DEF ShapeInv, StandingOK, Steps
    <3>2. Before(h.standing, next) = h.standing /\ ~Has(h.standing, next)
      BY <2>2, <3>1 DEF Before, Has
    <3>3. \A c \in h.standing : c.id.step <= next
      BY <2>2, <3>1
    <3>. QED
      BY <1>1, <1>2, <2>1, <2>2, <3>2, <3>3 DEF StandingInv
  <2>7. VisitInv'
    BY <1>1, <2>1, NewVisitShape DEF VisitInv
  <2>. QED
    BY <1>1, <1>2, <2>1, <2>3, <2>4, <2>5, <2>6, <2>7 DEF FlowInv
<1>4. CASE next \notin Steps(pipe)
  <2>. DEFINE e == EndRewind(s, TRUE)
  <2>1. store' = e /\ at' = at /\ pc' = "done"
    BY <1>4 DEF Continue
  <2>2. StoreShape(pipe, e) /\ IsEnded(e, s)
    BY <1>2, EndRewindGives
  <2>. HIDE DEF e, b
  <2>3. ShapeInv'
    BY <1>1, <1>2, <2>1, <2>2, NewVisitShape DEF ShapeInv
  <2>4. Fits(pipe, e, h.standing)
    BY <1>2, <2>2, SameFits DEF IsEnded
  <2>5. CacheFits(pipe, e.cache) /\ ~e.rewind.on
    BY <1>2, <2>2 DEF IsEnded
  <2>6. RewindInv'
    BY <2>1, <2>5 DEF RewindInv
  <2>7. BeforeInv'
    BY <2>1 DEF BeforeInv
  <2>8. StandingInv'
    BY <1>1, <1>2, <2>1 DEF StandingInv
  <2>9. VisitInv'
    BY <1>1, <2>1, NewVisitShape DEF VisitInv
  <2>. QED
    BY <1>1, <1>2, <2>1, <2>3, <2>4, <2>5, <2>6, <2>7, <2>8, <2>9 DEF FlowInv
<1>. QED
  BY <1>3, <1>4

\* A run that is ready goes on, or ends.
LEMMA FollowKeeps ==
  ASSUME ShapeInv, NEW s, NEW h, NEW here, NEW i, NEW k, NEW amends,
         Ready(pipe, before, s, h, here, i, k),
         Follow(s, h, here, i, k, amends), UNCHANGED <<pipe, visits, ctxEnded>>
  PROVE  FlowInv'
<1>1. /\ StoreShape(pipe, s) /\ KeptShape(h) /\ CacheFits(pipe, s.cache)
      /\ Fits(pipe, s, h.standing) /\ StandingOK(pipe, h.standing)
      /\ k # 0 => k \in DOMAIN pipe.rules
      /\ i \in Nat
  BY PipelinesAssumption DEF Ready, GoesOn, Steps, ShapeInv
<1>2. pipe \in Pipelines
  BY DEF ShapeInv
<1>3. CASE k = 0 /\ Continue(s, here, i + 1) /\ kept' = h
  <2>1. Lands(pipe, Reset(pipe, before, s, here, i + 1), s, h, i + 1)
    BY <1>1, <1>2, <1>3, ForwardLands
  <2>. QED
    BY <1>3, <2>1, ContinueKeeps
<1>4. CASE k # 0 /\ Rule(k).to = Fail /\ FailRun(s) /\ kept' = h
  BY <1>1, <1>4, FailRunKeeps
<1>5. CASE k # 0 /\ Rule(k).to # Fail /\ ~Rewind(Rule(k)) /\ Continue(s, here, Rule(k).to) /\ kept' = h
  <2>. DEFINE next == pipe.rules[k].to
  <2>1. next \in Nat /\ pipe.rules[k].to # Fail /\ ~Rewind(pipe.rules[k]) /\ next = pipe.rules[k].to
    BY <1>1, <1>2, <1>5, RuleFacts DEF Rule
  <2>2. Continue(s, here, next)
    BY <1>5 DEF Rule
  <2>. HIDE DEF next
  <2>3. Lands(pipe, Reset(pipe, before, s, here, next), s, h, next)
    BY <1>2, <1>5, <2>1, ForwardLands
  <2>. QED
    BY <1>5, <2>2, <2>3, ContinueKeeps
<1>6. CASE k # 0 /\ Rewind(Rule(k)) /\ Continue(StartRewind(s, k, amends), here, Rule(k).to)
           /\ kept' = KeepRewound(h, s, k)
  <2>. DEFINE e == StartRewind(s, k, amends)
              w == KeepRewound(h, s, k)
              next == Rule(k).to
  <2>1. k \in Rewinds(pipe)
    BY <1>1, <1>6 DEF Rewinds, Rule
  <2>2. Lands(pipe, Reset(pipe, before, e, here, next), e, w, next)
    BY <1>2, <2>1, RewindLands
  <2>3. Continue(e, here, next) /\ kept' = w
    BY <1>6
  <2>. HIDE DEF e, w, next
  <2>. QED
    BY <2>2, <2>3, ContinueKeeps
<1>. QED
  BY <1>3, <1>4, <1>5, <1>6 DEF Follow

-----------------------------------------------------------------------------
(* The steps that stay at a step. *)

\* What the inductive invariant says but for the visit in progress.
FrameInv ==
  /\ ShapeInv
  /\ Fits(pipe, store, kept.standing)
  /\ CacheFits(pipe, store.cache)
  /\ RewindInv /\ BeforeInv /\ StandingInv

\* The invariant is the part about the run and the part about the current visit.
LEMMA FlowInvParts ==
  (FlowInv <=> FrameInv /\ VisitInv) /\ (FlowInv' <=> FrameInv' /\ VisitInv')
  BY DEF FlowInv, FrameInv

\* A step of the visit that changes neither the state nor the history keeps them right.
LEMMA VisitFrame ==
  ASSUME FrameInv, pc \in {"step", "succeeded", "failed", "rules"},
         pc' \in {"step", "succeeded", "failed", "rules"}, pc = "rules" => pc' = "rules",
         UNCHANGED <<pipe, at, visits, before, store, kept>>, VisitShape(visit')
  PROVE  FrameInv'
<1>1. ShapeInv'
  BY DEF FrameInv, ShapeInv
<1>2. RewindInv'
  BY DEF FrameInv, RewindInv, Running, Rule
<1>3. BeforeInv'
  BY DEF FrameInv, BeforeInv, Rule
<1>4. StandingInv'
  BY DEF FrameInv, StandingInv
<1>. QED
  BY <1>1, <1>2, <1>3, <1>4 DEF FrameInv

\* The fields that a rewind's fit depends on.
LEMMA SameRewindFits ==
  ASSUME NEW p, NEW s, NEW e, NEW h, RewindFits(p, s, h),
         e.values = s.values, e.defaulted = s.defaulted, e.cache = s.cache,
         e.rewind.rule = s.rewind.rule, e.rewind.prev = s.rewind.prev,
         e.rewind.replaced = s.rewind.replaced
  PROVE  RewindFits(p, e, h)
<1>. DEFINE then == h.taken
<1>1. KeepsWhatHeld(p, s, then) /\ HeldThen(p, p.rules[s.rewind.rule], then, h.standing, h.failedBack)
  BY DEF RewindFits
<1>. HIDE DEF then
<1>2. ASSUME NEW key, SameAt(s, then.state, key) PROVE SameAt(e, then.state, key)
  BY <1>2 DEF SameAt
<1>3. ASSUME NEW x, JournalFits(s, then.cache, x) PROVE JournalFits(e, then.cache, x)
  BY <1>3 DEF JournalFits
<1>4. KeepsWhatHeld(p, e, then)
  BY <1>1, <1>2, <1>3 DEF KeepsWhatHeld
<1>. QED
  BY <1>1, <1>4 DEF RewindFits, then

\* Storing a result in the step cache keeps the journal right.
LEMMA CachedRewindFits ==
  ASSUME NEW p, NEW s, NEW e, NEW h, NEW entry, NEW result, RewindFits(p, s, h), s.rewind.on,
         IsCached(e, s, entry, result)
  PROVE  RewindFits(p, e, h)
<1>. DEFINE then == h.taken
<1>1. KeepsWhatHeld(p, s, then) /\ HeldThen(p, p.rules[s.rewind.rule], then, h.standing, h.failedBack)
  BY DEF RewindFits
<1>. HIDE DEF then
<1>2. ASSUME NEW key, SameAt(s, then.state, key) PROVE SameAt(e, then.state, key)
  BY <1>2 DEF SameAt, IsCached
<1>3. ASSUME NEW x, JournalFits(s, then.cache, x) PROVE JournalFits(e, then.cache, x)
  <2>. DEFINE new == e.rewind.replaced
              old == s.rewind.replaced
  <2>1. /\ x \in DOMAIN e.cache <=> x \in DOMAIN s.cache \/ x = entry
        /\ x \in DOMAIN e.cache => e.cache[x] = IF x = entry THEN result ELSE s.cache[x]
        /\ x \in DOMAIN new <=> x \in DOMAIN old \/ x = entry
        /\ x \in DOMAIN new => new[x] = IF x \in DOMAIN old THEN old[x]
                                        ELSE IF x \in DOMAIN s.cache THEN {s.cache[x]} ELSE {}
    BY DEF IsCached
  <2>2. IF x \in DOMAIN old
        THEN old[x] = IF x \in DOMAIN then.cache THEN {then.cache[x]} ELSE {}
        ELSE /\ x \in DOMAIN s.cache <=> x \in DOMAIN then.cache
             /\ x \in DOMAIN then.cache => s.cache[x] = then.cache[x]
    BY <1>3 DEF JournalFits
  <2>. HIDE DEF new, old
  <2>3. CASE x \in DOMAIN new
    <3>1. new[x] = IF x \in DOMAIN then.cache THEN {then.cache[x]} ELSE {}
      BY <2>1, <2>2, <2>3
    <3>. QED
      BY <2>3, <3>1 DEF JournalFits, new
  <2>4. CASE x \notin DOMAIN new
    <3>1. /\ x \in DOMAIN e.cache <=> x \in DOMAIN then.cache
          /\ x \in DOMAIN then.cache => e.cache[x] = then.cache[x]
      BY <2>1, <2>2, <2>4
    <3>. QED
      BY <2>4, <3>1 DEF JournalFits, new
  <2>. QED
    BY <2>3, <2>4
<1>4. e.rewind.rule = s.rewind.rule /\ e.rewind.prev = s.rewind.prev
  BY DEF IsCached
<1>5. KeepsWhatHeld(p, e, then)
  BY <1>1, <1>2, <1>3, <1>4 DEF KeepsWhatHeld
<1>. QED
  BY <1>1, <1>4, <1>5 DEF RewindFits, then

\* The run goes on past the rewinds it has left, and visits its step.
LEMMA BeginVisitKeeps ==
  ASSUME FlowInv, BeginVisit
  PROVE  FlowInv'
<1>. DEFINE ends == store.rewind.on /\ at > Running.from
            s == IF ends THEN EndRewind(store, TRUE) ELSE store
            amends == s.rewind.amended /\ Running.to = at
            S == kept.standing
            snapshot == Snapshot(s)
<1>1. /\ pc = "next" /\ visits' = [visits EXCEPT ![at] = @ + 1]
      /\ before' = IF at \in Targets(pipe) THEN [before EXCEPT ![at] = snapshot] ELSE before
      /\ store' = IF amends THEN [s EXCEPT !.rewind.amended = FALSE] ELSE s
      /\ visit' = [NewVisit EXCEPT !.amended = amends, !.failed = IF ctxEnded THEN "ended" ELSE "no"]
      /\ pc' = IF ctxEnded THEN "failed" ELSE "step"
      /\ pipe' = pipe /\ at' = at /\ kept' = kept
  BY DEF BeginVisit
<1>2. /\ ShapeInv /\ Fits(pipe, store, S) /\ CacheFits(pipe, store.cache)
      /\ RewindInv /\ BeforeInv /\ StandingInv
  BY DEF FlowInv
<1>3. /\ StoreShape(pipe, store) /\ at \in Steps(pipe) /\ pipe \in Pipelines /\ KeptShape(kept)
      /\ BeforeShape(pipe, before) /\ visits \in [Steps(pipe) -> Nat] /\ pipe.n \in Nat
  BY <1>2, PipelinesAssumption DEF ShapeInv
<1>4. /\ StoreShape(pipe, s)
      /\ s.values = store.values /\ s.defaulted = store.defaulted /\ s.cache = store.cache
      /\ s.rewind.on => ~ends /\ s = store
  BY <1>3, EndRewindGives DEF IsEnded
<1>. HIDE DEF s, amends, snapshot
<1>5. /\ StoreShape(pipe, store') /\ store'.values = s.values /\ store'.defaulted = s.defaulted
      /\ store'.cache = s.cache
      /\ store'.rewind.on = s.rewind.on /\ store'.rewind.rule = s.rewind.rule
      /\ store'.rewind.prev = s.rewind.prev /\ store'.rewind.replaced = s.rewind.replaced
  <2>. DEFINE r == s.rewind
              w == [r EXCEPT !.amended = FALSE]
              e == [s EXCEPT !.rewind = w]
  <2>1. /\ DOMAIN s = {"values", "defaulted", "cache", "memory", "rewind"}
        /\ DOMAIN r = {"on", "rule", "prev", "amended", "stage", "replaced"}
        /\ RewindShape(pipe, r)
    BY <1>4 DEF StoreShape, RewindShape
  <2>2. store' = IF amends THEN e ELSE s
    BY <1>1, <2>1
  <2>. HIDE DEF r
  <2>3. /\ w.on = r.on /\ w.rule = r.rule /\ w.prev = r.prev /\ w.stage = r.stage
        /\ w.replaced = r.replaced /\ DOMAIN w = DOMAIN r /\ w = [x \in DOMAIN w |-> w[x]]
    BY <2>1
  <2>. HIDE DEF w
  <2>4. RewindShape(pipe, w)
    <3>1. w = [on |-> w.on, rule |-> w.rule, prev |-> w.prev, amended |-> w.amended,
               stage |-> w.stage, replaced |-> w.replaced]
      BY <2>1, <2>3
    <3>. QED
      BY <2>1, <2>3, <3>1 DEF RewindShape
  <2>5. /\ e.values = s.values /\ e.defaulted = s.defaulted /\ e.cache = s.cache /\ e.memory = s.memory
        /\ e.rewind = w /\ DOMAIN e = DOMAIN s /\ e = [x \in DOMAIN e |-> e[x]]
    BY <2>1
  <2>. HIDE DEF e
  <2>6. e = [values |-> e.values, defaulted |-> e.defaulted, cache |-> e.cache, memory |-> e.memory,
             rewind |-> e.rewind]
    BY <2>1, <2>5
  <2>7. StoreShape(pipe, e)
    BY <1>4, <2>4, <2>5, <2>6 DEF StoreShape
  <2>. QED
    BY <1>4, <2>2, <2>3, <2>5, <2>7 DEF r
<1>6. SnapshotShape(snapshot) /\ snapshot.values = store.values /\ snapshot.defaulted = store.defaulted
  BY <1>4, SnapshotShapeOf DEF snapshot, Snapshot
<1>7. VisitShape(visit') /\ visit'.rule = 0 /\ visit'.verdict = "none" /\ visit'.failed # "unmerged"
  BY <1>1 DEF VisitShape, NewVisit
<1>8. BeforeShape(pipe, before')
  <2>1. before = [i \in Steps(pipe) |-> before[i]] /\ \A i \in Steps(pipe) : SnapshotShape(before[i])
    BY <1>3 DEF BeforeShape
  <2>2. before' = [i \in Steps(pipe) |-> before'[i]]
    BY <1>1, <2>1
  <2>3. \A i \in Steps(pipe) : before'[i] = before[i] \/ before'[i] = snapshot
    BY <1>1, <2>1
  <2>. QED
    BY <1>6, <2>1, <2>2, <2>3 DEF BeforeShape
<1>9. ShapeInv'
  <2>1. visits' \in [Steps(pipe) -> Nat]
    BY <1>1, <1>3
  <2>. QED
    BY <1>1, <1>3, <1>5, <1>7, <1>8, <2>1 DEF ShapeInv
<1>10. Fits(pipe, store', S) /\ CacheFits(pipe, store'.cache)
  BY <1>2, <1>4, <1>5, SameFits
<1>11. RewindInv'
  <2>1. SUFFICES ASSUME store'.rewind.on
                 PROVE  /\ RewindFits(pipe, store', kept)
                        /\ pipe.rules[store'.rewind.rule].to <= at /\ pc' # "done"
                        /\ at <= pipe.rules[store'.rewind.rule].from
    BY <1>1 DEF RewindInv, Running, Rule
  <2>2. s = store /\ ~ends /\ store.rewind.on /\ store'.rewind.rule = store.rewind.rule
    BY <1>4, <1>5, <2>1
  <2>3. RewindFits(pipe, store, kept) /\ Running.to <= at
    BY <1>2, <2>2 DEF RewindInv
  <2>4. RewindFits(pipe, store', kept)
    BY <1>5, <2>2, <2>3, SameRewindFits
  <2>5. Running = pipe.rules[store.rewind.rule] /\ store.rewind.rule \in Rewinds(pipe)
    BY <1>3, <2>2 DEF Running, Rule, StoreShape, RewindShape
  <2>6. Running.from \in 1..pipe.n /\ at \in 1..pipe.n
    BY <1>3, <2>5, RewindFacts DEF Steps
  <2>7. at <= Running.from
    BY <2>2, <2>6
  <2>. QED
    BY <1>1, <2>2, <2>3, <2>4, <2>5, <2>7
<1>12. ~Has(S, at) /\ Before(S, at) = S /\ Reached(pipe, Before(S, at), at, kept.failedBack)
       /\ StandingOK(pipe, S) /\ \A c \in S : c.id.step <= at
  <2>1. ~Has(S, at) /\ StandingOK(pipe, S) /\ \A c \in S : c.id.step <= at
    BY <1>1, <1>2 DEF StandingInv
  <2>2. \A c \in S : c.id.step \in Int /\ at \in Int
    BY <1>3, <2>1 DEF StandingOK, Steps
  <2>3. Before(S, at) = S
    BY <2>1, <2>2 DEF Has, Before
  <2>. QED
    BY <1>1, <1>2, <2>1, <2>3 DEF StandingInv
<1>13. BeforeInv'
  <2>1. SUFFICES ASSUME NEW k \in Rewinds(pipe), pipe.rules[k].to <= at, at <= pipe.rules[k].from
                 PROVE  BeforeFits(pipe, before', S, pipe.rules[k])
    BY <1>1 DEF BeforeInv, Rule
  <2>. DEFINE r == pipe.rules[k]
  <2>2. r.to \in 1..pipe.n /\ r.to \in Targets(pipe) /\ r.to \in Steps(pipe)
    BY <1>3, RewindFacts DEF Steps
  <2>3. before = [i \in Steps(pipe) |-> before[i]]
    BY <1>3 DEF BeforeShape
  <2>4. CASE r.to = at
    <3>1. before'[r.to] = snapshot
      BY <1>1, <2>2, <2>3, <2>4
    <3>2. Fits(pipe, snapshot, S)
      BY <1>2, <1>6, SameFits
    <3>3. Before(S, r.to) = S
      BY <1>12, <2>4
    <3>. QED
      BY <3>1, <3>2, <3>3 DEF BeforeFits, Fits
  <2>5. CASE r.to # at
    <3>1. before'[r.to] = before[r.to]
      BY <1>1, <2>2, <2>3, <2>5
    <3>2. r.to < at
      BY <1>3, <2>1, <2>2, <2>5 DEF Steps
    <3>3. BeforeFits(pipe, before, S, r)
      BY <1>1, <1>2, <2>1, <3>2 DEF BeforeInv, Rule
    <3>. QED
      BY <3>1, <3>3 DEF BeforeFits
  <2>. QED
    BY <2>4, <2>5
<1>14. StandingInv'
  BY <1>1, <1>12 DEF StandingInv
<1>15. VisitInv'
  BY <1>1, <1>7 DEF VisitInv
<1>. QED
  BY <1>1, <1>9, <1>10, <1>11, <1>13, <1>14, <1>15 DEF FlowInv

\* A cached result, or the writes of this visit, are some that the step may make.
LEMMA ResultsFit ==
  ASSUME ShapeInv, CacheFits(pipe, store.cache), NEW result \in Results
  PROVE  MayWrite(pipe, at, result.writes)
<1>1. CASE CacheHit
  <2>1. result = store.cache[Entry] /\ Entry \in DOMAIN store.cache
    BY <1>1 DEF Results, CacheHit
  <2>2. Entry.step = at
    BY DEF Entry
  <2>. QED
    BY <2>1, <2>2 DEF CacheFits
<1>2. CASE ~CacheHit
  <2>1. PICK w \in SUBSET pipe.writes[at] : /\ pipe.writes[at] \ pipe.preserves[at] \subseteq w
                                            /\ result = [writes |-> w, by |-> This]
    BY <1>2 DEF Results
  <2>. QED
    BY <2>1 DEF MayWrite
<1>. QED
  BY <1>1, <1>2

\* What Build promises of writes: only a run that failed back finds a write it cannot merge.
LEMMA UnmergedOnlyAfterFailure ==
  ASSUME FlowInv, pc = "step", NEW w, MayWrite(pipe, at, w), ~(Merged(w) \subseteq pipe.merges)
  PROVE  kept.failedBack
<1>. DEFINE S == kept.standing
<1>1. PICK key \in Merged(w) : key \notin pipe.merges
  OBVIOUS
<1>2. key \in pipe.writes[at] /\ key \in DOMAIN store.values /\ key \notin store.defaulted
  BY <1>1 DEF Merged, MayWrite
<1>3. /\ pipe \in Pipelines /\ at \in Steps(pipe) /\ Holds(pipe, store, S, key)
      /\ StandingOK(pipe, S) /\ Reached(pipe, Before(S, at), at, kept.failedBack)
      /\ \A c \in S : c.id.step <= at
      /\ ~Has(S, at)
  BY DEF FlowInv, ShapeInv, Fits, StandingInv
<1>4. WritesValid(pipe, at) /\ pipe.n \in Nat
  BY <1>3, PipelinesAssumption DEF Accepted
<1>5. PICK c \in S : key \in c.writes
  BY <1>2, <1>3, <1>4 DEF Holds, Writers, WritesValid
<1>. DEFINE j == c.id.step
            writers == EarlierWriters(pipe, key, at)
<1>6. j \in 1..(at - 1) /\ j < at /\ key \in pipe.writes[j]
  BY <1>3, <1>4, <1>5 DEF StandingOK, MayWrite, Steps, Has
<1>7. j \in writers
  BY <1>6 DEF EarlierWriters
<1>8. ~BothCommit(pipe, key, at)
  BY <1>1, <1>2, <1>4, <1>7 DEF WritesValid
<1>9. c \in Before(S, at)
  BY <1>6 DEF Before
<1>10. SUFFICES ASSUME ~kept.failedBack PROVE FALSE
  OBVIOUS
<1>11. \/ \E to \in Continuations(pipe, j) : to <= at
       \/ \E t \in Targets(pipe) : j < t /\ t <= at
  BY <1>3, <1>9, <1>10 DEF Reached, Arrived
<1>12. Min(writers) <= j /\ Min(writers) \in Nat
  <2>1. writers \in SUBSET Nat /\ writers # {}
    BY <1>3, <1>4, <1>7 DEF EarlierWriters, Steps
  <2>. HIDE DEF writers
  <2>. QED
    BY <1>7, <2>1, MinIn
<1>13. \A t \in Targets(pipe) : t \in Nat
  BY <1>3, RewindFacts DEF Targets
<1>14. BothCommit(pipe, key, at)
  <2>1. CASE \E to \in Continuations(pipe, j) : to <= at
    BY <1>7, <2>1 DEF BothCommit
  <2>2. CASE \E t \in Targets(pipe) : j < t /\ t <= at
    <3>1. PICK t \in Targets(pipe) : j < t /\ t <= at
      BY <2>2
    <3>2. Min(writers) < t
      BY <1>6, <1>12, <1>13, <3>1
    <3>. QED
      BY <3>1, <3>2 DEF BothCommit
  <2>. QED
    BY <1>11, <2>1, <2>2
<1>. QED
  BY <1>8, <1>14

\* What Build promises of reads: every key that a step reads has a value.
LEMMA ReadsHaveValues ==
  ASSUME FlowInv, pc = "step"
  PROVE  pipe.reads[at] \subseteq DOMAIN store.values
<1>. DEFINE S == kept.standing
<1>1. /\ pipe \in Pipelines /\ at \in Steps(pipe) /\ Fits(pipe, store, S)
      /\ StandingOK(pipe, S) /\ CoveredTo(pipe, Before(S, at), at)
  BY DEF FlowInv, ShapeInv, StandingInv, Reached
<1>2. /\ \A i \in Steps(pipe) : ReadsValid(pipe, i) /\ WritesValid(pipe, i)
      /\ pipe.n \in Nat
  BY <1>1, PipelinesAssumption DEF Accepted
<1>3. SUFFICES ASSUME NEW key \in pipe.reads[at], key \notin pipe.inputs \union pipe.defaults
               PROVE  Writers(S, key) # {}
  BY <1>1 DEF Fits, Holds
<1>. DEFINE writers == EarlierWriters(pipe, key, at)
            first == Min(writers)
<1>4. writers # {} /\ \A j \in writers : ~MayNotWrite(pipe, j)
  BY <1>1, <1>2, <1>3 DEF ReadsValid
<1>5. writers \in SUBSET Nat
  BY <1>1, <1>2 DEF EarlierWriters, Steps
<1>6. first \in writers /\ \A j \in writers : first <= j
  <2>. HIDE DEF writers
  <2>. QED
    BY <1>4, <1>5, MinIn
<1>. HIDE DEF first
<1>7. first \in 1..(at - 1) /\ first \in Steps(pipe) /\ key \in pipe.writes[first]
  BY <1>1, <1>2, <1>6 DEF EarlierWriters, Steps
<1>8. PICK c \in Before(S, at) : c.id.step = first
  BY <1>1, <1>4, <1>6, <1>7 DEF CoveredTo, Has
<1>9. key \notin pipe.preserves[first]
  <2>1. SUFFICES ASSUME key \in pipe.preserves[first] PROVE FALSE
    OBVIOUS
  <2>2. key \in pipe.reads[first]
    BY <1>2, <1>7, <2>1 DEF WritesValid
  <2>3. EarlierWriters(pipe, key, first) # {}
    BY <1>2, <1>3, <1>7, <2>2 DEF ReadsValid
  <2>4. PICK j \in EarlierWriters(pipe, key, first) : TRUE
    BY <2>3
  <2>5. j \in writers /\ j < first
    BY <1>1, <1>2, <1>7, <2>4 DEF EarlierWriters, Steps
  <2>. QED
    BY <1>5, <1>6, <2>5
<1>10. key \in c.writes /\ c \in S
  BY <1>1, <1>7, <1>8, <1>9 DEF StandingOK, MayWrite, Before
<1>. QED
  BY <1>10 DEF Writers

\* A rewind is judged at its From, in a run whose rewind is running.
LEMMA VerdictsFit ==
  ASSUME NEW verdict \in Verdicts
  PROVE  verdict \in {"reject", "panic"} => EndsRewind(at) /\ Running.accept
  BY DEF Verdicts

\* A visit that succeeds goes on by a rule that may match, and is not taken back by a rewind.
LEMMA DecidedFits ==
  ASSUME pipe \in Pipelines, NEW v, VisitShape(v), v.rule = 0, NEW verdict, NEW w \in Decided(v, verdict)
  PROVE  /\ VisitShape(w) /\ w.writes = v.writes /\ w.verdict = verdict
         /\ w.failed = "no" => Onward(pipe, at, w.rule)
         /\ w.failed = "no" /\ verdict = "reject" => w.rule = 0 \/ ~Rewind(Rule(w.rule))
         /\ w.failed = v.failed \/ w.failed # "unmerged"
<1>. DEFINE u == [v EXCEPT !.verdict = verdict]
            K == {k \in SuccessRules(pipe, at) : verdict = "reject" => ~Rewind(Rule(k))}
            matched == {k \in MayMatch(K) : ~(Rewind(Rule(k)) /\ Exhausted(k))}
<1>1. VisitShape(u) /\ u.writes = v.writes /\ u.verdict = verdict /\ u.rule = 0 /\ u.failed = v.failed
  BY DEF VisitShape
<1>2. \/ verdict = "panic" /\ w = [u EXCEPT !.failed = "hook"]
      \/ verdict # "panic" /\ \E k \in matched : w = [u EXCEPT !.rule = k, !.amends = Rule(k).amend]
      \/ verdict # "panic" /\ w = [u EXCEPT !.failed = "hook"]
      \/ verdict # "panic" /\ w = [u EXCEPT !.failed = "maxvisits", !.maxed = TRUE]
      \/ verdict # "panic" /\ NoneMayMatch(K) /\ w = u
  <2>. HIDE DEF u, K
  <2>. QED
    BY DEF Decided, u, K
<1>. HIDE DEF u
<1>3. CASE w = [u EXCEPT !.failed = "hook"] \/ w = [u EXCEPT !.failed = "maxvisits", !.maxed = TRUE]
  BY <1>1, <1>3 DEF VisitShape
<1>4. CASE \E k \in matched : w = [u EXCEPT !.rule = k, !.amends = Rule(k).amend]
  <2>1. PICK k \in matched : w = [u EXCEPT !.rule = k, !.amends = Rule(k).amend]
    BY <1>4
  <2>2. VisitShape(w) /\ w.writes = v.writes /\ w.verdict = verdict /\ w.rule = k /\ w.failed = v.failed
    <3>. DEFINE a == Rule(k).amend
    <3>1. w = [u EXCEPT !.rule = k, !.amends = a]
      BY <2>1
    <3>. HIDE DEF a
    <3>. QED
      BY <1>1, <3>1 DEF VisitShape
  <2>3. k \in K /\ \A j \in K : j < k => ~Rule(j).always
    BY <2>1 DEF MayMatch
  <2>4. k \in SuccessRules(pipe, at) /\ (verdict = "reject" => ~Rewind(Rule(k)))
    BY <2>3
  <2>5. \A j \in SuccessRules(pipe, at) : j < k => Rewind(Rule(j)) \/ ~Rule(j).always
    BY <2>3
  <2>6. Onward(pipe, at, k)
    <3>1. k # 0
      BY <2>4, RuleFacts DEF SuccessRules
    <3>. QED
      BY <2>4, <2>5, <3>1 DEF Onward, Rule
  <2>. QED
    BY <2>2, <2>4, <2>6
<1>5. CASE NoneMayMatch(K) /\ w = u
  BY <1>1, <1>5 DEF NoneMayMatch, Onward, Rule
<1>. QED
  BY <1>2, <1>3, <1>4, <1>5

\* A step that fails leaves the state as it was.
LEMMA StepFailsKeeps ==
  ASSUME FlowInv, StepFails
  PROVE  FlowInv'
<1>1. /\ pc = "step" /\ pc' = "failed" /\ visit' = [visit EXCEPT !.failed = "step"]
      /\ UNCHANGED <<pipe, at, visits, before, store, kept>>
  BY DEF StepFails, VisitFails
<1>2. VisitShape(visit) /\ visit.verdict = "none"
  BY <1>1 DEF FlowInv, ShapeInv, VisitInv
<1>3. VisitShape(visit') /\ visit'.verdict = "none" /\ visit'.failed = "step"
  BY <1>1, <1>2 DEF VisitShape
<1>4. FrameInv'
  BY <1>1, <1>3, VisitFrame, FlowInvParts
<1>5. VisitInv'
  BY <1>1, <1>3 DEF VisitInv
<1>. QED
  BY <1>4, <1>5, FlowInvParts

\* A step that returns has its writes and verdict decided, and changes only the step cache.
LEMMA StepReturnsKeeps ==
  ASSUME FlowInv, StepReturns
  PROVE  FlowInv'
<1>1. /\ pc = "step" /\ UNCHANGED <<pipe, at, visits, before, kept>>
  BY DEF StepReturns
<1>2. /\ VisitShape(visit) /\ visit.rule = 0 /\ visit.verdict = "none"
      /\ visit.failed = "unmerged" => kept.failedBack
      /\ pipe \in Pipelines /\ at \in Steps(pipe) /\ FrameInv /\ ShapeInv /\ CacheFits(pipe, store.cache)
  BY <1>1 DEF FlowInv, ShapeInv, VisitInv, FrameInv
<1>3. PICK result \in Results :
       \/ /\ Merged(result.writes) # {}
          /\ VisitFails(visit, IF Merged(result.writes) \subseteq pipe.merges THEN "merge" ELSE "unmerged")
       \/ /\ Merged(result.writes) \subseteq pipe.merges
          /\ \E verdict \in Verdicts :
             \E w \in Decided([visit EXCEPT !.writes = result.writes, !.by = result.by], verdict) :
               \/ /\ w.failed # "no"
                  /\ VisitFails(w, w.failed)
               \/ /\ w.failed = "no"
                  /\ visit' = w
                  /\ pc' = "succeeded"
                  /\ store' = IF at \in pipe.cached /\ ~CacheHit
                              THEN StoreCached(store, Entry, result) ELSE store
  BY DEF StepReturns
<1>4. MayWrite(pipe, at, result.writes)
  BY <1>2, ResultsFit
<1>5. CASE VisitFails(visit, IF Merged(result.writes) \subseteq pipe.merges THEN "merge" ELSE "unmerged")
  <2>. DEFINE how == IF Merged(result.writes) \subseteq pipe.merges THEN "merge" ELSE "unmerged"
  <2>1. visit' = [visit EXCEPT !.failed = how] /\ pc' = "failed" /\ UNCHANGED store
    BY <1>5 DEF VisitFails
  <2>2. how = "unmerged" => kept.failedBack
    BY <1>1, <1>4, UnmergedOnlyAfterFailure
  <2>. HIDE DEF how
  <2>3. VisitShape(visit') /\ visit'.verdict = "none" /\ visit'.failed = how
    BY <1>2, <2>1 DEF VisitShape
  <2>4. FrameInv'
    BY <1>1, <1>2, <2>1, <2>3, VisitFrame
  <2>5. VisitInv'
    BY <1>1, <2>1, <2>2, <2>3 DEF VisitInv
  <2>. QED
    BY <2>4, <2>5, FlowInvParts
<1>6. ASSUME NEW verdict \in Verdicts,
             NEW w \in Decided([visit EXCEPT !.writes = result.writes, !.by = result.by], verdict),
             \/ /\ w.failed # "no"
                /\ VisitFails(w, w.failed)
             \/ /\ w.failed = "no"
                /\ visit' = w
                /\ pc' = "succeeded"
                /\ store' = IF at \in pipe.cached /\ ~CacheHit
                            THEN StoreCached(store, Entry, result) ELSE store
      PROVE  FlowInv'
  <2>. DEFINE v == [visit EXCEPT !.writes = result.writes, !.by = result.by]
  <2>1. VisitShape(v) /\ v.rule = 0 /\ v.writes = result.writes /\ v.failed = visit.failed
    <3>. DEFINE writes == result.writes
                by == result.by
    <3>1. v = [visit EXCEPT !.writes = writes, !.by = by]
      OBVIOUS
    <3>. HIDE DEF v, writes, by
    <3>2. VisitShape(v) /\ v.rule = 0 /\ v.writes = writes /\ v.failed = visit.failed
      BY <1>2, <3>1 DEF VisitShape
    <3>. QED
      BY <3>2 DEF writes
  <2>. HIDE DEF v
  <2>2. /\ VisitShape(w) /\ w.writes = result.writes /\ w.verdict = verdict
        /\ w.failed = "no" => Onward(pipe, at, w.rule)
        /\ w.failed = "no" /\ verdict = "reject" => w.rule = 0 \/ ~Rewind(Rule(w.rule))
        /\ w.failed = visit.failed \/ w.failed # "unmerged"
    <3>1. w \in Decided(v, verdict)
      BY <1>6 DEF v
    <3>. QED
      BY <1>2, <2>1, <3>1, DecidedFits
  <2>3. verdict \in {"reject", "panic"} => EndsRewind(at) /\ Running.accept
    BY VerdictsFit
  <2>4. CASE VisitFails(w, w.failed)
    <3>1. visit' = [w EXCEPT !.failed = w.failed] /\ pc' = "failed" /\ UNCHANGED store
      BY <2>4 DEF VisitFails
    <3>2. VisitShape(visit') /\ visit'.verdict = verdict /\ visit'.failed = w.failed
      BY <2>2, <3>1 DEF VisitShape
    <3>3. FrameInv'
      BY <1>1, <1>2, <3>1, <3>2, VisitFrame
    <3>4. EndsRewind(at)' /\ visit'.verdict \in {"reject", "panic"} => Running.accept'
      BY <1>1, <2>3, <3>1, <3>2 DEF EndsRewind, Running, Rule
    <3>5. visit'.failed = "unmerged" => kept.failedBack
      BY <1>2, <2>2, <3>2
    <3>6. VisitInv'
      BY <1>1, <3>1, <3>4, <3>5 DEF VisitInv
    <3>. QED
      BY <3>3, <3>6, FlowInvParts
  <2>5. CASE /\ w.failed = "no" /\ visit' = w /\ pc' = "succeeded"
             /\ store' = IF at \in pipe.cached /\ ~CacheHit
                         THEN StoreCached(store, Entry, result) ELSE store
    <3>1. /\ StoreShape(pipe, store') /\ store'.values = store.values /\ store'.defaulted = store.defaulted
          /\ CacheFits(pipe, store'.cache)
          /\ store'.rewind.on = store.rewind.on /\ store'.rewind.rule = store.rewind.rule
          /\ store.rewind.on /\ RewindFits(pipe, store, kept) => RewindFits(pipe, store', kept)
      <4>1. StoreShape(pipe, store)
        BY <1>2 DEF ShapeInv
      <4>2. CASE store' = store
        BY <1>2, <4>1, <4>2
      <4>3. CASE store' = StoreCached(store, Entry, result)
        <5>. DEFINE e == StoreCached(store, Entry, result)
                    entry == Entry
        <5>1. entry.step = at
          BY DEF Entry
        <5>2. StoreShape(pipe, e) /\ IsCached(e, store, entry, result)
          <6>1. e = StoreCached(store, entry, result)
            OBVIOUS
          <6>. HIDE DEF entry, e
          <6>. QED
            BY <4>1, <6>1, StoreCachedGives
        <5>. HIDE DEF entry, e
        <5>3. CacheFits(pipe, e.cache)
          BY <1>2, <1>4, <5>1, <5>2 DEF CacheFits, IsCached
        <5>4. store.rewind.on /\ RewindFits(pipe, store, kept) => RewindFits(pipe, e, kept)
          BY <5>2, CachedRewindFits
        <5>5. store' = e
          BY <4>3 DEF e
        <5>. QED
          BY <5>2, <5>3, <5>4, <5>5 DEF IsCached
      <4>. QED
        BY <2>5, <4>2, <4>3
    <3>2. ShapeInv'
      BY <1>1, <1>2, <2>2, <2>5, <3>1 DEF ShapeInv
    <3>3. Fits(pipe, store', kept.standing)
      BY <1>2, <3>1, SameFits DEF FrameInv
    <3>4. RewindInv'
      BY <1>1, <1>2, <2>5, <3>1 DEF FrameInv, RewindInv, Running, Rule
    <3>5. BeforeInv'
      BY <1>1, <1>2, <2>5 DEF FrameInv, BeforeInv, Rule
    <3>6. StandingInv'
      BY <1>1, <1>2, <2>5 DEF FrameInv, StandingInv
    <3>7. EndsRewind(at)' => EndsRewind(at) /\ Running' = Running
      BY <1>1, <3>1 DEF EndsRewind, Running, Rule
    <3>8. VisitInv'
      BY <1>1, <1>4, <2>2, <2>3, <2>5, <3>7 DEF VisitInv, Rule
    <3>. QED
      BY <1>1, <3>1, <3>2, <3>3, <3>4, <3>5, <3>6, <3>8 DEF FlowInv
  <2>. QED
    BY <1>6, <2>4, <2>5
<1>. QED
  BY <1>3, <1>5, <1>6

\* The end of the context changes nothing the invariant is about.
LEMMA EndContextKeeps ==
  ASSUME FlowInv, UNCHANGED <<pipe, pc, at, visits, before, store, visit, kept>>
  PROVE  FlowInv'
<1>1. ShapeInv'
  BY DEF FlowInv, ShapeInv
<1>2. RewindInv' /\ BeforeInv'
  BY DEF FlowInv, RewindInv, BeforeInv, Running, Rule
<1>3. StandingInv'
  BY DEF FlowInv, StandingInv
<1>4. VisitInv'
  BY SMTT(20) DEF FlowInv, VisitInv, EndsRewind, Running, Rule
<1>. QED
  BY <1>1, <1>2, <1>3, <1>4 DEF FlowInv

-----------------------------------------------------------------------------
(* Taking a rewind back. *)

\* What a rejection leaves, at a step of the range, for the rules of the From of the rewind.
LEMMA RejectionFits ==
  ASSUME FlowInv, store.rewind.on, pc \notin {"next", "done"},
         NEW s, s = RejectRewind(store), NEW h, h = KeepRejected(kept), NEW from, from = Running.from
  PROVE  /\ StoreShape(pipe, s) /\ KeptShape(h) /\ CacheFits(pipe, s.cache) /\ ~s.rewind.on
         /\ Fits(pipe, s, h.standing) /\ StandingOK(pipe, h.standing)
         /\ at \in Steps(pipe) /\ from \in Steps(pipe) /\ at <= from
         /\ \A c \in h.standing : c.id.step <= from
         /\ Reached(pipe, Before(h.standing, from), from, h.failedBack)
         /\ h.failedBack = kept.failedBack
         /\ Running.onError \/ Has(h.standing, from)
         /\ \A j \in Rewinds(pipe) : pipe.rules[j].to <= at /\ from <= pipe.rules[j].from
                                       => BeforeFits(pipe, before, h.standing, pipe.rules[j])
         /\ \A j \in Rewinds(pipe) : at < pipe.rules[j].to /\ from < pipe.rules[j].from
                                       => from < pipe.rules[j].to
<1>. DEFINE r == Running
            then == kept.taken
            S == kept.standing
<1>1. /\ StoreShape(pipe, store) /\ KeptShape(kept) /\ pipe \in Pipelines /\ at \in Steps(pipe)
      /\ BeforeInv /\ StandingInv /\ StandingOK(pipe, S)
  BY DEF FlowInv, ShapeInv, StandingInv
<1>2. /\ r = pipe.rules[store.rewind.rule] /\ store.rewind.rule \in Rewinds(pipe)
      /\ KeepsWhatHeld(pipe, store, then) /\ HeldThen(pipe, r, then, S, kept.failedBack)
      /\ r.to <= at /\ at <= r.from
  BY <1>1 DEF FlowInv, RewindInv, RewindFits, Running, Rule, StoreShape, RewindShape
<1>3. r.to \in 1..pipe.n /\ r.from \in 1..pipe.n /\ r.to <= r.from /\ pipe.n \in Nat
  BY <1>1, <1>2, RewindFacts, PipelinesAssumption
<1>4. SnapshotShape(then.state) /\ IsFunction(then.cache)
  BY <1>1 DEF KeptShape
<1>5. KeptShape(h) /\ h.standing = then.standing /\ h.failedBack = kept.failedBack
  BY <1>1, KeepRejectedGives
<1>. HIDE DEF r, then
<1>6. StoreShape(pipe, s) /\ IsRejected(s, store, then)
  BY <1>1, <1>2, <1>4, RejectRewindGives
<1>7. CacheFits(pipe, s.cache) /\ ~s.rewind.on /\ Fits(pipe, s, then.standing)
  BY <1>2, <1>6, SameFits DEF IsRejected, HeldThen
<1>8. /\ StandingOK(pipe, then.standing) /\ \A c \in then.standing : c.id.step <= r.from
      /\ Reached(pipe, Before(then.standing, r.from), r.from, kept.failedBack)
      /\ r.onError \/ Has(then.standing, r.from)
      /\ Outside(S, r) = Outside(then.standing, r)
  BY <1>2 DEF HeldThen
<1>9. Before(S, r.to) = Before(then.standing, r.to)
  <2>1. \A c \in S \union then.standing : c.id.step \in Int
    BY <1>1, <1>8 DEF StandingOK, Steps
  <2>2. \A c : c \in S /\ c.id.step < r.to <=> c \in then.standing /\ c.id.step < r.to
    BY <1>3, <1>8, <2>1 DEF Outside
  <2>. QED
    BY <2>2 DEF Before
<1>10. ASSUME NEW j \in Rewinds(pipe)
       PROVE  /\ pipe.rules[j].to <= at /\ r.from <= pipe.rules[j].from
                   => BeforeFits(pipe, before, then.standing, pipe.rules[j])
              /\ at < pipe.rules[j].to /\ r.from < pipe.rules[j].from => r.from < pipe.rules[j].to
  <2>. DEFINE q == pipe.rules[j]
  <2>1. /\ q.to \in 1..pipe.n /\ q.from \in 1..pipe.n /\ q.to <= q.from
        /\ (r.to = q.to /\ r.from = q.from) \/ r.from < q.to \/ q.from < r.to
    BY <1>1, <1>2, RewindFacts
  <2>2. at \in 1..pipe.n
    BY <1>1 DEF Steps
  <2>3. ASSUME q.to <= at, r.from <= q.from PROVE BeforeFits(pipe, before, then.standing, q)
    <3>1. r.to = q.to /\ r.from = q.from
      BY <1>2, <1>3, <2>1, <2>2, <2>3
    <3>2. BeforeFits(pipe, before, S, q)
      BY <1>1, <1>2, <3>1 DEF BeforeInv, Rule
    <3>. QED
      BY <1>9, <3>1, <3>2 DEF BeforeFits
  <2>4. at < q.to /\ r.from < q.from => r.from < q.to
    BY <1>2, <1>3, <2>1, <2>2
  <2>. QED
    BY <2>3, <2>4
<1>11. from = r.from
  BY DEF r
<1>. HIDE DEF S
<1>12. r.from \in Steps(pipe)
  BY <1>3 DEF Steps
<1>. QED
  BY <1>1, <1>2, <1>5, <1>6, <1>7, <1>8, <1>10, <1>11, <1>12 DEF r

\* A visit that fails is taken back, or left behind.
LEMMA FailedKeeps ==
  ASSUME FlowInv, Failed
  PROVE  FlowInv'
<1>. DEFINE rejects == EndsRewind(at) /\ visit.verdict \in {"reject", "panic"}
            s == IF rejects THEN RejectRewind(store) ELSE store
            h == IF rejects THEN KeepFailedBack(kept) ELSE [kept EXCEPT !.dropped = @ \union {This}]
            restorable == ~rejects /\ store.rewind.on /\ Running.restore /\ visit.verdict # "keep"
            S == h.standing
<1>1. /\ pc = "failed" /\ kept' = h /\ UNCHANGED <<pipe, visits, ctxEnded>>
      /\ \/ FailRun(s)
         \/ /\ store' = s /\ pc' = "rules" /\ UNCHANGED <<at, before, outcome>>
            /\ visit' = [visit EXCEPT !.restorable = restorable, !.exhausted = visit.maxed]
  BY DEF Failed
<1>2. /\ ShapeInv /\ Fits(pipe, store, kept.standing) /\ CacheFits(pipe, store.cache)
      /\ RewindInv /\ BeforeInv /\ StandingInv /\ VisitInv
      /\ StoreShape(pipe, store) /\ KeptShape(kept) /\ VisitShape(visit) /\ at \in Steps(pipe)
  BY DEF FlowInv, ShapeInv
<1>3. CASE rejects
  <2>. DEFINE w == KeepRejected(kept)
              from == Running.from
  <2>1. store.rewind.on /\ from = at /\ s = RejectRewind(store)
    BY <1>3 DEF EndsRewind
  <2>2. KeptShape(h) /\ S = w.standing /\ h.failedBack
    BY <1>2, <1>3, KeepFailedBackGives
  <2>3. /\ StoreShape(pipe, s) /\ CacheFits(pipe, s.cache) /\ ~s.rewind.on
        /\ Fits(pipe, s, w.standing) /\ StandingOK(pipe, w.standing)
        /\ \A c \in w.standing : c.id.step <= from
        /\ Reached(pipe, Before(w.standing, from), from, w.failedBack)
        /\ \A j \in Rewinds(pipe) : pipe.rules[j].to <= at /\ from <= pipe.rules[j].from
                                      => BeforeFits(pipe, before, w.standing, pipe.rules[j])
    <3>1. w = KeepRejected(kept) /\ from = Running.from
      OBVIOUS
    <3>. HIDE DEF s, w, from
    <3>. QED
      BY <1>1, <2>1, <3>1, RejectionFits
  <2>. HIDE DEF s, h, w, from, restorable
  <2>4. CASE FailRun(s)
    BY <1>1, <1>2, <2>2, <2>3, <2>4, FailRunKeeps
  <2>5. CASE /\ store' = s /\ pc' = "rules" /\ UNCHANGED <<at, before, outcome>>
             /\ visit' = [visit EXCEPT !.restorable = restorable, !.exhausted = visit.maxed]
    <3>1. VisitShape(visit') /\ visit'.restorable = restorable /\ visit'.failed = visit.failed
      BY <1>2, <2>5 DEF VisitShape
    <3>2. ~restorable
      BY <1>3 DEF restorable
    <3>3. ShapeInv'
      BY <1>1, <1>2, <2>2, <2>3, <2>5, <3>1 DEF ShapeInv
    <3>4. RewindInv'
      BY <2>3, <2>5 DEF RewindInv
    <3>5. BeforeInv'
      BY <1>1, <2>1, <2>2, <2>3, <2>5 DEF BeforeInv, Rule
    <3>6. StandingInv'
      BY <1>1, <2>1, <2>2, <2>3, <2>5 DEF StandingInv, Reached
    <3>7. VisitInv'
      BY <1>1, <2>2, <2>5, <3>1, <3>2 DEF VisitInv
    <3>. QED
      BY <1>1, <2>2, <2>3, <2>5, <3>3, <3>4, <3>5, <3>6, <3>7 DEF FlowInv
  <2>. QED
    BY <1>1, <2>4, <2>5
<1>4. CASE ~rejects
  <2>1. /\ s = store /\ KeptShape(h) /\ S = kept.standing /\ h.failedBack = kept.failedBack
        /\ h.taken = kept.taken
    BY <1>2, <1>4, KeepDroppedGives
  <2>2. restorable => store.rewind.on /\ Running.restore
    OBVIOUS
  <2>. HIDE DEF s, h, restorable
  <2>3. CASE FailRun(s)
    <3>1. StandingOK(pipe, S)
      BY <1>2, <2>1 DEF StandingInv
    <3>. QED
      BY <1>1, <1>2, <2>1, <2>3, <3>1, FailRunKeeps
  <2>4. CASE /\ store' = s /\ pc' = "rules" /\ UNCHANGED <<at, before, outcome>>
             /\ visit' = [visit EXCEPT !.restorable = restorable, !.exhausted = visit.maxed]
    <3>1. VisitShape(visit') /\ visit'.restorable = restorable /\ visit'.failed = visit.failed
      BY <1>2, <2>4 DEF VisitShape
    <3>2. ShapeInv'
      BY <1>1, <1>2, <2>1, <2>4, <3>1 DEF ShapeInv
    <3>3. RewindInv'
      BY <1>1, <1>2, <2>1, <2>4 DEF RewindInv, RewindFits, Running, Rule
    <3>4. BeforeInv'
      BY <1>1, <1>2, <2>1, <2>4 DEF BeforeInv, Rule
    <3>5. StandingInv'
      BY <1>1, <1>2, <2>1, <2>4 DEF StandingInv
    <3>6. VisitInv'
      BY <1>1, <1>2, <2>1, <2>2, <2>4, <3>1 DEF VisitInv, Running, Rule
    <3>. QED
      BY <1>1, <1>2, <2>1, <2>4, <3>2, <3>3, <3>4, <3>5, <3>6 DEF FlowInv
  <2>. QED
    BY <1>1, <2>3, <2>4
<1>. QED
  BY <1>3, <1>4

\* A run that fails with its history as it is keeps the invariant.
LEMMA FailRunFrom ==
  ASSUME FlowInv, FailRun(store), UNCHANGED <<pipe, visits, ctxEnded, kept>>
  PROVE  FlowInv'
<1>1. /\ ShapeInv /\ StoreShape(pipe, store) /\ KeptShape(kept) /\ CacheFits(pipe, store.cache)
      /\ Fits(pipe, store, kept.standing) /\ StandingOK(pipe, kept.standing) /\ kept' = kept
  BY DEF FlowInv, ShapeInv, StandingInv
<1>. QED
  BY <1>1, FailRunKeeps

\* A failure that no rule matches fails the run.
LEMMA NoRuleKeeps ==
  ASSUME FlowInv, NoRule
  PROVE  FlowInv'
  BY FailRunFrom DEF NoRule

\* A restore goes on from the From of the rewind, from what held when the rewind was taken.
LEMMA AskRestoreKeeps ==
  ASSUME FlowInv, AskRestore
  PROVE  FlowInv'
<1>. DEFINE from == Running.from
            K == {k \in SuccessRules(pipe, from) : ~Rewind(Rule(k))}
            s == RejectRewind(store)
            h == KeepRejected(kept)
<1>1. /\ pc = "rules" /\ visit.restorable /\ UNCHANGED <<pipe, visits, ctxEnded>>
      /\ \/ FailRun(store) /\ UNCHANGED kept
         \/ /\ visit' = [visit EXCEPT !.restorable = FALSE]
            /\ UNCHANGED <<pc, at, before, store, outcome, kept>>
         \/ \E k \in MayMatch(K) : Follow(s, h, at, from, k, FALSE)
         \/ NoneMayMatch(K) /\ Follow(s, h, at, from, 0, FALSE)
         \/ FailRun(s) /\ kept' = h
  BY DEF AskRestore, MustAskRestore
<1>2. ShapeInv /\ VisitShape(visit) /\ pipe \in Pipelines /\ FrameInv /\ VisitInv
  BY DEF FlowInv, ShapeInv, FrameInv
<1>3. store.rewind.on /\ Running.restore
  BY <1>1, <1>2 DEF VisitInv
<1>4. ~Running.onError /\ Running.from = from
  <2>1. Running = pipe.rules[store.rewind.rule] /\ store.rewind.rule \in DOMAIN pipe.rules
    BY <1>2, <1>3 DEF Running, Rule, ShapeInv, StoreShape, RewindShape, Rewinds
  <2>. QED
    BY <1>2, <1>3, <2>1, RuleFacts
<1>5. /\ StoreShape(pipe, s) /\ KeptShape(h) /\ CacheFits(pipe, s.cache) /\ ~s.rewind.on
      /\ Fits(pipe, s, h.standing) /\ StandingOK(pipe, h.standing)
      /\ at \in Steps(pipe) /\ from \in Steps(pipe) /\ at <= from
      /\ \A c \in h.standing : c.id.step <= from
      /\ Reached(pipe, Before(h.standing, from), from, h.failedBack)
      /\ Has(h.standing, from)
      /\ \A j \in Rewinds(pipe) : pipe.rules[j].to <= at /\ from <= pipe.rules[j].from
                                    => BeforeFits(pipe, before, h.standing, pipe.rules[j])
      /\ \A j \in Rewinds(pipe) : at < pipe.rules[j].to /\ from < pipe.rules[j].from
                                    => from < pipe.rules[j].to
  <2>1. s = RejectRewind(store) /\ h = KeepRejected(kept) /\ from = Running.from
    OBVIOUS
  <2>. HIDE DEF s, h, from
  <2>. QED
    BY <1>1, <1>3, <1>4, <2>1, RejectionFits
<1>6. CASE FailRun(store) /\ UNCHANGED kept
  BY <1>1, <1>6, FailRunFrom
<1>7. CASE /\ visit' = [visit EXCEPT !.restorable = FALSE]
           /\ UNCHANGED <<pc, at, before, store, outcome, kept>>
  <2>1. VisitShape(visit') /\ ~visit'.restorable /\ visit'.failed = visit.failed
    BY <1>2, <1>7 DEF VisitShape
  <2>2. FrameInv'
    BY <1>1, <1>2, <1>7, <2>1, VisitFrame
  <2>3. VisitInv'
    BY <1>1, <1>2, <1>7, <2>1 DEF VisitInv
  <2>. QED
    BY <2>2, <2>3, FlowInvParts
<1>8. BeforeShape(pipe, before)
  BY <1>2 DEF ShapeInv
<1>. HIDE DEF s, h, from
<1>9. ASSUME NEW k, k = 0 \/ (k \in DOMAIN pipe.rules /\ pipe.rules[k].from = from),
             k \notin Rewinds(pipe), Onward(pipe, from, k), Follow(s, h, at, from, k, FALSE)
      PROVE  FlowInv'
  <2>1. GoesOn(pipe, h.standing, from, k, h.failedBack)
    BY <1>5, <1>9 DEF GoesOn
  <2>2. Ready(pipe, before, s, h, at, from, k)
    BY <1>5, <1>8, <1>9, <2>1 DEF Ready
  <2>. QED
    BY <1>1, <1>2, <1>9, <2>2, FollowKeeps
<1>10. CASE \E k \in MayMatch(K) : Follow(s, h, at, from, k, FALSE)
  <2>1. PICK k \in MayMatch(K) : Follow(s, h, at, from, k, FALSE)
    BY <1>10
  <2>2. /\ k \in SuccessRules(pipe, from) /\ ~Rewind(pipe.rules[k])
        /\ \A j \in SuccessRules(pipe, from) : j < k => Rewind(pipe.rules[j]) \/ ~pipe.rules[j].always
    BY DEF MayMatch, Rule
  <2>3. k \in DOMAIN pipe.rules /\ pipe.rules[k].from = from /\ k # 0
    BY <1>2, <2>2, RuleFacts DEF SuccessRules
  <2>4. Onward(pipe, from, k) /\ k \notin Rewinds(pipe)
    BY <2>2, <2>3 DEF Onward, Rewinds
  <2>. QED
    BY <1>9, <2>1, <2>3, <2>4
<1>11. CASE NoneMayMatch(K) /\ Follow(s, h, at, from, 0, FALSE)
  <2>. DEFINE k == 0
  <2>1. /\ Onward(pipe, from, k) /\ Follow(s, h, at, from, k, FALSE)
        /\ k = 0 \/ (k \in DOMAIN pipe.rules /\ pipe.rules[k].from = from)
    BY <1>11 DEF NoneMayMatch, Onward, Rule
  <2>2. k \notin Rewinds(pipe)
    BY <1>2, RuleFacts DEF Rewinds
  <2>. HIDE DEF k
  <2>. QED
    BY <1>9, <2>1, <2>2
<1>12. CASE FailRun(s) /\ kept' = h
  BY <1>1, <1>2, <1>5, <1>12, FailRunKeeps
<1>. QED
  BY <1>1, <1>6, <1>7, <1>10, <1>11, <1>12

-----------------------------------------------------------------------------
(* A visit that succeeds, and the rules that decide after one that fails. *)

\* Store s, history h and snapshots b are right while the run is at step i.
AtStep(p, b, s, h, i) ==
  /\ StoreShape(p, s) /\ KeptShape(h) /\ CacheFits(p, s.cache)
  /\ Fits(p, s, h.standing) /\ StandingOK(p, h.standing)
  /\ \A c \in h.standing : c.id.step <= i
  /\ Reached(p, Before(h.standing, i), i, h.failedBack)
  /\ \A j \in Rewinds(p) : p.rules[j].to <= i /\ i <= p.rules[j].from
                             => BeforeFits(p, b, h.standing, p.rules[j])
  /\ s.rewind.on => /\ RewindFits(p, s, h)
                    /\ p.rules[s.rewind.rule].to <= i /\ i <= p.rules[s.rewind.rule].from

\* While the rules of a step are asked, what the invariant says holds at that step.
LEMMA AtStepNow ==
  ASSUME FlowInv, pc \in {"succeeded", "rules"}
  PROVE  AtStep(pipe, before, store, kept, at)
<1>1. /\ StoreShape(pipe, store) /\ KeptShape(kept) /\ CacheFits(pipe, store.cache)
      /\ Fits(pipe, store, kept.standing) /\ StandingOK(pipe, kept.standing)
      /\ \A c \in kept.standing : c.id.step <= at
      /\ Reached(pipe, Before(kept.standing, at), at, kept.failedBack)
  BY DEF FlowInv, ShapeInv, StandingInv
<1>2. \A j \in Rewinds(pipe) : pipe.rules[j].to <= at /\ at <= pipe.rules[j].from
                                 => BeforeFits(pipe, before, kept.standing, pipe.rules[j])
  BY DEF FlowInv, BeforeInv, Rule
<1>3. store.rewind.on => /\ RewindFits(pipe, store, kept)
                         /\ pipe.rules[store.rewind.rule].to <= at
                         /\ at <= pipe.rules[store.rewind.rule].from
  BY DEF FlowInv, RewindInv, Running, Rule
<1>. QED
  BY <1>1, <1>2, <1>3 DEF AtStep

\* A rewind that ends by being kept leaves all that right.
LEMMA AtStepEnds ==
  ASSUME NEW p, NEW b, NEW s, NEW h, NEW i, AtStep(p, b, s, h, i), NEW e, e = EndRewind(s, TRUE)
  PROVE  AtStep(p, b, e, h, i) /\ ~e.rewind.on
<1>1. StoreShape(p, e) /\ IsEnded(e, s)
  BY EndRewindGives DEF AtStep
<1>2. CacheFits(p, e.cache) /\ ~e.rewind.on
  BY <1>1 DEF AtStep, IsEnded
<1>3. Fits(p, e, h.standing)
  BY <1>1, SameFits DEF AtStep, IsEnded
<1>. QED
  BY <1>1, <1>2, <1>3 DEF AtStep

\* A visit that does not commit leaves it right, and is dropped.
LEMMA AtStepDrops ==
  ASSUME NEW p, NEW b, NEW s, NEW i, NEW ids, AtStep(p, b, s, kept, i),
         NEW h, h = [kept EXCEPT !.dropped = @ \union ids]
  PROVE  AtStep(p, b, s, h, i) /\ h.standing = kept.standing /\ h.failedBack = kept.failedBack
<1>1. /\ KeptShape(h) /\ h.standing = kept.standing /\ h.failedBack = kept.failedBack
      /\ h.taken = kept.taken
  BY KeepDroppedGives DEF AtStep
<1>2. s.rewind.on => RewindFits(p, s, h)
  BY <1>1 DEF AtStep, RewindFits
<1>. QED
  BY <1>1, <1>2 DEF AtStep

\* A visit that commits is one of those that stand.
LEMMA AtStepCommits ==
  ASSUME pipe \in Pipelines, at \in Steps(pipe), AtStep(pipe, before, store, kept, at),
         ~Has(kept.standing, at), MayWrite(pipe, at, visit.writes),
         NEW s, s = Commit(store, visit), NEW h, h = KeepVisit(kept, visit)
  PROVE  /\ AtStep(pipe, before, s, h, at)
         /\ Has(h.standing, at)
         /\ s.rewind.on = store.rewind.on
<1>. DEFINE c == [id |-> This, by |-> visit.by, writes |-> visit.writes]
            S == kept.standing
            T == S \union {c}
<1>1. /\ StoreShape(pipe, store) /\ KeptShape(kept) /\ CacheFits(pipe, store.cache)
      /\ Fits(pipe, store, S) /\ StandingOK(pipe, S)
      /\ \A d \in S : d.id.step <= at
      /\ Reached(pipe, Before(S, at), at, kept.failedBack)
  BY DEF AtStep
<1>2. c.id.step = at /\ c.by = visit.by /\ c.writes = visit.writes
  BY DEF This, Visited
<1>3. pipe.n \in Nat /\ at \in 1..pipe.n /\ \A d \in S : d.id.step \in 1..pipe.n
  BY <1>1, PipelinesAssumption DEF Steps, StandingOK
<1>4. StoreShape(pipe, s) /\ IsCommitted(s, store, visit)
  BY <1>1, CommitGives
<1>5. KeptShape(h) /\ h.standing = T /\ h.failedBack = kept.failedBack /\ h.taken = kept.taken
  BY <1>1, KeepVisitGives
<1>. HIDE DEF c
<1>6. Fits(pipe, s, T)
  BY <1>1, <1>2, <1>4, CommitFits
<1>7. \A d \in S : d.id.step # at
  BY DEF Has
<1>8. StandingOK(pipe, T)
  BY <1>1, <1>2, <1>7 DEF StandingOK
<1>9. Before(T, at) = Before(S, at) /\ (\A d \in T : d.id.step <= at) /\ Has(T, at)
  BY <1>1, <1>2, <1>3 DEF Before, Has
<1>10. ASSUME NEW j \in Rewinds(pipe), pipe.rules[j].to <= at, at <= pipe.rules[j].from
       PROVE  BeforeFits(pipe, before, T, pipe.rules[j])
  <2>1. pipe.rules[j].to \in 1..pipe.n
    BY RewindFacts
  <2>2. Before(T, pipe.rules[j].to) = Before(S, pipe.rules[j].to)
    BY <1>2, <1>3, <1>10, <2>1 DEF Before
  <2>3. BeforeFits(pipe, before, S, pipe.rules[j])
    BY <1>10 DEF AtStep
  <2>. QED
    BY <2>2, <2>3 DEF BeforeFits
<1>11. s.rewind.on = store.rewind.on /\ s.rewind.rule = store.rewind.rule
  BY <1>4 DEF IsCommitted
<1>12. ASSUME store.rewind.on PROVE RewindFits(pipe, s, h)
  <2>. DEFINE r == pipe.rules[store.rewind.rule]
              then == kept.taken
  <2>1. /\ KeepsWhatHeld(pipe, store, then) /\ HeldThen(pipe, r, then, S, kept.failedBack)
        /\ r.to <= at /\ at <= r.from
    BY <1>12 DEF AtStep, RewindFits
  <2>2. store.rewind.rule \in Rewinds(pipe)
    BY <1>1, <1>12 DEF StoreShape, RewindShape
  <2>3. r.to \in 1..pipe.n /\ r.from \in 1..pipe.n
    BY <2>2, RewindFacts
  <2>4. visit.writes \subseteq RangeKeys(pipe, r)
    BY <1>3, <2>1, <2>3 DEF MayWrite, RangeKeys
  <2>5. Outside(T, r) = Outside(S, r)
    BY <1>2, <1>3, <2>1, <2>3 DEF Outside
  <2>. HIDE DEF T, S, then, r
  <2>6. HeldThen(pipe, r, then, T, kept.failedBack)
    BY <2>1, <2>5 DEF HeldThen
  <2>7. KeepsWhatHeld(pipe, s, then)
    <3>1. s.rewind.prev = SnapshotOf(then.state, RangeKeys(pipe, r))
      BY <1>4, <2>1 DEF KeepsWhatHeld, IsCommitted, r
    <3>2. ASSUME NEW key, key \notin RangeKeys(pipe, r) PROVE SameAt(s, then.state, key)
      <4>1. SameAt(store, then.state, key)
        BY <2>1, <3>2 DEF KeepsWhatHeld, r
      <4>2. SameAt(s, store, key)
        BY <1>4, <2>4, <3>2 DEF IsCommitted
      <4>. QED
        BY <4>1, <4>2 DEF SameAt
    <3>3. ASSUME NEW e PROVE JournalFits(s, then.cache, e)
      <4>1. JournalFits(store, then.cache, e)
        BY <2>1 DEF KeepsWhatHeld
      <4>2. s.cache = store.cache /\ s.rewind.replaced = store.rewind.replaced
        BY <1>4 DEF IsCommitted
      <4>. QED
        BY <4>1, <4>2 DEF JournalFits
    <3>. QED
      BY <1>11, <3>1, <3>2, <3>3 DEF KeepsWhatHeld, r
  <2>. QED
    BY <1>5, <1>11, <2>6, <2>7 DEF RewindFits, r, then
<1>. HIDE DEF T, S
<1>13. CacheFits(pipe, s.cache)
  BY <1>1, <1>4 DEF IsCommitted
<1>14. Reached(pipe, Before(T, at), at, kept.failedBack)
  BY <1>1, <1>9
<1>15. store.rewind.on => pipe.rules[store.rewind.rule].to <= at /\ at <= pipe.rules[store.rewind.rule].from
  BY DEF AtStep
<1>16. AtStep(pipe, before, s, h, at)
  BY <1>4, <1>5, <1>6, <1>8, <1>9, <1>10, <1>11, <1>12, <1>13, <1>14, <1>15 DEF AtStep
<1>. QED
  BY <1>5, <1>9, <1>11, <1>16

\* A run that is right at a step is ready for a rule of it.
LEMMA AtStepReady ==
  ASSUME ShapeInv, NEW s, NEW h, NEW k, AtStep(pipe, before, s, h, at),
         GoesOn(pipe, h.standing, at, k, h.failedBack), k \in Rewinds(pipe) => ~s.rewind.on
  PROVE  Ready(pipe, before, s, h, at, at, k)
<1>1. pipe \in Pipelines /\ at \in Steps(pipe) /\ BeforeShape(pipe, before) /\ at \in Int
  BY PipelinesAssumption DEF ShapeInv, Steps
<1>2. at <= at
  BY <1>1
<1>. QED
  BY <1>1, <1>2 DEF AtStep, Ready

\* While a rewind is running no other begins at a step of its range but its From.
LEMMA OneRewind ==
  ASSUME pipe \in Pipelines, NEW b, NEW h, AtStep(pipe, b, store, h, at), store.rewind.on,
         NEW k \in Rewinds(pipe), pipe.rules[k].from = at
  PROVE  EndsRewind(at)
<1>1. /\ store.rewind.rule \in Rewinds(pipe) /\ Running = pipe.rules[store.rewind.rule]
      /\ Running.to <= at /\ at <= Running.from
  BY DEF AtStep, StoreShape, RewindShape, Running, Rule
<1>2. /\ pipe.rules[k].to <= pipe.rules[k].from /\ pipe.rules[k].to \in Int /\ pipe.rules[k].from \in Int
      /\ Running.to \in Int /\ Running.from \in Int
      /\ \/ Running.from = pipe.rules[k].from
         \/ Running.from < pipe.rules[k].to
         \/ pipe.rules[k].from < Running.to
  BY <1>1, RewindFacts
<1>. QED
  BY <1>1, <1>2 DEF EndsRewind

\* A visit that succeeded commits, is rejected or goes to Fail.
LEMMA SucceededKeeps ==
  ASSUME FlowInv, Succeeded
  PROVE  FlowInv'
<1>. DEFINE k == visit.rule
            fails == k # 0 /\ Rule(k).to = Fail
            s == IF fails THEN store ELSE Commit(store, visit)
            h == IF fails THEN [kept EXCEPT !.dropped = @ \union {This}] ELSE KeepVisit(kept, visit)
<1>1. /\ pc = "succeeded" /\ UNCHANGED <<pipe, visits, ctxEnded>>
      /\ \/ /\ EndsRewind(at) /\ visit.verdict = "reject"
            /\ Follow(RejectRewind(store), KeepRejected(kept), at, at, k, visit.amends)
         \/ /\ EndsRewind(at) /\ visit.verdict # "reject"
            /\ Follow(EndRewind(s, TRUE), h, at, at, k, visit.amends)
         \/ /\ ~EndsRewind(at)
            /\ Follow(s, h, at, at, k, visit.amends)
  BY DEF Succeeded
<1>2. /\ ShapeInv /\ pipe \in Pipelines /\ at \in Steps(pipe) /\ BeforeShape(pipe, before)
      /\ StandingInv /\ VisitInv
  BY DEF FlowInv, ShapeInv
<1>3. /\ MayWrite(pipe, at, visit.writes) /\ Onward(pipe, at, k)
      /\ visit.verdict = "reject" => k = 0 \/ ~Rewind(Rule(k))
      /\ EndsRewind(at) /\ visit.verdict = "reject" => Running.accept
  BY <1>1, <1>2 DEF VisitInv
<1>4. ~Has(kept.standing, at) /\ AtStep(pipe, before, store, kept, at)
  BY <1>1, <1>2, AtStepNow DEF StandingInv
<1>5. k # 0 => k \in DOMAIN pipe.rules /\ pipe.rules[k].from = at
  BY <1>3 DEF Onward, SuccessRules
<1>6. CASE /\ EndsRewind(at) /\ visit.verdict = "reject"
           /\ Follow(RejectRewind(store), KeepRejected(kept), at, at, k, visit.amends)
  <2>. DEFINE t == RejectRewind(store)
              w == KeepRejected(kept)
              from == Running.from
              amends == visit.amends
  <2>1. store.rewind.on /\ from = at /\ t = RejectRewind(store) /\ w = KeepRejected(kept) /\ from = Running.from
    BY <1>6 DEF EndsRewind
  <2>2. ~Running.onError
    <3>1. Running = pipe.rules[store.rewind.rule] /\ store.rewind.rule \in DOMAIN pipe.rules
      BY <1>4, <2>1 DEF AtStep, Running, Rule, StoreShape, RewindShape, Rewinds
    <3>. QED
      BY <1>2, <1>3, <1>6, <3>1, RuleFacts
  <2>. HIDE DEF t, w, from, k, amends
  <2>3. /\ StoreShape(pipe, t) /\ KeptShape(w) /\ CacheFits(pipe, t.cache) /\ ~t.rewind.on
        /\ Fits(pipe, t, w.standing) /\ StandingOK(pipe, w.standing)
        /\ \A c \in w.standing : c.id.step <= from
        /\ Reached(pipe, Before(w.standing, from), from, w.failedBack)
        /\ Has(w.standing, from)
        /\ \A j \in Rewinds(pipe) : pipe.rules[j].to <= at /\ from <= pipe.rules[j].from
                                      => BeforeFits(pipe, before, w.standing, pipe.rules[j])
    BY <1>1, <2>1, <2>2, RejectionFits
  <2>4. AtStep(pipe, before, t, w, at)
    BY <2>1, <2>3 DEF AtStep
  <2>5. GoesOn(pipe, w.standing, at, k, w.failedBack)
    BY <1>3, <1>5, <2>1, <2>3 DEF GoesOn
  <2>6. Ready(pipe, before, t, w, at, at, k)
    BY <1>2, <2>3, <2>4, <2>5, AtStepReady
  <2>7. Follow(t, w, at, at, k, amends)
    BY <1>6 DEF t, w, k, amends
  <2>. QED
    BY <1>1, <1>2, <2>6, <2>7, FollowKeeps
<1>7. /\ AtStep(pipe, before, s, h, at) /\ s.rewind.on = store.rewind.on
      /\ GoesOn(pipe, h.standing, at, k, h.failedBack)
  <2>1. CASE fails
    <3>1. s = store /\ h = [kept EXCEPT !.dropped = @ \union {This}]
      BY <2>1
    <3>2. GoesOn(pipe, h.standing, at, k, h.failedBack)
      BY <1>5, <2>1 DEF GoesOn, Rule
    <3>. HIDE DEF s, h
    <3>. QED
      BY <1>4, <3>1, <3>2, AtStepDrops
  <2>2. CASE ~fails
    <3>1. s = Commit(store, visit) /\ h = KeepVisit(kept, visit)
      BY <2>2
    <3>. HIDE DEF s, h
    <3>2. AtStep(pipe, before, s, h, at) /\ Has(h.standing, at) /\ s.rewind.on = store.rewind.on
      BY <1>2, <1>3, <1>4, <3>1, AtStepCommits
    <3>. QED
      BY <1>3, <1>5, <3>2 DEF GoesOn
  <2>. QED
    BY <2>1, <2>2
<1>8. CASE /\ EndsRewind(at) /\ visit.verdict # "reject"
           /\ Follow(EndRewind(s, TRUE), h, at, at, k, visit.amends)
  <2>. DEFINE e == EndRewind(s, TRUE)
              amends == visit.amends
  <2>1. e = EndRewind(s, TRUE) /\ Follow(e, h, at, at, k, amends)
    BY <1>8
  <2>. HIDE DEF e, s, h, k, amends
  <2>2. AtStep(pipe, before, e, h, at) /\ ~e.rewind.on
    BY <1>7, <2>1, AtStepEnds
  <2>3. Ready(pipe, before, e, h, at, at, k)
    BY <1>2, <1>7, <2>2, AtStepReady
  <2>. QED
    BY <1>1, <1>2, <2>1, <2>3, FollowKeeps
<1>9. CASE ~EndsRewind(at) /\ Follow(s, h, at, at, k, visit.amends)
  <2>. DEFINE amends == visit.amends
  <2>1. Follow(s, h, at, at, k, amends)
    BY <1>9
  <2>. HIDE DEF s, h, k, amends
  <2>2. k \in Rewinds(pipe) => ~s.rewind.on
    <3>1. k \in Rewinds(pipe) => k # 0
      BY <1>2, RuleFacts DEF Rewinds
    <3>. QED
      BY <1>2, <1>4, <1>5, <1>7, <1>9, <3>1, OneRewind
  <2>3. Ready(pipe, before, s, h, at, at, k)
    BY <1>2, <1>7, <2>2, AtStepReady
  <2>. QED
    BY <1>1, <1>2, <2>1, <2>3, FollowKeeps
<1>. QED
  BY <1>1, <1>6, <1>8, <1>9

\* A failed visit's rules go on from a step whose visit does not stand.
LEMMA TryRuleKeeps ==
  ASSUME FlowInv, TryRule
  PROVE  FlowInv'
<1>1. PICK k \in Untried :
        LET rule == Rule(k)
            s == IF EndsRewind(at) THEN EndRewind(store, TRUE) ELSE store
        IN \/ /\ visit' = [visit EXCEPT !.tried = k]
              /\ UNCHANGED <<pc, at, before, store, outcome, kept>>
           \/ FailRun(store) /\ UNCHANGED kept
           \/ /\ visit' = [visit EXCEPT !.matched = TRUE]
              /\ UNCHANGED <<pc, at, before, store, outcome, kept>>
           \/ /\ visit' = [visit EXCEPT !.exhausted = TRUE, !.tried = 0, !.matched = FALSE]
              /\ UNCHANGED <<pc, at, before, store, outcome, kept>>
           \/ Follow(s, kept, at, at, k, rule.amend)
  <2>. HIDE DEF Untried
  <2>. QED
    BY DEF TryRule
<1>2. pc = "rules" /\ UNCHANGED <<pipe, visits, ctxEnded>>
  BY DEF TryRule
<1>3. /\ ShapeInv /\ VisitShape(visit) /\ pipe \in Pipelines /\ FrameInv /\ VisitInv /\ StandingInv
  BY DEF FlowInv, ShapeInv, FrameInv
<1>4. ASSUME VisitShape(visit'), visit'.restorable = visit.restorable, visit'.failed = visit.failed,
             UNCHANGED <<pc, at, before, store, outcome, kept>>
      PROVE  FlowInv'
  <2>1. FrameInv'
    BY <1>2, <1>3, <1>4, VisitFrame
  <2>2. VisitInv'
    BY <1>2, <1>3, <1>4 DEF VisitInv, Running, Rule
  <2>. QED
    BY <2>1, <2>2, FlowInvParts
<1>5. CASE /\ \/ visit' = [visit EXCEPT !.tried = k]
              \/ visit' = [visit EXCEPT !.matched = TRUE]
              \/ visit' = [visit EXCEPT !.exhausted = TRUE, !.tried = 0, !.matched = FALSE]
           /\ UNCHANGED <<pc, at, before, store, outcome, kept>>
  <2>1. VisitShape(visit') /\ visit'.restorable = visit.restorable /\ visit'.failed = visit.failed
    BY <1>3, <1>5 DEF VisitShape
  <2>. QED
    BY <1>4, <1>5, <2>1
<1>6. CASE FailRun(store) /\ UNCHANGED kept
  BY <1>2, <1>6, FailRunFrom
<1>. DEFINE s == IF EndsRewind(at) THEN EndRewind(store, TRUE) ELSE store
            amends == Rule(k).amend
<1>7. CASE Follow(s, kept, at, at, k, amends)
  <2>1. k \in DOMAIN pipe.rules /\ pipe.rules[k].from = at /\ pipe.rules[k].onError
    BY DEF Untried, FailureRules
  <2>2. AtStep(pipe, before, store, kept, at)
    BY <1>2, AtStepNow
  <2>3. AtStep(pipe, before, s, kept, at) /\ (k \in Rewinds(pipe) => ~s.rewind.on)
    <3>1. CASE EndsRewind(at)
      <4>1. s = EndRewind(store, TRUE)
        BY <3>1
      <4>. HIDE DEF s
      <4>. QED
        BY <2>2, <4>1, AtStepEnds
    <3>2. CASE ~EndsRewind(at)
      BY <1>3, <2>1, <2>2, <3>2, OneRewind
    <3>. QED
      BY <3>1, <3>2
  <2>4. k # 0
    BY <1>3, <2>1, RuleFacts
  <2>5. Has(kept.standing, at) => kept.failedBack
    BY <1>2, <1>3 DEF StandingInv
  <2>6. GoesOn(pipe, kept.standing, at, k, kept.failedBack)
    BY <2>1, <2>4, <2>5 DEF GoesOn
  <2>. HIDE DEF s, amends
  <2>7. Ready(pipe, before, s, kept, at, at, k)
    BY <1>3, <2>3, <2>6, AtStepReady
  <2>. QED
    BY <1>2, <1>3, <1>7, <2>7, FollowKeeps
<1>. HIDE DEF s, amends
<1>. QED
  BY <1>1, <1>4, <1>5, <1>6, <1>7 DEF s, amends

-----------------------------------------------------------------------------
(* The invariant holds at first and at every step. *)

\* A run starts with no visit standing and the state holding inputs and Defaults.
LEMMA InitGives ==
  ASSUME Init
  PROVE  FlowInv
<1>1. /\ pipe \in Pipelines /\ pc = "next" /\ at = 1 /\ visit = NewVisit
      /\ visits = [i \in Steps(pipe) |-> 0]
      /\ before = [i \in Steps(pipe) |-> NoSnapshot]
      /\ store = [values    |-> [key \in pipe.inputs \union pipe.defaults |-> Seed],
                  defaulted |-> pipe.defaults,
                  cache     |-> <<>>,
                  memory    |-> {},
                  rewind    |-> NoRewind]
      /\ kept = [standing |-> {}, dropped |-> {}, committed |-> {}, rejections |-> 0, failedBack |-> FALSE,
                 taken |-> [state |-> NoSnapshot, cache |-> <<>>, standing |-> {}, visits |-> visits]]
  BY DEF Init
<1>2. pipe.n \in Nat \ {0} /\ at \in Steps(pipe)
  BY <1>1, PipelinesAssumption DEF Steps
<1>3. SnapshotShape(NoSnapshot) /\ RewindShape(pipe, NoRewind) /\ ~NoRewind.on
  BY DEF SnapshotShape, RewindShape, NoRewind, NoSnapshot, IsFunction
<1>. DEFINE values == [key \in pipe.inputs \union pipe.defaults |-> Seed]
<1>4. IsFunction(values) /\ IsFunction(<<>>)
  BY DEF IsFunction
<1>5. StoreShape(pipe, store)
  BY <1>1, <1>3, <1>4 DEF StoreShape
<1>6. KeptShape(kept)
  BY <1>1, <1>3, <1>4 DEF KeptShape
<1>7. BeforeShape(pipe, before)
  BY <1>1, <1>3 DEF BeforeShape
<1>8. ShapeInv
  BY <1>1, <1>2, <1>5, <1>6, <1>7, NewVisitShape DEF ShapeInv
<1>9. Fits(pipe, store, kept.standing)
  BY <1>1 DEF Fits, Holds, Writers, Seed
<1>10. CacheFits(pipe, store.cache)
  BY <1>1 DEF CacheFits
<1>11. RewindInv
  BY <1>1, <1>3 DEF RewindInv
<1>12. BeforeInv
  <2>1. \A k \in Rewinds(pipe) : Rule(k).to \in 1..pipe.n
    BY <1>1, RewindFacts DEF Rule
  <2>. QED
    BY <1>1, <2>1 DEF BeforeInv
<1>13. StandingInv
  <2>1. CoveredTo(pipe, {}, 1)
    BY DEF CoveredTo
  <2>2. Before({}, 1) = {}
    BY DEF Before
  <2>. QED
    BY <1>1, <2>1, <2>2 DEF StandingInv, StandingOK, Reached, Arrived, Has
<1>14. VisitInv
  BY <1>1, NewVisitShape DEF VisitInv
<1>. QED
  BY <1>8, <1>9, <1>10, <1>11, <1>12, <1>13, <1>14 DEF FlowInv

\* Every step keeps the invariant.
LEMMA StepKeeps ==
  ASSUME FlowInv, [Next]_vars
  PROVE  FlowInv'
<1>1. CASE BeginVisit
  BY <1>1, BeginVisitKeeps
<1>2. CASE StepFails
  BY <1>2, StepFailsKeeps
<1>3. CASE StepReturns
  BY <1>3, StepReturnsKeeps
<1>4. CASE Succeeded
  BY <1>4, SucceededKeeps
<1>5. CASE Failed
  BY <1>5, FailedKeeps
<1>6. CASE AskRestore
  BY <1>6, AskRestoreKeeps
<1>7. CASE TryRule
  BY <1>7, TryRuleKeeps
<1>8. CASE NoRule
  BY <1>8, NoRuleKeeps
<1>9. CASE EndContext \/ UNCHANGED vars
  BY <1>9, EndContextKeeps DEF EndContext, vars
<1>. QED
  BY <1>1, <1>2, <1>3, <1>4, <1>5, <1>6, <1>7, <1>8, <1>9 DEF Next, RunStep

\* Every state of a run satisfies the invariant.
THEOREM FlowInvariant == Spec => []FlowInv
<1>1. Init => FlowInv
  BY InitGives
<1>2. FlowInv /\ [Next]_vars => FlowInv'
  BY StepKeeps
<1>. QED
  BY <1>1, <1>2, PTL DEF Spec

\* The state is what the visits that stand wrote, whatever was skipped, rewound, rejected or
\* restored.
THEOREM StateTellsVisits == Spec => []StateIsStandingVisits
<1>1. ASSUME FlowInv PROVE StateIsStandingVisits
  <2>1. \A c, d \in kept.standing : c.id.step = d.id.step => c = d
    BY <1>1 DEF FlowInv, StandingInv, StandingOK
  <2>2. ASSUME NEW key \in DOMAIN store.values \union UNION {c.writes : c \in kept.standing}
        PROVE  LET writers == {c \in kept.standing : key \in c.writes} IN
               /\ key \in DOMAIN store.values
               /\ store.values[key] = {c.by : c \in writers}
               /\ key \in store.defaulted <=> writers = {} /\ key \in pipe.defaults
    <3>. DEFINE writers == {c \in kept.standing : key \in c.writes}
    <3>1. Holds(pipe, store, kept.standing, key) /\ Writers(kept.standing, key) = writers
      BY <1>1 DEF FlowInv, Fits, Writers
    <3>2. key \in DOMAIN store.values
      <4>1. key \notin DOMAIN store.values => writers # {}
        BY <2>2
      <4>. HIDE DEF writers
      <4>. QED
        BY <3>1, <4>1 DEF Holds
    <3>. HIDE DEF writers
    <3>3. /\ store.values[key] = {c.by : c \in writers}
          /\ key \in store.defaulted <=> writers = {} /\ key \in pipe.defaults
      BY <3>1, <3>2 DEF Holds
    <3>. QED
      BY <3>2, <3>3 DEF writers
  <2>. QED
    BY <2>1, <2>2 DEF StateIsStandingVisits
<1>. QED
  BY <1>1, FlowInvariant, PTL

\* What Build accepts is right: a step that begins has a value for every key it reads, and a
\* visit's writes always merge unless one was taken back because a hook panicked.
THEOREM BuildIsRight == Spec => []BuildKept
<1>1. ASSUME FlowInv PROVE BuildKept
  BY <1>1, ReadsHaveValues DEF BuildKept, FlowInv, VisitInv
<1>. QED
  BY <1>1, FlowInvariant, PTL

-----------------------------------------------------------------------------
(* Taking a rewind back restores what held when it was taken. *)

\* What a rejection leaves is what held when the rewind was taken.
LEMMA RejectedStore ==
  ASSUME FlowInv, store.rewind.on, pc \notin {"next", "done"}, NEW s, s = RejectRewind(store)
  PROVE  Snapshot(s) = kept.taken.state /\ s.cache = kept.taken.cache /\ ~s.rewind.on
<1>. DEFINE then == kept.taken
<1>1. /\ StoreShape(pipe, store) /\ SnapshotShape(then.state) /\ IsFunction(then.cache)
      /\ KeepsWhatHeld(pipe, store, then)
  BY DEF FlowInv, ShapeInv, KeptShape, RewindInv, RewindFits
<1>. HIDE DEF then
<1>2. IsRejected(s, store, then)
  BY <1>1, RejectRewindGives
<1>3. then.state = [values |-> then.state.values, defaulted |-> then.state.defaulted]
  BY <1>1 DEF SnapshotShape
<1>4. s.values = then.state.values /\ s.defaulted = then.state.defaulted /\ s.cache = then.cache /\ ~s.rewind.on
  BY <1>2 DEF IsRejected
<1>5. Snapshot(s) = then.state
  BY <1>3, <1>4 DEF Snapshot
<1>. QED
  BY <1>4, <1>5 DEF then

\* Going on without a rewind leaves a store that has none running as it is.
LEMMA FollowLeaves ==
  ASSUME NEW s, NEW h, NEW here, NEW i, NEW k, NEW amends, ~s.rewind.on, k = 0 \/ ~Rewind(Rule(k)),
         Follow(s, h, here, i, k, amends)
  PROVE  store' = s
<1>1. EndRewind(s, TRUE) = s
  BY NothingToEnd
<1>2. k = 0 \/ k # 0
  OBVIOUS
<1>. QED
  BY <1>1, <1>2 DEF Follow, Continue, FailRun

\* Going on takes nothing back.
LEMMA FollowTakesNothingBack ==
  ASSUME NEW s, NEW h, NEW here, NEW i, NEW k, NEW amends, StoreShape(pipe, s), KeptShape(h),
         Follow(s, h, here, i, k, amends)
  PROVE  kept'.rejections = h.rejections
<1>1. KeepRewound(h, s, k).rejections = h.rejections
  BY KeepRewoundGives
<1>. QED
  BY <1>1 DEF Follow

\* Taking a rewind back leaves the state, the step cache and the default marks as they were when
\* it was taken, whichever hook asked for it and however the run goes on.
THEOREM RewindsComeBack == Spec => RejectionRestores
<1>. DEFINE Restores == kept'.rejections # kept.rejections =>
                          Snapshot(store') = kept.taken.state /\ store'.cache = kept.taken.cache
<1>1. ASSUME FlowInv, [Next]_vars PROVE Restores
  <2>1. /\ ShapeInv /\ StoreShape(pipe, store) /\ KeptShape(kept) /\ pipe \in Pipelines
    BY <1>1 DEF FlowInv, ShapeInv
  <2>2. CASE BeginVisit \/ StepFails \/ StepReturns \/ NoRule \/ EndContext \/ UNCHANGED vars
    BY <2>2 DEF BeginVisit, StepFails, StepReturns, NoRule, EndContext, vars
  <2>3. CASE Succeeded
    <3>. DEFINE k == visit.rule
                amends == visit.amends
    <3>1. CASE /\ pc = "succeeded" /\ EndsRewind(at) /\ visit.verdict = "reject"
               /\ Follow(RejectRewind(store), KeepRejected(kept), at, at, k, amends)
      <4>. DEFINE s == RejectRewind(store)
                  h == KeepRejected(kept)
      <4>1. k = 0 \/ ~Rewind(Rule(k))
        BY <1>1, <3>1 DEF FlowInv, VisitInv
      <4>2. store.rewind.on /\ s = RejectRewind(store) /\ Follow(s, h, at, at, k, amends)
        BY <3>1 DEF EndsRewind
      <4>. HIDE DEF s, h, k, amends
      <4>3. Snapshot(s) = kept.taken.state /\ s.cache = kept.taken.cache /\ ~s.rewind.on
        BY <1>1, <3>1, <4>2, RejectedStore
      <4>4. store' = s
        BY <4>1, <4>2, <4>3, FollowLeaves
      <4>. QED
        BY <4>3, <4>4 DEF Snapshot
    <3>2. CASE /\ pc = "succeeded" /\ ~(EndsRewind(at) /\ visit.verdict = "reject")
      <4>. DEFINE fails == k # 0 /\ Rule(k).to = Fail
                  s == IF fails THEN store ELSE Commit(store, visit)
                  h == IF fails THEN [kept EXCEPT !.dropped = @ \union {This}] ELSE KeepVisit(kept, visit)
                  e == EndRewind(s, TRUE)
      <4>1. Follow(e, h, at, at, k, amends) \/ Follow(s, h, at, at, k, amends)
        BY <2>3, <3>2 DEF Succeeded
      <4>2. StoreShape(pipe, s)
        BY <2>1, CommitGives
      <4>3. KeptShape(h) /\ h.rejections = kept.rejections
        BY <2>1, KeepVisitGives, KeepDroppedGives
      <4>. HIDE DEF s, h
      <4>4. StoreShape(pipe, e)
        BY <4>2, EndRewindGives
      <4>. HIDE DEF e, k, amends
      <4>5. kept'.rejections = h.rejections
        BY <4>1, <4>2, <4>3, <4>4, FollowTakesNothingBack
      <4>. QED
        BY <4>3, <4>5
    <3>. QED
      BY <2>3, <3>1, <3>2 DEF Succeeded
  <2>4. CASE Failed
    <3>. DEFINE rejects == EndsRewind(at) /\ visit.verdict \in {"reject", "panic"}
                s == IF rejects THEN RejectRewind(store) ELSE store
                h == IF rejects THEN KeepFailedBack(kept) ELSE [kept EXCEPT !.dropped = @ \union {This}]
    <3>1. pc = "failed" /\ kept' = h /\ (FailRun(s) \/ store' = s)
      BY <2>4 DEF Failed
    <3>2. CASE ~rejects
      <4>1. h.rejections = kept.rejections
        BY <2>1, <3>2, KeepDroppedGives
      <4>. QED
        BY <3>1, <4>1
    <3>3. CASE rejects
      <4>1. store.rewind.on /\ s = RejectRewind(store)
        BY <3>3 DEF EndsRewind
      <4>. HIDE DEF s, h
      <4>2. Snapshot(s) = kept.taken.state /\ s.cache = kept.taken.cache /\ ~s.rewind.on
        BY <1>1, <3>1, <4>1, RejectedStore
      <4>3. store' = s
        BY <3>1, <4>2, NothingToEnd DEF FailRun
      <4>. QED
        BY <4>2, <4>3 DEF Snapshot
    <3>. QED
      BY <3>2, <3>3
  <2>5. CASE AskRestore
    <3>. DEFINE from == Running.from
                K == {k \in SuccessRules(pipe, from) : ~Rewind(Rule(k))}
                s == RejectRewind(store)
                h == KeepRejected(kept)
    <3>1. /\ pc = "rules" /\ visit.restorable
          /\ \/ UNCHANGED kept
             \/ \E k \in MayMatch(K) : Follow(s, h, at, from, k, FALSE)
             \/ Follow(s, h, at, from, 0, FALSE)
             \/ FailRun(s)
      BY <2>5 DEF AskRestore, MustAskRestore
    <3>2. store.rewind.on
      BY <1>1, <3>1 DEF FlowInv, VisitInv
    <3>. HIDE DEF from, h
    <3>3. Snapshot(s) = kept.taken.state /\ s.cache = kept.taken.cache /\ ~s.rewind.on
      BY <1>1, <3>1, <3>2, RejectedStore
    <3>. HIDE DEF s
    <3>4. ASSUME NEW k, k = 0 \/ ~Rewind(Rule(k)), Follow(s, h, at, from, k, FALSE) PROVE store' = s
      BY <3>3, <3>4, FollowLeaves
    <3>5. ASSUME NEW k \in MayMatch(K) PROVE ~Rewind(Rule(k))
      BY DEF MayMatch
    <3>. HIDE DEF K
    <3>6. ASSUME FailRun(s) PROVE store' = s
      BY <3>3, <3>6, NothingToEnd DEF FailRun
    <3>7. ASSUME Follow(s, h, at, from, 0, FALSE) PROVE store' = s
      BY <3>4, <3>7
    <3>8. UNCHANGED kept \/ store' = s
      BY <3>1, <3>4, <3>5, <3>6, <3>7
    <3>. QED
      BY <3>3, <3>8 DEF Snapshot
  <2>6. CASE TryRule
    <3>. DEFINE s == IF EndsRewind(at) THEN EndRewind(store, TRUE) ELSE store
    <3>1. UNCHANGED kept \/ \E k : Follow(s, kept, at, at, k, Rule(k).amend)
      BY <2>6 DEF TryRule
    <3>2. StoreShape(pipe, s)
      BY <2>1, EndRewindGives
    <3>. HIDE DEF s
    <3>3. ASSUME NEW k, NEW amends, Follow(s, kept, at, at, k, amends) PROVE kept'.rejections = kept.rejections
      BY <2>1, <3>2, <3>3, FollowTakesNothingBack
    <3>. QED
      BY <3>1, <3>3
  <2>. HIDE DEF Restores
  <2>. QED
    BY <1>1, <2>2, <2>3, <2>4, <2>5, <2>6 DEF Next, RunStep
<1>2. FlowInv /\ [Next]_vars => Restores
  BY <1>1
<1>. QED
  BY <1>2, FlowInvariant, PTL DEF Spec, RejectionRestores

-----------------------------------------------------------------------------
(* The tool writes and the cached results that stand. *)

\* The visits whose tool writes stand.
Kept(h) == h.committed \ h.dropped

\* The visits of X are some the run has made.
Made(p, made, X) ==
  \A x \in X : /\ x.step \in Steps(p) /\ x.visit \in Nat /\ x.visit <= made[x.step]
               /\ x = Visited(x.step, x.visit)

\* The memory, with what a rewind has staged, has the tool writes that stand; while a rewind is
\* running it has those from before the rewind began, and so has the step cache as it was then.
WorkFits(p, made, s, h) ==
  /\ Made(p, made, h.committed \union h.dropped)
  /\ s.memory \union s.rewind.stage = Kept(h)
  /\ ~s.rewind.on => s.rewind.stage = {}
  /\ s.rewind.on =>
       /\ h.taken.visits \in [Steps(p) -> Nat]
       /\ \A i \in Steps(p) : h.taken.visits[i] <= made[i]
       /\ s.memory = {x \in Kept(h) : x.visit <= h.taken.visits[x.step]}
       /\ \A e \in DOMAIN h.taken.cache : h.taken.cache[e].by \in s.memory

\* The step cache c serves results of the visits X.
Serves(c, X) == \A e \in DOMAIN c : c[e].by \in X

\* The visit in progress is none of those that committed or were dropped.
VisitIsNew ==
  pc \in {"step", "succeeded", "failed"} =>
    /\ This \notin kept.committed \union kept.dropped
    /\ visits[at] \in Nat
    /\ store.rewind.on => kept.taken.visits[at] < visits[at]

WorkInv ==
  /\ WorkFits(pipe, visits, store, kept)
  /\ VisitIsNew
  /\ pc = "succeeded" => visit.by \in Kept(kept) \union {This}
  /\ pc # "done" => Serves(store.cache, Kept(kept) \union (IF pc = "succeeded" THEN {visit.by} ELSE {}))
  /\ pc = "done" => outcome # "running"

\* The end of a rewind keeps its staged work and leaves the step cache alone.
LEMMA WorkEnds ==
  ASSUME NEW p, NEW made, NEW s, NEW h, StoreShape(p, s), WorkFits(p, made, s, h),
         NEW e, e = EndRewind(s, TRUE)
  PROVE  WorkFits(p, made, e, h) /\ e.cache = s.cache /\ ~e.rewind.on
<1>1. IsEnded(e, s)
  BY EndRewindGives
<1>2. e.cache = s.cache /\ ~e.rewind.on
  BY <1>1 DEF IsEnded
<1>3. e.rewind.stage = {} /\ e.memory = Kept(h)
  <2>1. CASE s.rewind.on
    <3>1. NoRewind.stage = {}
      BY DEF NoRewind
    <3>2. e.memory = s.memory \union s.rewind.stage /\ e.rewind = NoRewind
      BY <1>1, <2>1 DEF IsEnded
    <3>. QED
      BY <3>1, <3>2 DEF WorkFits
  <2>2. CASE ~s.rewind.on
    <3>1. e.memory = s.memory /\ e.rewind = s.rewind
      BY <1>1, <2>2 DEF IsEnded
    <3>2. s.rewind.stage = {} /\ s.memory \union s.rewind.stage = Kept(h)
      BY <2>2 DEF WorkFits
    <3>3. s.memory = Kept(h)
      BY <3>2
    <3>. QED
      BY <3>1, <3>2, <3>3
  <2>. QED
    BY <2>1, <2>2
<1>. QED
  BY <1>2, <1>3 DEF WorkFits

\* A rejection drops what was made since the rewind began, and nothing else.
LEMMA WorkRejected ==
  ASSUME FlowInv, store.rewind.on, pc \notin {"next", "done"}, WorkFits(pipe, visits, store, kept),
         NEW s, s = RejectRewind(store), NEW h, h = KeepRejected(kept)
  PROVE  WorkFits(pipe, visits, s, h) /\ Serves(s.cache, Kept(h))
<1>. DEFINE then == kept.taken
            made == then.visits
            later == UNION {{Visited(i, n) : n \in (made[i] + 1)..visits[i]} : i \in Steps(pipe)}
            old == {x \in Kept(kept) : x.visit <= made[x.step]}
<1>1. /\ StoreShape(pipe, store) /\ SnapshotShape(then.state) /\ IsFunction(then.cache) /\ KeptShape(kept)
      /\ KeepsWhatHeld(pipe, store, then) /\ visits \in [Steps(pipe) -> Nat]
  BY DEF FlowInv, ShapeInv, KeptShape, RewindInv, RewindFits
<1>2. /\ made \in [Steps(pipe) -> Nat] /\ store.memory = old
      /\ \A e \in DOMAIN then.cache : then.cache[e].by \in store.memory
      /\ Made(pipe, visits, kept.committed \union kept.dropped)
  BY DEF WorkFits
<1>3. h.committed = kept.committed /\ h.dropped = kept.dropped \union later
  BY <1>1, KeepRejectedGives
<1>4. \A x : x \in later <=> \E i \in Steps(pipe) : \E n \in (made[i] + 1)..visits[i] : x = Visited(i, n)
  OBVIOUS
<1>. HIDE DEF then, made, later
<1>5. IsRejected(s, store, then)
  BY <1>1, RejectRewindGives
<1>6. s.memory = store.memory /\ s.rewind.stage = {} /\ ~s.rewind.on /\ s.cache = then.cache
  BY <1>5 DEF IsRejected, NoRewind
<1>7. \A i, n : Visited(i, n).step = i /\ Visited(i, n).visit = n
  BY DEF Visited
<1>8. Kept(h) = old
  <2>1. ASSUME NEW x \in Kept(kept) PROVE x \in later <=> ~(x.visit <= made[x.step])
    <3>1. /\ x.step \in Steps(pipe) /\ x.visit \in Nat /\ x.visit <= visits[x.step]
          /\ x = Visited(x.step, x.visit)
      BY <1>2, <2>1 DEF Kept, Made
    <3>2. made[x.step] \in Nat /\ visits[x.step] \in Nat
      BY <1>1, <1>2, <3>1
    <3>3. ASSUME x \in later PROVE ~(x.visit <= made[x.step])
      <4>1. PICK i, n : i \in Steps(pipe) /\ n \in (made[i] + 1)..visits[i] /\ x = Visited(i, n)
        BY <1>4, <3>3
      <4>2. x.step = i /\ x.visit = n
        BY <1>7, <4>1
      <4>3. made[i] \in Nat /\ visits[i] \in Nat
        BY <1>1, <1>2, <4>1
      <4>4. ~(n <= made[i])
        BY <4>1, <4>3
      <4>. QED
        BY <4>2, <4>4
    <3>4. ASSUME ~(x.visit <= made[x.step]) PROVE x \in later
      <4>1. x.visit \in (made[x.step] + 1)..visits[x.step]
        BY <3>1, <3>2, <3>4
      <4>. QED
        BY <1>4, <3>1, <4>1
    <3>. QED
      BY <3>3, <3>4
  <2>2. Kept(h) = Kept(kept) \ later
    BY <1>3 DEF Kept
  <2>. QED
    BY <2>1, <2>2
<1>9. Made(pipe, visits, h.committed \union h.dropped)
  <2>1. Made(pipe, visits, later)
    <3>1. ASSUME NEW x \in later
          PROVE  /\ x.step \in Steps(pipe) /\ x.visit \in Nat /\ x.visit <= visits[x.step]
                 /\ x = Visited(x.step, x.visit)
      <4>1. PICK i, n : i \in Steps(pipe) /\ n \in (made[i] + 1)..visits[i] /\ x = Visited(i, n)
        BY <1>4, <3>1
      <4>2. x.step = i /\ x.visit = n /\ made[i] \in Nat /\ visits[i] \in Nat
        BY <1>1, <1>2, <1>7, <4>1
      <4>. QED
        BY <4>1, <4>2
    <3>. QED
      BY <3>1 DEF Made
  <2>. QED
    BY <1>2, <1>3, <2>1 DEF Made
<1>10. Serves(s.cache, Kept(h))
  BY <1>2, <1>6, <1>8 DEF Serves
<1>11. s.memory \union s.rewind.stage = Kept(h)
  BY <1>2, <1>6, <1>8
<1>. QED
  BY <1>6, <1>9, <1>10, <1>11 DEF WorkFits

\* A visit that commits adds its tool writes to those that stand.
LEMMA WorkCommits ==
  ASSUME ShapeInv, WorkInv, pc = "succeeded", NEW s, s = Commit(store, visit), NEW h, h = KeepVisit(kept, visit)
  PROVE  WorkFits(pipe, visits, s, h) /\ Serves(s.cache, Kept(h))
<1>. DEFINE by == visit.by
            made == kept.taken.visits
<1>1. StoreShape(pipe, store) /\ KeptShape(kept) /\ at \in Steps(pipe) /\ visits \in [Steps(pipe) -> Nat]
  BY DEF ShapeInv
<1>2. /\ WorkFits(pipe, visits, store, kept) /\ by \in Kept(kept) \union {This}
      /\ This \notin kept.committed \union kept.dropped /\ visits[at] \in Nat
      /\ store.rewind.on => made[at] < visits[at]
      /\ Serves(store.cache, Kept(kept) \union {by})
  BY DEF WorkInv, VisitIsNew
<1>3. /\ h.committed = kept.committed \union {by} /\ h.dropped = kept.dropped /\ h.taken = kept.taken
  BY <1>1, KeepVisitGives
<1>4. IsCommitted(s, store, visit)
  BY <1>1, CommitGives
<1>5. This.step = at /\ This.visit = visits[at] /\ This = Visited(This.step, This.visit)
  BY DEF This, Visited
<1>. HIDE DEF by, made
<1>6. Kept(h) = Kept(kept) \union {by}
  BY <1>2, <1>3 DEF Kept
<1>7. Made(pipe, visits, h.committed \union h.dropped)
  <2>1. Made(pipe, visits, {This})
    BY <1>1, <1>5 DEF Made
  <2>2. Made(pipe, visits, kept.committed \union kept.dropped)
    BY <1>2 DEF WorkFits
  <2>. QED
    BY <1>2, <1>3, <2>1, <2>2 DEF Made, Kept
<1>8. s.cache = store.cache /\ s.rewind.on = store.rewind.on
  BY <1>4 DEF IsCommitted
<1>9. Serves(s.cache, Kept(h))
  BY <1>2, <1>6, <1>8
<1>10. CASE ~store.rewind.on
  <2>1. s.memory = store.memory \union {by} /\ s.rewind.stage = store.rewind.stage
    BY <1>4, <1>10 DEF IsCommitted, by
  <2>. QED
    BY <1>2, <1>6, <1>7, <1>8, <1>9, <1>10, <2>1 DEF WorkFits
<1>11. CASE store.rewind.on
  <2>1. s.memory = store.memory /\ s.rewind.stage = store.rewind.stage \union {by}
    BY <1>4, <1>11 DEF IsCommitted, by
  <2>2. /\ made \in [Steps(pipe) -> Nat] /\ \A i \in Steps(pipe) : made[i] <= visits[i]
        /\ store.memory = {x \in Kept(kept) : x.visit <= made[x.step]}
        /\ \A e \in DOMAIN kept.taken.cache : kept.taken.cache[e].by \in store.memory
        /\ store.memory \union store.rewind.stage = Kept(kept)
    BY <1>2, <1>11 DEF WorkFits, made
  <2>3. by = This => ~(by.visit <= made[by.step])
    BY <1>1, <1>2, <1>5, <1>11, <2>2
  <2>4. s.memory = {x \in Kept(h) : x.visit <= made[x.step]}
    BY <1>2, <1>6, <2>1, <2>2, <2>3
  <2>5. s.memory \union s.rewind.stage = Kept(h)
    BY <1>6, <2>1, <2>2
  <2>6. made = h.taken.visits /\ kept.taken.cache = h.taken.cache
    BY <1>3 DEF made
  <2>. QED
    BY <1>7, <1>8, <1>9, <1>11, <2>1, <2>2, <2>4, <2>5, <2>6 DEF WorkFits
<1>. QED
  BY <1>10, <1>11

\* A visit that is dropped before it commits takes nothing along.
LEMMA WorkDrops ==
  ASSUME ShapeInv, WorkInv, pc \in {"succeeded", "failed"},
         NEW h, h = [kept EXCEPT !.dropped = @ \union {This}]
  PROVE  WorkFits(pipe, visits, store, h) /\ Kept(h) = Kept(kept)
<1>1. KeptShape(kept) /\ at \in Steps(pipe) /\ visits \in [Steps(pipe) -> Nat]
  BY DEF ShapeInv
<1>2. WorkFits(pipe, visits, store, kept) /\ This \notin kept.committed
  BY DEF WorkInv, VisitIsNew
<1>3. h.committed = kept.committed /\ h.dropped = kept.dropped \union {This} /\ h.taken = kept.taken
  BY <1>1, KeepDroppedGives
<1>4. Kept(h) = Kept(kept)
  BY <1>2, <1>3 DEF Kept
<1>5. Made(pipe, visits, h.committed \union h.dropped)
  <2>1. This.step = at /\ This.visit = visits[at] /\ This = Visited(This.step, This.visit)
    BY DEF This, Visited
  <2>2. Made(pipe, visits, {This})
    BY <1>1, <2>1 DEF Made
  <2>3. Made(pipe, visits, kept.committed \union kept.dropped)
    BY <1>2 DEF WorkFits
  <2>. QED
    BY <1>3, <2>2, <2>3 DEF Made
<1>. QED
  BY <1>2, <1>3, <1>4, <1>5 DEF WorkFits

\* A run that fails keeps the work of the visits that were kept.
LEMMA WorkFailRun ==
  ASSUME NEW s, NEW h, StoreShape(pipe, s), WorkFits(pipe, visits, s, h),
         FailRun(s), kept' = h, UNCHANGED <<pipe, visits>>
  PROVE  WorkInv'
<1>. DEFINE e == EndRewind(s, TRUE)
<1>1. store' = e /\ outcome' = "failed" /\ pc' = "done"
  BY DEF FailRun
<1>2. WorkFits(pipe, visits, e, h)
  BY WorkEnds
<1>. HIDE DEF e
<1>. QED
  BY <1>1, <1>2 DEF WorkInv, VisitIsNew

\* Going on to another step, or ending the run, keeps the work of the visits that were kept.
LEMMA WorkContinue ==
  ASSUME NEW s, NEW h, NEW here, NEW next, StoreShape(pipe, s), WorkFits(pipe, visits, s, h),
         Serves(s.cache, Kept(h)), Continue(s, here, next), kept' = h, UNCHANGED <<pipe, visits>>
  PROVE  WorkInv'
<1>. DEFINE e == EndRewind(s, TRUE)
<1>1. \/ store' = s /\ pc' = "next"
      \/ store' = e /\ outcome' = "succeeded" /\ pc' = "done"
  BY DEF Continue
<1>2. WorkFits(pipe, visits, e, h)
  BY WorkEnds
<1>. HIDE DEF e
<1>3. CASE store' = s /\ pc' = "next"
  <2>1. Serves(s.cache, Kept(h) \union {})
    BY DEF Serves
  <2>. QED
    BY <1>3, <2>1 DEF WorkInv, VisitIsNew
<1>4. CASE store' = e /\ outcome' = "succeeded" /\ pc' = "done"
  BY <1>2, <1>4 DEF WorkInv, VisitIsNew
<1>. QED
  BY <1>1, <1>3, <1>4

\* Going on keeps what stands: a rewind begins with nothing staged.
LEMMA WorkFollow ==
  ASSUME ShapeInv, NEW s, NEW h, NEW here, NEW i, NEW k, NEW amends, StoreShape(pipe, s), KeptShape(h),
         WorkFits(pipe, visits, s, h),
         (k # 0 /\ Rule(k).to = Fail) \/ Serves(s.cache, Kept(h)),
         k # 0 => k \in DOMAIN pipe.rules, k \in Rewinds(pipe) => ~s.rewind.on,
         Follow(s, h, here, i, k, amends), UNCHANGED <<pipe, visits>>
  PROVE  WorkInv'
<1>1. CASE k # 0 /\ Rule(k).to = Fail /\ FailRun(s) /\ kept' = h
  BY <1>1, WorkFailRun
<1>2. ASSUME NEW next, Continue(s, here, next), kept' = h, ~(k # 0 /\ Rule(k).to = Fail) PROVE WorkInv'
  BY <1>2, WorkContinue
<1>3. CASE k # 0 /\ Rewind(Rule(k)) /\ Continue(StartRewind(s, k, amends), here, Rule(k).to)
           /\ kept' = KeepRewound(h, s, k)
  <2>. DEFINE e == StartRewind(s, k, amends)
              w == KeepRewound(h, s, k)
              next == Rule(k).to
              keys == RangeKeys(pipe, Rule(k))
              snap == before[Rule(k).to]
  <2>1. k \in Rewinds(pipe) /\ visits \in [Steps(pipe) -> Nat]
    BY <1>3 DEF Rewinds, Rule, ShapeInv
  <2>2. Continue(e, here, next) /\ kept' = w
    BY <1>3
  <2>3. /\ KeptShape(w) /\ w.committed = h.committed /\ w.dropped = h.dropped
        /\ w.taken.cache = s.cache /\ w.taken.visits = visits
    BY KeepRewoundGives
  <2>4. /\ StoreShape(pipe, e)
        /\ \A key : /\ key \in keys => SameAt(e, snap, key)
                    /\ key \notin keys => SameAt(e, s, key)
        /\ e.cache = s.cache /\ e.memory = s.memory
        /\ e.rewind.on /\ e.rewind.rule = k /\ e.rewind.prev = SnapshotOf(s, keys)
        /\ e.rewind.stage = {} /\ e.rewind.replaced = <<>>
    <3>1. keys = RangeKeys(pipe, Rule(k)) /\ snap = before[Rule(k).to] /\ e = StartRewind(s, k, amends)
      OBVIOUS
    <3>. HIDE DEF keys, snap, e
    <3>. QED
      BY <2>1, <3>1, StartRewindGives
  <2>5. Serves(s.cache, Kept(h))
    BY <1>3 DEF Rewind
  <2>. HIDE DEF e, w, next
  <2>6. Kept(w) = Kept(h)
    BY <2>3 DEF Kept
  <2>7. ~s.rewind.on /\ s.memory = Kept(h) /\ Made(pipe, visits, h.committed \union h.dropped)
    <3>1. ~s.rewind.on
      BY <2>1
    <3>2. s.memory \union s.rewind.stage = Kept(h) /\ s.rewind.stage = {}
      BY <3>1 DEF WorkFits
    <3>. QED
      BY <3>1, <3>2 DEF WorkFits
  <2>8. e.memory = {x \in Kept(w) : x.visit <= w.taken.visits[x.step]}
    BY <2>3, <2>4, <2>6, <2>7 DEF Made, Kept
  <2>9. \A e2 \in DOMAIN w.taken.cache : w.taken.cache[e2].by \in e.memory
    BY <2>3, <2>4, <2>5, <2>7 DEF Serves
  <2>10. \A j \in Steps(pipe) : w.taken.visits[j] <= visits[j]
    BY <2>1, <2>3
  <2>11. WorkFits(pipe, visits, e, w)
    BY <2>1, <2>3, <2>4, <2>6, <2>7, <2>8, <2>9, <2>10 DEF WorkFits
  <2>12. Serves(e.cache, Kept(w))
    BY <2>4, <2>5, <2>6
  <2>. QED
    BY <2>2, <2>4, <2>11, <2>12, WorkContinue
<1>. QED
  BY <1>1, <1>2, <1>3 DEF Follow

\* What decides the rules keeps who made the visit's writes.
LEMMA DecidedKeeps ==
  ASSUME NEW v, VisitShape(v), NEW verdict, NEW w \in Decided(v, verdict)
  PROVE  w.by = v.by
<1>. DEFINE u == [v EXCEPT !.verdict = verdict]
<1>1. VisitShape(u) /\ u.by = v.by
  BY DEF VisitShape
<1>2. \/ \E k, amend : w = [u EXCEPT !.rule = k, !.amends = amend]
      \/ w = [u EXCEPT !.failed = "hook"]
      \/ w = [u EXCEPT !.failed = "maxvisits", !.maxed = TRUE]
      \/ w = u
  <2>. HIDE DEF u
  <2>. QED
    BY DEF Decided, u
<1>. HIDE DEF u
<1>. QED
  BY <1>1, <1>2 DEF VisitShape

\* A visit that begins may end the rewind whose range it is past.
LEMMA WorkBegins ==
  ASSUME FlowInv, WorkInv, BeginVisit
  PROVE  WorkInv'
<1>. DEFINE ends == store.rewind.on /\ at > Running.from
            s == IF ends THEN EndRewind(store, TRUE) ELSE store
            amends == s.rewind.amended /\ Running.to = at
            e == IF amends THEN [s EXCEPT !.rewind.amended = FALSE] ELSE s
<1>1. /\ pc = "next" /\ visits' = [visits EXCEPT ![at] = @ + 1] /\ store' = e
      /\ pc' \in {"step", "failed"} /\ UNCHANGED <<pipe, at, outcome, kept>>
  BY DEF BeginVisit
<1>2. /\ StoreShape(pipe, store) /\ at \in Steps(pipe) /\ visits \in [Steps(pipe) -> Nat]
      /\ WorkFits(pipe, visits, store, kept) /\ Serves(store.cache, Kept(kept))
  <2>1. WorkFits(pipe, visits, store, kept) /\ Serves(store.cache, Kept(kept) \union {})
    BY <1>1 DEF WorkInv
  <2>. QED
    BY <2>1 DEF FlowInv, ShapeInv, Serves
<1>3. StoreShape(pipe, s) /\ WorkFits(pipe, visits, s, kept) /\ s.cache = store.cache
  <2>1. CASE ends
    <3>1. s = EndRewind(store, TRUE)
      BY <2>1
    <3>. HIDE DEF s
    <3>. QED
      BY <1>2, <3>1, WorkEnds, EndRewindGives
  <2>2. CASE ~ends
    BY <1>2, <2>2
  <2>. QED
    BY <2>1, <2>2
<1>. HIDE DEF s, ends
<1>4. /\ e.memory = s.memory /\ e.cache = s.cache /\ e.rewind.on = s.rewind.on
      /\ e.rewind.stage = s.rewind.stage
  <2>1. DOMAIN s = {"values", "defaulted", "cache", "memory", "rewind"}
    BY <1>3 DEF StoreShape
  <2>2. DOMAIN s.rewind = {"on", "rule", "prev", "amended", "stage", "replaced"}
    BY <1>3 DEF StoreShape, RewindShape
  <2>3. CASE amends
    <3>. DEFINE q == s.rewind
                r == [q EXCEPT !.amended = FALSE]
    <3>1. e = [s EXCEPT !.rewind = r]
      BY <2>3
    <3>2. r.on = q.on /\ r.stage = q.stage
      BY <2>2
    <3>. HIDE DEF r, e
    <3>. QED
      BY <2>1, <3>1, <3>2
  <2>4. CASE ~amends
    BY <2>4
  <2>. QED
    BY <2>3, <2>4
<1>. HIDE DEF e, amends
<1>5. /\ \A i \in Steps(pipe) : visits[i] <= visits'[i] /\ visits'[i] \in Nat
      /\ visits'[at] = visits[at] + 1
  BY <1>1, <1>2
<1>6. WorkFits(pipe, visits', e, kept)
  <2>1. Made(pipe, visits', kept.committed \union kept.dropped)
    <3>1. Made(pipe, visits, kept.committed \union kept.dropped)
      BY <1>3 DEF WorkFits
    <3>2. ASSUME NEW x \in kept.committed \union kept.dropped
          PROVE  /\ x.step \in Steps(pipe) /\ x.visit \in Nat /\ x.visit <= visits'[x.step]
                 /\ x = Visited(x.step, x.visit)
      <4>1. /\ x.step \in Steps(pipe) /\ x.visit \in Nat /\ x.visit <= visits[x.step]
            /\ x = Visited(x.step, x.visit)
        BY <3>1 DEF Made
      <4>2. visits[x.step] \in Nat /\ visits'[x.step] \in Nat /\ visits[x.step] <= visits'[x.step]
        BY <1>2, <1>5, <4>1
      <4>. QED
        BY <4>1, <4>2
    <3>. QED
      BY <3>2 DEF Made
  <2>2. ASSUME s.rewind.on PROVE \A i \in Steps(pipe) : kept.taken.visits[i] <= visits'[i]
    <3>1. ASSUME NEW i \in Steps(pipe) PROVE kept.taken.visits[i] <= visits'[i]
      <4>1. kept.taken.visits[i] \in Nat /\ kept.taken.visits[i] <= visits[i]
        BY <1>3, <2>2 DEF WorkFits
      <4>2. visits[i] \in Nat /\ visits'[i] \in Nat /\ visits[i] <= visits'[i]
        BY <1>2, <1>5
      <4>. QED
        BY <4>1, <4>2
    <3>. QED
      BY <3>1
  <2>. QED
    BY <1>3, <1>4, <2>1, <2>2 DEF WorkFits
<1>7. VisitIsNew'
  <2>1. This'.step = at /\ This'.visit = visits[at] + 1
    BY <1>1, <1>5 DEF This, Visited
  <2>2. visits[at] \in Nat
    BY <1>2
  <2>3. This' \notin kept.committed \union kept.dropped
    <3>1. Made(pipe, visits, kept.committed \union kept.dropped)
      BY <1>3 DEF WorkFits
    <3>2. ASSUME This' \in kept.committed \union kept.dropped PROVE FALSE
      <4>. DEFINE x == This'
      <4>1. x \in kept.committed \union kept.dropped /\ x.step = at /\ x.visit = visits[at] + 1
        BY <2>1, <3>2
      <4>. HIDE DEF x
      <4>2. x.visit <= visits[x.step]
        BY <3>1, <4>1 DEF Made
      <4>. QED
        BY <2>2, <4>1, <4>2
    <3>. QED
      BY <3>2
  <2>4. s.rewind.on => kept.taken.visits[at] < visits'[at]
    <3>1. s.rewind.on => kept.taken.visits[at] \in Nat /\ kept.taken.visits[at] <= visits[at]
      BY <1>2, <1>3 DEF WorkFits
    <3>. QED
      BY <1>5, <2>2, <3>1
  <2>. QED
    BY <1>1, <1>2, <1>4, <1>5, <2>3, <2>4 DEF VisitIsNew
<1>8. Serves(e.cache, Kept(kept) \union {})
  BY <1>2, <1>3, <1>4 DEF Serves
<1>9. pc' # "succeeded" /\ pc' # "done"
  BY <1>1
<1>. QED
  BY <1>1, <1>6, <1>7, <1>8, <1>9 DEF WorkInv

\* A step that returns may leave its result in the step cache, and commits nothing yet.
LEMMA WorkReturns ==
  ASSUME FlowInv, WorkInv, StepReturns
  PROVE  WorkInv'
<1>1. /\ pc = "step" /\ UNCHANGED <<pipe, at, visits, before, outcome, kept>>
  BY DEF StepReturns
<1>2. /\ StoreShape(pipe, store) /\ VisitShape(visit)
      /\ WorkFits(pipe, visits, store, kept) /\ Serves(store.cache, Kept(kept)) /\ VisitIsNew
  <2>1. WorkFits(pipe, visits, store, kept) /\ Serves(store.cache, Kept(kept) \union {}) /\ VisitIsNew
    BY <1>1 DEF WorkInv
  <2>. QED
    BY <2>1 DEF FlowInv, ShapeInv, Serves
<1>3. PICK result \in Results :
       \/ pc' = "failed" /\ UNCHANGED store
       \/ /\ \E verdict \in Verdicts :
               visit' \in Decided([visit EXCEPT !.writes = result.writes, !.by = result.by], verdict)
          /\ pc' = "succeeded"
          /\ \/ store' = StoreCached(store, Entry, result)
             \/ UNCHANGED store
  BY DEF StepReturns, VisitFails
<1>4. result.by \in Kept(kept) \union {This}
  <2>1. CASE CacheHit
    BY <1>2, <2>1 DEF Results, CacheHit, Serves
  <2>2. CASE ~CacheHit
    BY <2>2 DEF Results
  <2>. QED
    BY <2>1, <2>2
<1>5. CASE pc' = "failed" /\ UNCHANGED store
  <2>1. VisitIsNew'
    BY <1>1, <1>2, <1>5 DEF VisitIsNew, This
  <2>2. Serves(store.cache, Kept(kept) \union {})
    BY <1>2 DEF Serves
  <2>. QED
    BY <1>1, <1>2, <1>5, <2>1, <2>2 DEF WorkInv
<1>6. CASE /\ \E verdict \in Verdicts :
                visit' \in Decided([visit EXCEPT !.writes = result.writes, !.by = result.by], verdict)
           /\ pc' = "succeeded"
           /\ \/ store' = StoreCached(store, Entry, result)
              \/ UNCHANGED store
  <2>1. visit'.by = result.by
    <3>. DEFINE writes == result.writes
                by == result.by
                v == [visit EXCEPT !.writes = writes, !.by = by]
    <3>1. PICK verdict : visit' \in Decided(v, verdict)
      BY <1>6
    <3>2. VisitShape(v) /\ v.by = by
      <4>1. v = [visit EXCEPT !.writes = writes, !.by = by]
        OBVIOUS
      <4>. HIDE DEF v, writes, by
      <4>. QED
        BY <1>2, <4>1 DEF VisitShape
    <3>. HIDE DEF v, writes
    <3>3. visit'.by = v.by
      BY <3>1, <3>2, DecidedKeeps
    <3>. QED
      BY <3>2, <3>3 DEF by
  <2>2. /\ store'.memory = store.memory /\ store'.rewind.on = store.rewind.on
        /\ store'.rewind.stage = store.rewind.stage
        /\ Serves(store'.cache, Kept(kept) \union {result.by})
    <3>1. CASE UNCHANGED store
      BY <1>2, <3>1 DEF Serves
    <3>2. CASE store' = StoreCached(store, Entry, result)
      <4>. DEFINE e == StoreCached(store, Entry, result)
                  entry == Entry
      <4>1. e = StoreCached(store, entry, result)
        OBVIOUS
      <4>. HIDE DEF e, entry
      <4>2. IsCached(e, store, entry, result)
        BY <1>2, <4>1, StoreCachedGives
      <4>3. /\ e.memory = store.memory /\ e.rewind.on = store.rewind.on
            /\ e.rewind.stage = store.rewind.stage
            /\ Serves(e.cache, Kept(kept) \union {result.by})
        BY <1>2, <4>2 DEF IsCached, Serves
      <4>4. store' = e
        BY <3>2, <4>1 DEF entry
      <4>. QED
        BY <4>3, <4>4
    <3>. QED
      BY <1>6, <3>1, <3>2
  <2>3. WorkFits(pipe, visits, store', kept)
    BY <1>2, <2>2 DEF WorkFits
  <2>4. VisitIsNew' /\ This' = This
    BY <1>1, <1>2, <2>2 DEF VisitIsNew, This
  <2>. QED
    BY <1>1, <1>4, <1>6, <2>1, <2>2, <2>3, <2>4 DEF WorkInv
<1>. QED
  BY <1>3, <1>5, <1>6

\* A step whose rules were asked commits its work, rewinds or fails.
LEMMA WorkSucceeds ==
  ASSUME FlowInv, WorkInv, Succeeded
  PROVE  WorkInv'
<1>. DEFINE k == visit.rule
            fails == k # 0 /\ Rule(k).to = Fail
            s == IF fails THEN store ELSE Commit(store, visit)
            h == IF fails THEN [kept EXCEPT !.dropped = @ \union {This}] ELSE KeepVisit(kept, visit)
            amends == visit.amends
<1>1. /\ pc = "succeeded" /\ UNCHANGED <<pipe, visits>>
      /\ \/ /\ EndsRewind(at) /\ visit.verdict = "reject"
            /\ Follow(RejectRewind(store), KeepRejected(kept), at, at, k, amends)
         \/ /\ EndsRewind(at)
            /\ Follow(EndRewind(s, TRUE), h, at, at, k, amends)
         \/ /\ ~EndsRewind(at)
            /\ Follow(s, h, at, at, k, amends)
  BY DEF Succeeded
<1>2. /\ ShapeInv /\ StoreShape(pipe, store) /\ KeptShape(kept) /\ pipe \in Pipelines
      /\ WorkFits(pipe, visits, store, kept)
  BY DEF FlowInv, ShapeInv, WorkInv
<1>3. /\ Onward(pipe, at, k)
      /\ visit.verdict = "reject" => k = 0 \/ ~Rewind(Rule(k))
  BY <1>1 DEF FlowInv, VisitInv
<1>4. k # 0 => k \in DOMAIN pipe.rules /\ pipe.rules[k].from = at
  BY <1>3 DEF Onward, SuccessRules
<1>5. k \in Rewinds(pipe) => k # 0 /\ Rewind(Rule(k))
  BY <1>2, RuleFacts DEF Rewinds, Rule
<1>6. CASE /\ EndsRewind(at) /\ visit.verdict = "reject"
           /\ Follow(RejectRewind(store), KeepRejected(kept), at, at, k, amends)
  <2>. DEFINE t == RejectRewind(store)
              w == KeepRejected(kept)
  <2>1. store.rewind.on /\ t = RejectRewind(store) /\ w = KeepRejected(kept) /\ Follow(t, w, at, at, k, amends)
    BY <1>6 DEF EndsRewind
  <2>. HIDE DEF t, w, k, amends
  <2>2. WorkFits(pipe, visits, t, w) /\ Serves(t.cache, Kept(w))
    BY <1>1, <1>2, <2>1, WorkRejected
  <2>3. StoreShape(pipe, t) /\ KeptShape(w) /\ ~t.rewind.on
    BY <1>1, <2>1, RejectionFits
  <2>4. k \notin Rewinds(pipe)
    BY <1>3, <1>5, <1>6
  <2>. QED
    BY <1>1, <1>2, <1>4, <2>1, <2>2, <2>3, <2>4, WorkFollow
<1>7. /\ StoreShape(pipe, s) /\ KeptShape(h) /\ WorkFits(pipe, visits, s, h)
      /\ s.rewind.on = store.rewind.on
      /\ (k # 0 /\ Rule(k).to = Fail) \/ Serves(s.cache, Kept(h))
  <2>1. CASE fails
    <3>1. s = store /\ h = [kept EXCEPT !.dropped = @ \union {This}]
      BY <2>1
    <3>. HIDE DEF s, h
    <3>. QED
      BY <1>1, <1>2, <2>1, <3>1, WorkDrops, KeepDroppedGives
  <2>2. CASE ~fails
    <3>1. s = Commit(store, visit) /\ h = KeepVisit(kept, visit)
      BY <2>2
    <3>. HIDE DEF s, h
    <3>2. StoreShape(pipe, s) /\ s.rewind.on = store.rewind.on
      BY <1>2, <3>1, CommitGives DEF IsCommitted
    <3>. QED
      BY <1>1, <1>2, <3>1, <3>2, WorkCommits, KeepVisitGives
  <2>. QED
    BY <2>1, <2>2
<1>8. CASE EndsRewind(at) /\ Follow(EndRewind(s, TRUE), h, at, at, k, amends)
  <2>. DEFINE e == EndRewind(s, TRUE)
  <2>1. e = EndRewind(s, TRUE) /\ Follow(e, h, at, at, k, amends)
    BY <1>8
  <2>. HIDE DEF e, s, h, k, amends
  <2>2. WorkFits(pipe, visits, e, h) /\ e.cache = s.cache /\ ~e.rewind.on /\ StoreShape(pipe, e)
    BY <1>7, <2>1, WorkEnds, EndRewindGives
  <2>3. (k # 0 /\ Rule(k).to = Fail) \/ Serves(e.cache, Kept(h))
    BY <1>7, <2>2
  <2>. QED
    BY <1>1, <1>2, <1>4, <1>7, <2>1, <2>2, <2>3, WorkFollow
<1>9. CASE ~EndsRewind(at) /\ Follow(s, h, at, at, k, amends)
  <2>1. AtStep(pipe, before, store, kept, at)
    BY <1>1, AtStepNow
  <2>. HIDE DEF s, h, k, amends
  <2>2. k \in Rewinds(pipe) => ~s.rewind.on
    BY <1>2, <1>4, <1>5, <1>7, <1>9, <2>1, OneRewind
  <2>. QED
    BY <1>1, <1>2, <1>4, <1>7, <1>9, <2>2, WorkFollow
<1>. QED
  BY <1>1, <1>6, <1>8, <1>9

\* A step that failed drops its work, with that of a rewind it takes back.
LEMMA WorkFails ==
  ASSUME FlowInv, WorkInv, Failed
  PROVE  WorkInv'
<1>. DEFINE rejects == EndsRewind(at) /\ visit.verdict \in {"reject", "panic"}
            s == IF rejects THEN RejectRewind(store) ELSE store
            h == IF rejects THEN KeepFailedBack(kept) ELSE [kept EXCEPT !.dropped = @ \union {This}]
<1>1. /\ pc = "failed" /\ kept' = h /\ UNCHANGED <<pipe, visits>>
      /\ \/ FailRun(s)
         \/ store' = s /\ pc' = "rules" /\ UNCHANGED <<at, outcome>>
  BY DEF Failed
<1>2. /\ ShapeInv /\ StoreShape(pipe, store) /\ KeptShape(kept)
      /\ WorkFits(pipe, visits, store, kept) /\ Serves(store.cache, Kept(kept) \union {})
  BY <1>1 DEF FlowInv, ShapeInv, WorkInv
<1>3. StoreShape(pipe, s) /\ WorkFits(pipe, visits, s, h) /\ Serves(s.cache, Kept(h))
  <2>1. CASE rejects
    <3>. DEFINE w == KeepRejected(kept)
    <3>1. store.rewind.on /\ s = RejectRewind(store) /\ h = KeepFailedBack(kept) /\ w = KeepRejected(kept)
      BY <2>1 DEF EndsRewind
    <3>. HIDE DEF s, h
    <3>2. h.committed = w.committed /\ h.dropped = w.dropped /\ h.taken = w.taken
      BY <1>2, <3>1, KeepFailedBackGives
    <3>. HIDE DEF w
    <3>3. WorkFits(pipe, visits, s, w) /\ Serves(s.cache, Kept(w))
      BY <1>1, <1>2, <3>1, WorkRejected
    <3>4. StoreShape(pipe, s)
      BY <1>1, <3>1, RejectionFits
    <3>. QED
      BY <3>2, <3>3, <3>4 DEF WorkFits, Kept
  <2>2. CASE ~rejects
    <3>1. s = store /\ h = [kept EXCEPT !.dropped = @ \union {This}]
      BY <2>2
    <3>. HIDE DEF s, h
    <3>2. WorkFits(pipe, visits, s, h) /\ Kept(h) = Kept(kept)
      BY <1>1, <1>2, <3>1, WorkDrops
    <3>. QED
      BY <1>2, <3>1, <3>2 DEF Serves
  <2>. QED
    BY <2>1, <2>2
<1>. HIDE DEF s, h
<1>4. CASE FailRun(s)
  BY <1>1, <1>3, <1>4, WorkFailRun
<1>5. CASE store' = s /\ pc' = "rules" /\ UNCHANGED <<at, outcome>>
  <2>1. Serves(s.cache, Kept(h) \union {})
    BY <1>3 DEF Serves
  <2>. QED
    BY <1>1, <1>3, <1>5, <2>1 DEF WorkInv, VisitIsNew
<1>. QED
  BY <1>1, <1>4, <1>5

\* A restore drops the work of the rewind it takes back.
LEMMA WorkRestores ==
  ASSUME FlowInv, WorkInv, AskRestore
  PROVE  WorkInv'
<1>. DEFINE from == Running.from
            K == {k \in SuccessRules(pipe, from) : ~Rewind(Rule(k))}
            s == RejectRewind(store)
            h == KeepRejected(kept)
<1>1. /\ pc = "rules" /\ visit.restorable /\ UNCHANGED <<pipe, visits>>
      /\ \/ FailRun(store) /\ UNCHANGED kept
         \/ UNCHANGED <<pc, at, store, outcome, kept>>
         \/ \E k \in MayMatch(K) : Follow(s, h, at, from, k, FALSE)
         \/ Follow(s, h, at, from, 0, FALSE)
         \/ FailRun(s) /\ kept' = h
  BY DEF AskRestore, MustAskRestore
<1>2. /\ ShapeInv /\ StoreShape(pipe, store) /\ KeptShape(kept) /\ pipe \in Pipelines
      /\ WorkFits(pipe, visits, store, kept) /\ Serves(store.cache, Kept(kept) \union {})
  BY <1>1 DEF FlowInv, ShapeInv, WorkInv
<1>3. store.rewind.on
  BY <1>1 DEF FlowInv, VisitInv
<1>4. \A k \in MayMatch(K) : k \in DOMAIN pipe.rules /\ k \notin Rewinds(pipe)
  BY DEF MayMatch, SuccessRules, Rewinds, Rule
<1>5. s = RejectRewind(store) /\ h = KeepRejected(kept)
  OBVIOUS
<1>. HIDE DEF K, s, h, from
<1>6. WorkFits(pipe, visits, s, h) /\ Serves(s.cache, Kept(h))
  BY <1>1, <1>2, <1>3, <1>5, WorkRejected
<1>7. StoreShape(pipe, s) /\ KeptShape(h) /\ ~s.rewind.on
  BY <1>1, <1>3, <1>5, RejectionFits
<1>8. ASSUME NEW k, k # 0 => k \in DOMAIN pipe.rules, Follow(s, h, at, from, k, FALSE) PROVE WorkInv'
  BY <1>1, <1>2, <1>6, <1>7, <1>8, WorkFollow
<1>9. CASE FailRun(store) /\ UNCHANGED kept
  <2>1. kept' = kept
    BY <1>9
  <2>. QED
    BY <1>1, <1>2, <1>9, <2>1, WorkFailRun
<1>10. CASE FailRun(s) /\ kept' = h
  BY <1>1, <1>6, <1>7, <1>10, WorkFailRun
<1>11. CASE UNCHANGED <<pc, at, store, outcome, kept>>
  BY <1>1, <1>2, <1>11 DEF WorkInv, VisitIsNew
<1>12. CASE \E k \in MayMatch(K) : Follow(s, h, at, from, k, FALSE)
  BY <1>4, <1>8, <1>12
<1>13. CASE Follow(s, h, at, from, 0, FALSE)
  <2>. DEFINE k == 0
  <2>1. Follow(s, h, at, from, k, FALSE) /\ (k # 0 => k \in DOMAIN pipe.rules)
    BY <1>13
  <2>. HIDE DEF k
  <2>. QED
    BY <1>8, <2>1
<1>. QED
  BY <1>1, <1>9, <1>10, <1>11, <1>12, <1>13

\* A failure that a rule matches goes on, or rewinds.
LEMMA WorkTries ==
  ASSUME FlowInv, WorkInv, TryRule
  PROVE  WorkInv'
<1>. DEFINE s == IF EndsRewind(at) THEN EndRewind(store, TRUE) ELSE store
<1>1. /\ pc = "rules" /\ UNCHANGED <<pipe, visits>>
      /\ \/ FailRun(store) /\ UNCHANGED kept
         \/ UNCHANGED <<pc, at, store, outcome, kept>>
         \/ \E k \in Untried : Follow(s, kept, at, at, k, Rule(k).amend)
  <2>. HIDE DEF Untried
  <2>. QED
    BY DEF TryRule
<1>2. /\ ShapeInv /\ StoreShape(pipe, store) /\ KeptShape(kept) /\ pipe \in Pipelines
      /\ WorkFits(pipe, visits, store, kept) /\ Serves(store.cache, Kept(kept) \union {})
  BY <1>1 DEF FlowInv, ShapeInv, WorkInv
<1>3. \A k \in Untried : k \in DOMAIN pipe.rules /\ pipe.rules[k].from = at
  BY DEF Untried, FailureRules
<1>4. AtStep(pipe, before, store, kept, at)
  BY <1>1, AtStepNow
<1>5. /\ StoreShape(pipe, s) /\ WorkFits(pipe, visits, s, kept) /\ s.cache = store.cache
      /\ EndsRewind(at) => ~s.rewind.on
      /\ ~EndsRewind(at) => s = store
  <2>1. CASE EndsRewind(at)
    <3>1. s = EndRewind(store, TRUE)
      BY <2>1
    <3>. HIDE DEF s
    <3>. QED
      BY <1>2, <2>1, <3>1, WorkEnds, EndRewindGives
  <2>2. CASE ~EndsRewind(at)
    BY <1>2, <2>2
  <2>. QED
    BY <2>1, <2>2
<1>. HIDE DEF s
<1>6. CASE FailRun(store) /\ UNCHANGED kept
  <2>1. kept' = kept
    BY <1>6
  <2>. QED
    BY <1>1, <1>2, <1>6, <2>1, WorkFailRun
<1>7. CASE UNCHANGED <<pc, at, store, outcome, kept>>
  BY <1>1, <1>2, <1>7 DEF WorkInv, VisitIsNew
<1>8. ASSUME NEW k \in Untried, NEW amends, Follow(s, kept, at, at, k, amends) PROVE WorkInv'
  <2>1. k \in DOMAIN pipe.rules /\ pipe.rules[k].from = at
    BY <1>3, <1>8
  <2>2. k \in Rewinds(pipe) => ~s.rewind.on
    BY <1>2, <1>4, <1>5, <2>1, OneRewind
  <2>3. Serves(s.cache, Kept(kept))
    BY <1>2, <1>5 DEF Serves
  <2>. QED
    BY <1>1, <1>2, <1>5, <1>8, <2>1, <2>2, <2>3, WorkFollow
<1>. QED
  BY <1>1, <1>6, <1>7, <1>8

\* A run starts with no work done.
LEMMA WorkInit ==
  ASSUME Init
  PROVE  WorkInv
<1>1. /\ pc = "next" /\ store.memory = {} /\ store.rewind = NoRewind /\ store.cache = <<>>
      /\ kept.committed = {} /\ kept.dropped = {}
  BY DEF Init
<1>2. NoRewind.stage = {} /\ ~NoRewind.on
  BY DEF NoRewind
<1>3. WorkFits(pipe, visits, store, kept)
  BY <1>1, <1>2 DEF WorkFits, Made, Kept
<1>4. Serves(store.cache, {})
  BY <1>1 DEF Serves
<1>. QED
  BY <1>1, <1>3, <1>4 DEF WorkInv, VisitIsNew, Serves

\* Every step keeps what the step cache and the tool memory hold right.
LEMMA WorkKeeps ==
  ASSUME FlowInv, WorkInv, [Next]_vars
  PROVE  WorkInv'
<1>1. CASE StepFails
  <2>1. pc = "step" /\ pc' = "failed" /\ UNCHANGED <<pipe, at, visits, store, outcome, kept>>
    BY <1>1 DEF StepFails, VisitFails
  <2>. QED
    BY <2>1 DEF WorkInv, VisitIsNew, This
<1>2. CASE NoRule
  <2>1. FailRun(store) /\ UNCHANGED <<pipe, visits>> /\ kept' = kept
    BY <1>2 DEF NoRule
  <2>2. StoreShape(pipe, store) /\ WorkFits(pipe, visits, store, kept)
    BY DEF FlowInv, ShapeInv, WorkInv
  <2>. QED
    BY <2>1, <2>2, WorkFailRun
<1>3. CASE EndContext \/ UNCHANGED vars
  <2>1. UNCHANGED <<pipe, pc, at, visits, store, visit, outcome, kept>>
    BY <1>3 DEF EndContext, vars
  <2>. QED
    BY <2>1 DEF WorkInv, VisitIsNew, This
<1>. QED
  BY <1>1, <1>2, <1>3, WorkBegins, WorkReturns, WorkSucceeds, WorkFails, WorkRestores, WorkTries
     DEF Next, RunStep

\* Work that was dropped is gone: the tool memory has the tool writes of the visits that
\* committed and were not dropped since, and the step cache serves no result of a visit that
\* failed, was rejected or was restored over.
THEOREM DroppedStaysGone == Spec => []DroppedWorkIsGone
<1>1. Init => WorkInv
  BY WorkInit
<1>2. FlowInv /\ WorkInv /\ [Next]_vars => WorkInv'
  BY WorkKeeps
<1>3. ASSUME WorkInv PROVE DroppedWorkIsGone
  <2>1. /\ store.memory \union store.rewind.stage = kept.committed \ kept.dropped
        /\ ~store.rewind.on => store.rewind.stage = {}
    BY <1>3 DEF WorkInv, WorkFits, Kept
  <2>2. ASSUME outcome = "running", NEW e \in DOMAIN store.cache
        PROVE  store.cache[e].by \notin kept.dropped
    <3>1. /\ pc = "succeeded" => visit.by \in Kept(kept) \union {This} /\ This \notin kept.dropped
          /\ Serves(store.cache, Kept(kept) \union (IF pc = "succeeded" THEN {visit.by} ELSE {}))
      BY <1>3, <2>2 DEF WorkInv, VisitIsNew
    <3>2. store.cache[e].by \in Kept(kept) \/ (pc = "succeeded" /\ store.cache[e].by = visit.by)
      BY <3>1, <2>2 DEF Serves
    <3>. QED
      BY <3>1, <3>2 DEF Kept
  <2>. QED
    BY <2>1, <2>2 DEF DroppedWorkIsGone
<1>. QED
  BY <1>1, <1>2, <1>3, FlowInvariant, PTL DEF Spec
=============================================================================
