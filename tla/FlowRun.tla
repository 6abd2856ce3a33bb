------------------------------- MODULE FlowRun -------------------------------
(***************************************************************************)
(* One run of a pipeline's top-level steps along its transitions           *)
(* (pipeline_transition_run.go), with what a visit commits                 *)
(* (mergeWrites), the tool writes it stages and the step cache of the run  *)
(* (pipeline_exec.go, pipeline_cache.go).                                  *)
(*                                                                         *)
(* A value in the state is the set of visits whose writes it combines: the *)
(* empty set for an input or a Default.  What steps and hooks compute is   *)
(* left open: a step may fail, and When, Accept, Amend, RestoreOnError and *)
(* a merge may return anything or panic.  The context of the run may end   *)
(* at any moment.                                                          *)
(***************************************************************************)
EXTENDS PipelineBuild

CONSTANTS
  Pipelines,    \* the pipelines to run
  Cancellable   \* the pipelines whose run's context may end

ASSUME PipelinesAssumption ==
  \A p \in Pipelines : p.n \in Nat \ {0} /\ DOMAIN p.rules \subseteq Nat \ {0} /\ Accepted(p)

ASSUME CancellableAssumption == Cancellable \subseteq Pipelines

VARIABLES
  pipe,        \* the pipeline of this run
  pc,          \* where the run is in the loop over its steps
  at,          \* the step it is at
  visits,      \* step -> its visits
  before,      \* step -> the state before the latest visit of a rewind target
  store,       \* the state, the step cache, the tool memory and the rewind that is running
  visit,       \* the visit in progress
  ctxEnded,    \* the run's context has ended
  outcome,     \* how the run ended
  kept         \* history: what stands of the visits so far

vars == <<pipe, pc, at, visits, before, store, visit, ctxEnded, outcome, kept>>

-----------------------------------------------------------------------------
(* Visits and values. *)

Visited(i, number) == [step |-> i, visit |-> number]

This == Visited(at, visits[at])

Seed == {}

Amended == {Visited(0, 0)}   \* a value that Amend set

Snapshot(s) == [values |-> s.values, defaulted |-> s.defaulted]

NoSnapshot == [values |-> <<>>, defaulted |-> {}]

SnapshotOf(s, keys) ==
  [values    |-> [key \in DOMAIN s.values \intersect keys |-> s.values[key]],
   defaulted |-> s.defaulted \intersect keys]

NoRewind ==
  [on |-> FALSE, rule |-> 0, prev |-> NoSnapshot, amended |-> FALSE, stage |-> {}, replaced |-> <<>>]

NewVisit ==
  [amended |-> FALSE, failed |-> "no", rule |-> 0, verdict |-> "none", maxed |-> FALSE,
   amends |-> FALSE, writes |-> {}, by |-> Visited(0, 0), restorable |-> FALSE,
   exhausted |-> FALSE, tried |-> 0, matched |-> FALSE]

Rule(k) == pipe.rules[k]

Running == Rule(store.rewind.rule)

\* Step i is the From of the rewind that is running.
EndsRewind(i) == store.rewind.on /\ Running.from = i

Exhausted(k) == visits[Rule(k).to] >= pipe.maxVisits[Rule(k).to]

-----------------------------------------------------------------------------
(* What the run does to its store. *)

\* keys as snap holds them, in place of what s holds.
Restored(s, snap, keys) ==
  [s EXCEPT
     !.values = [key \in (DOMAIN s.values \ keys) \union (DOMAIN snap.values \intersect keys) |->
                   IF key \in keys THEN snap.values[key] ELSE s.values[key]],
     !.defaulted = (s.defaulted \ keys) \union (snap.defaulted \intersect keys)]

\* The cache without the entries stored since the rewind began, and with those they replaced.
Unjournaled(s) ==
  LET replaced == s.rewind.replaced
      entries == {e \in DOMAIN s.cache \union DOMAIN replaced :
                    e \in DOMAIN replaced => replaced[e] # {}}
  IN [e \in entries |-> IF e \in DOMAIN replaced THEN CHOOSE r \in replaced[e] : TRUE
                        ELSE s.cache[e]]

\* Mutation: the staged tool writes commit even when the rewind is rejected.
EndRewindCommitting(s, keep) ==
  IF ~s.rewind.on THEN s
  ELSE [s EXCEPT !.rewind = NoRewind,
                 !.memory = s.memory \union s.rewind.stage,
                 !.cache = IF keep THEN s.cache ELSE Unjournaled(s)]

EndRewind(s, keep) ==
  IF ~s.rewind.on THEN s
  ELSE [s EXCEPT !.rewind = NoRewind,
                 !.memory = IF keep THEN s.memory \union s.rewind.stage ELSE s.memory,
                 !.cache = IF keep THEN s.cache ELSE Unjournaled(s)]

\* Mutation: a rejection restores the state from before the target's latest visit.
RejectRewindToStart(s) ==
  LET r == pipe.rules[s.rewind.rule]
  IN EndRewind(Restored(s, before[r.to], RangeKeys(pipe, r)), FALSE)

RejectRewind(s) ==
  LET r == pipe.rules[s.rewind.rule]
  IN EndRewind(Restored(s, s.rewind.prev, RangeKeys(pipe, r)), FALSE)

\* Mutation: a key stays marked as holding its Default once it is written.
CommitOverDefaults(s, v) ==
  [s EXCEPT
     !.values = [key \in DOMAIN s.values \union v.writes |->
                   IF key \notin v.writes THEN s.values[key]
                   ELSE IF key \in DOMAIN s.values \ s.defaulted THEN s.values[key] \union {v.by} ELSE {v.by}],
     !.memory = IF s.rewind.on THEN s.memory ELSE s.memory \union {v.by},
     !.rewind = IF s.rewind.on THEN [s.rewind EXCEPT !.stage = s.rewind.stage \union {v.by}]
                ELSE s.rewind]

\* A visit's writes become part of the state, and its tool writes of the memory or, while a
\* rewind is running, of its stage.
Commit(s, v) ==
  [s EXCEPT
     !.values = [key \in DOMAIN s.values \union v.writes |->
                   IF key \notin v.writes THEN s.values[key]
                   ELSE IF key \in DOMAIN s.values \ s.defaulted THEN s.values[key] \union {v.by} ELSE {v.by}],
     !.defaulted = s.defaulted \ v.writes,
     !.memory = IF s.rewind.on THEN s.memory ELSE s.memory \union {v.by},
     !.rewind = IF s.rewind.on THEN [s.rewind EXCEPT !.stage = s.rewind.stage \union {v.by}]
                ELSE s.rewind]

StartRewind(s, k, amended) ==
  LET keys == RangeKeys(pipe, Rule(k))
  IN [Restored(s, before[Rule(k).to], keys) EXCEPT
        !.rewind = [on |-> TRUE, rule |-> k, prev |-> SnapshotOf(s, keys), amended |-> amended,
                    stage |-> {}, replaced |-> <<>>]]

\* storeCached: the journal of a running rewind keeps what the entry replaced, the first time.
StoreCached(s, entry, result) ==
  [s EXCEPT
     !.cache = [e \in DOMAIN s.cache \union {entry} |-> IF e = entry THEN result ELSE s.cache[e]],
     !.rewind = IF s.rewind.on /\ entry \notin DOMAIN s.rewind.replaced
                THEN [s.rewind EXCEPT !.replaced =
                        [e \in DOMAIN s.rewind.replaced \union {entry} |->
                           IF e # entry THEN s.rewind.replaced[e]
                           ELSE IF entry \in DOMAIN s.cache THEN {s.cache[entry]} ELSE {}]]
                ELSE s.rewind]

-----------------------------------------------------------------------------
(* History: the visits that stand, the visits that were dropped, the visits *)
(* whose tool writes committed, and what held when the rewind began.        *)

KeepVisit(h, v) ==
  [h EXCEPT !.standing = @ \union {[id |-> This, by |-> v.by, writes |-> v.writes]},
            !.committed = @ \union {v.by}]

\* A rewind takes back what its range committed.
KeepRewound(h, s, k) ==
  [h EXCEPT !.standing = {c \in @ : c.id.step \notin Rule(k).to..Rule(k).from},
            !.taken = [state |-> Snapshot(s), cache |-> s.cache, standing |-> h.standing,
                       visits |-> visits]]

KeepRejected(h) ==
  [h EXCEPT !.standing = h.taken.standing,
            !.rejections = @ + 1,
            !.dropped = @ \union UNION {{Visited(i, n) : n \in (h.taken.visits[i] + 1)..visits[i]} :
                                          i \in Steps(pipe)}]

\* A visit whose Accept, or a When after it rejected, panicked is taken back and still fails.
KeepFailedBack(h) == [KeepRejected(h) EXCEPT !.failedBack = TRUE]

-----------------------------------------------------------------------------

Init ==
  /\ pipe \in Pipelines
  /\ pc = "next"
  /\ at = 1
  /\ visits = [i \in Steps(pipe) |-> 0]
  /\ before = [i \in Steps(pipe) |-> NoSnapshot]
  /\ store = [values    |-> [key \in pipe.inputs \union pipe.defaults |-> Seed],
              defaulted |-> pipe.defaults,
              cache     |-> <<>>,
              memory    |-> {},
              rewind    |-> NoRewind]
  /\ visit = NewVisit
  /\ ctxEnded = FALSE
  /\ outcome = "running"
  /\ kept = [standing |-> {}, dropped |-> {}, committed |-> {}, rejections |-> 0, failedBack |-> FALSE,
             taken |-> [state |-> NoSnapshot, cache |-> <<>>, standing |-> {}, visits |-> visits]]

\* The run's error is returned after the running rewind ends; its new writes stand.
FailRun(s) ==
  /\ store' = EndRewind(s, TRUE)
  /\ outcome' = "failed"
  /\ pc' = "done"
  /\ visit' = NewVisit
  /\ UNCHANGED <<at, before>>

\* The run goes on from step i at next, past the last step when next is End.  A rewind target
\* that a forward skip passes over is reset to the state the skip left.
Continue(s, i, next) ==
  /\ visit' = NewVisit
  /\ before' = [k \in Steps(pipe) |->
       IF k \in Targets(pipe) /\ i < k /\ k < next THEN Snapshot(s) ELSE before[k]]
  /\ IF next \in Steps(pipe)
     THEN /\ store' = s
          /\ at' = next
          /\ pc' = "next"
          /\ UNCHANGED outcome
     ELSE /\ store' = EndRewind(s, TRUE)
          /\ outcome' = "succeeded"
          /\ pc' = "done"
          /\ UNCHANGED at

\* Takes rule k, or goes on past step i when k is 0.  here is the step the run is at, which a
\* restored rewind leaves for the rules of its From.
Follow(s, h, here, i, k, amends) ==
  \/ /\ k = 0
     /\ Continue(s, here, i + 1)
     /\ kept' = h
  \/ /\ k # 0 /\ Rule(k).to = Fail
     /\ FailRun(s)
     /\ kept' = h
  \/ /\ k # 0 /\ Rule(k).to # Fail /\ ~Rewind(Rule(k))
     /\ Continue(s, here, Rule(k).to)
     /\ kept' = h
  \/ /\ k # 0 /\ Rewind(Rule(k))
     /\ Continue(StartRewind(s, k, amends), here, Rule(k).to)
     /\ kept' = KeepRewound(h, s, k)

\* The top of the loop: a rewind ends when the run is past its From, and the step's visit
\* begins, unless the context has ended.
BeginVisit ==
  LET s == IF store.rewind.on /\ at > Running.from THEN EndRewind(store, TRUE) ELSE store
      amends == s.rewind.amended /\ Running.to = at
  IN /\ pc = "next"
     /\ visits' = [visits EXCEPT ![at] = @ + 1]
     /\ before' = IF at \in Targets(pipe) THEN [before EXCEPT ![at] = Snapshot(s)] ELSE before
     /\ store' = IF amends THEN [s EXCEPT !.rewind.amended = FALSE] ELSE s
     /\ visit' = [NewVisit EXCEPT !.amended = amends, !.failed = IF ctxEnded THEN "ended" ELSE "no"]
     /\ pc' = IF ctxEnded THEN "failed" ELSE "step"
     /\ UNCHANGED <<pipe, at, ctxEnded, outcome, kept>>

VisitFails(v, how) ==
  /\ visit' = [v EXCEPT !.failed = how]
  /\ pc' = "failed"
  /\ UNCHANGED store

StepFails ==
  /\ pc = "step"
  /\ VisitFails(visit, "step")
  /\ UNCHANGED <<pipe, at, visits, before, ctxEnded, outcome, kept>>

-----------------------------------------------------------------------------
(* A step that succeeds. *)

View(key) ==
  IF visit.amended /\ key \in pipe.amendable[at] THEN Amended ELSE store.values[key]

Readable == IF visit.amended THEN DOMAIN store.values \union pipe.amendable[at] ELSE DOMAIN store.values

Entry == [step |-> at, reads |-> [key \in pipe.reads[at] \intersect Readable |-> View(key)]]

CacheHit == at \in pipe.cached /\ Entry \in DOMAIN store.cache

\* What the step returns: its cached result, or the writes of this visit.
Results ==
  IF CacheHit THEN {store.cache[Entry]}
  ELSE {[writes |-> w, by |-> This] :
          w \in {w \in SUBSET pipe.writes[at] : pipe.writes[at] \ pipe.preserves[at] \subseteq w}}

\* The writes that a key's MergeRule combines with the write the state holds.
Merged(writes) == writes \intersect (DOMAIN store.values \ store.defaulted)

\* The rules of K that may match first: no rule of K before them always matches.
MayMatch(K) == {k \in K : \A j \in K : j < k => ~Rule(j).always}

NoneMayMatch(K) == \A k \in K : ~Rule(k).always

\* The visit after Accept and the rules on success have been evaluated.
Verdicts ==
  IF ~EndsRewind(at) THEN {"none"}
  ELSE IF Running.accept THEN {"keep", "reject", "panic"} ELSE {"keep"}

Decided(v, verdict) ==
  LET w == [v EXCEPT !.verdict = verdict]
      K == {k \in SuccessRules(pipe, at) : verdict = "reject" => ~Rewind(Rule(k))}
      matched == {k \in MayMatch(K) : ~(Rewind(Rule(k)) /\ Exhausted(k))}
  IN IF verdict = "panic" THEN {[w EXCEPT !.failed = "hook"]}
     ELSE {[w EXCEPT !.rule = k, !.amends = Rule(k).amend] : k \in matched}
       \union {[w EXCEPT !.failed = "hook"] :
                 k \in {j \in MayMatch(K) : ~Rule(j).always \/ (j \in matched /\ Rule(j).amend)}}
       \union {[w EXCEPT !.failed = "maxvisits", !.maxed = TRUE] : k \in MayMatch(K) \ matched}
       \union (IF NoneMayMatch(K) THEN {w} ELSE {})

\* The step's result is merged into the state, which may fail, the rules on success decide, and
\* a visit that did not fail is cached.
StepReturns ==
  /\ pc = "step"
  /\ \E result \in Results :
       LET v == [visit EXCEPT !.writes = result.writes, !.by = result.by] IN
       \/ /\ Merged(result.writes) # {}
          /\ VisitFails(visit, IF Merged(result.writes) \subseteq pipe.merges THEN "merge" ELSE "unmerged")
       \/ /\ Merged(result.writes) \subseteq pipe.merges
          /\ \E verdict \in Verdicts : \E w \in Decided(v, verdict) :
               \/ /\ w.failed # "no"
                  /\ VisitFails(w, w.failed)
               \/ /\ w.failed = "no"
                  /\ visit' = w
                  /\ pc' = "succeeded"
                  /\ store' = IF at \in pipe.cached /\ ~CacheHit
                              THEN StoreCached(store, Entry, result) ELSE store
  /\ UNCHANGED <<pipe, at, visits, before, ctxEnded, outcome, kept>>

\* succeeded: the visit commits unless Accept rejected it or it goes to Fail.
Succeeded ==
  LET k == visit.rule
      fails == k # 0 /\ Rule(k).to = Fail
      committed == IF fails THEN store ELSE Commit(store, visit)
      h == IF fails THEN [kept EXCEPT !.dropped = @ \union {This}] ELSE KeepVisit(kept, visit)
  IN /\ pc = "succeeded"
     /\ \/ /\ EndsRewind(at) /\ visit.verdict = "reject"
           /\ Follow(RejectRewind(store), KeepRejected(kept), at, at, k, visit.amends)
        \/ /\ EndsRewind(at) /\ visit.verdict # "reject"
           /\ Follow(EndRewind(committed, TRUE), h, at, at, k, visit.amends)
        \/ /\ ~EndsRewind(at)
           /\ Follow(committed, h, at, at, k, visit.amends)
     /\ UNCHANGED <<pipe, visits, ctxEnded>>

-----------------------------------------------------------------------------
(* A step that fails. *)

\* The start of failed: a rejected visit, or one whose Accept panicked, is taken back first, and
\* nothing more is evaluated once the context has ended.
Failed ==
  LET rejects == EndsRewind(at) /\ visit.verdict \in {"reject", "panic"}
      s == IF rejects THEN RejectRewind(store) ELSE store
      h == IF rejects THEN KeepFailedBack(kept) ELSE [kept EXCEPT !.dropped = @ \union {This}]
      restorable == ~rejects /\ store.rewind.on /\ Running.restore /\ visit.verdict # "keep"
  IN /\ pc = "failed"
     /\ kept' = h
     /\ \/ /\ ctxEnded
           /\ FailRun(s)
        \/ /\ ~ctxEnded
           /\ store' = s
           /\ visit' = [visit EXCEPT !.restorable = restorable, !.exhausted = visit.maxed]
           /\ pc' = "rules"
           /\ UNCHANGED <<at, before, outcome>>
     /\ UNCHANGED <<pipe, visits, ctxEnded>>

\* The rules on failure not yet tried.
Untried == {k \in FailureRules(pipe, at) : k > visit.tried}

\* RestoreOnError is asked before the first rule, or, for the primary of a Fallback, before a
\* matching rule ahead of the Fallback's is taken and before the rules after it.
MustAskRestore ==
  /\ visit.restorable
  /\ visit.matched \/ \A k \in Untried : k > FallbackRule(pipe, at)

AskRestore ==
  /\ pc = "rules"
  /\ MustAskRestore
  /\ \/ /\ FailRun(store)                              \* RestoreOnError panics
        /\ UNCHANGED kept
     \/ /\ visit' = [visit EXCEPT !.restorable = FALSE]
        /\ UNCHANGED <<pc, at, before, store, outcome, kept>>
     \/ LET from == Running.from                       \* it returns true
            K == {k \in SuccessRules(pipe, from) : ~Rewind(Rule(k))}
            s == RejectRewind(store)
        IN \/ \E k \in MayMatch(K) : Follow(s, KeepRejected(kept), at, from, k, FALSE)
           \/ NoneMayMatch(K) /\ Follow(s, KeepRejected(kept), at, from, 0, FALSE)
           \/ /\ \E k \in MayMatch(K) : ~Rule(k).always  \* a When of From panics
              /\ FailRun(s)
              /\ kept' = KeepRejected(kept)
  /\ UNCHANGED <<pipe, visits, ctxEnded>>

\* Mutation: a rewind without visits left is tried again and again.
PassedOverNever(k) == FALSE

\* Once a rewind had no visits left, rewinds to targets that used theirs never match.
PassedOver(k) == visit.exhausted /\ Rewind(Rule(k)) /\ Exhausted(k)

\* The next rule on failure is passed over, ends the run by a panic, is about to be taken but
\* for RestoreOnError, has no visits left, or is taken.
TryRule ==
  /\ pc = "rules"
  /\ ~MustAskRestore
  /\ \E k \in {k \in Untried : \A j \in Untried : k <= j} :
       LET rule == Rule(k)
           asks == visit.restorable /\ k < FallbackRule(pipe, at) /\ ~rule.fallback
           spent == Rewind(rule) /\ Exhausted(k)
           over == PassedOver(k)
           unsure == ~visit.matched /\ ~rule.always
           s == IF EndsRewind(at) THEN EndRewind(store, TRUE) ELSE store
       IN \/ /\ over \/ unsure                        \* it does not match
             /\ visit' = [visit EXCEPT !.tried = k]
             /\ UNCHANGED <<pc, at, before, store, outcome, kept>>
          \/ /\ ~over /\ unsure                       \* its When panics
             /\ FailRun(store)
             /\ UNCHANGED kept
          \/ /\ ~over /\ asks
             /\ visit' = [visit EXCEPT !.matched = TRUE]
             /\ UNCHANGED <<pc, at, before, store, outcome, kept>>
          \/ /\ ~over /\ ~asks /\ spent
             /\ visit' = [visit EXCEPT !.exhausted = TRUE, !.tried = 0, !.matched = FALSE]
             /\ UNCHANGED <<pc, at, before, store, outcome, kept>>
          \/ /\ ~asks /\ ~spent /\ rule.amend         \* its Amend fails
             /\ FailRun(store)
             /\ UNCHANGED kept
          \/ /\ ~asks /\ ~spent
             /\ Follow(s, kept, at, at, k, rule.amend)
  /\ UNCHANGED <<pipe, visits, ctxEnded>>

\* No rule matched: the run fails with the step's error.
NoRule ==
  /\ pc = "rules"
  /\ ~MustAskRestore
  /\ Untried = {}
  /\ FailRun(store)
  /\ UNCHANGED <<pipe, visits, ctxEnded, kept>>

\* The context of the run ends: it is cancelled, or a budget limit ends it.
EndContext ==
  /\ pipe \in Cancellable
  /\ ~ctxEnded
  /\ pc # "done"
  /\ ctxEnded' = TRUE
  /\ UNCHANGED <<pipe, pc, at, visits, before, store, visit, outcome, kept>>

RunStep ==
  \/ BeginVisit \/ StepFails \/ StepReturns \/ Succeeded
  \/ Failed \/ AskRestore \/ TryRule \/ NoRule

Next == RunStep \/ EndContext

Spec == Init /\ [][Next]_vars

\* The run is one goroutine, which goes on as long as its steps return.
FairSpec == Spec /\ WF_vars(RunStep)

-----------------------------------------------------------------------------
(* Properties *)

Visits == UNION {{Visited(i, n) : n \in 0..visits[i]} : i \in Steps(pipe)} \union {Visited(0, 0)}

SnapshotType(s) ==
  /\ \A key \in DOMAIN s.values : s.values[key] \subseteq Visits
  /\ s.defaulted \subseteq pipe.defaults

\* Every variable has its type.
TypeOK ==
  /\ pipe \in Pipelines
  /\ pc \in {"next", "step", "succeeded", "failed", "rules", "done"}
  /\ at \in Steps(pipe)
  /\ visits \in [Steps(pipe) -> Nat]
  /\ \A i \in Steps(pipe) : SnapshotType(before[i])
  /\ SnapshotType(Snapshot(store)) /\ SnapshotType(store.rewind.prev)
  /\ store.memory \subseteq Visits /\ store.rewind.stage \subseteq Visits
  /\ store.rewind.on => store.rewind.rule \in Rewinds(pipe)
  /\ visit.rule \in {0} \union DOMAIN pipe.rules
  /\ ctxEnded \in BOOLEAN
  /\ outcome \in {"running", "succeeded", "failed"}

\* The state is what the visits that stand wrote, and nothing else: rewinding takes back exactly
\* the visits of the range, so no value merges two visits of a step, and a rejection or a
\* restore brings exactly those back.  A key with a Default holds it until a visit that stands
\* writes the key.
StateIsStandingVisits ==
  /\ \A c, d \in kept.standing : c.id.step = d.id.step => c = d
  /\ \A key \in DOMAIN store.values \union UNION {c.writes : c \in kept.standing} :
       LET writers == {c \in kept.standing : key \in c.writes} IN
       /\ key \in DOMAIN store.values
       /\ store.values[key] = {c.by : c \in writers}
       /\ key \in store.defaulted <=> writers = {} /\ key \in pipe.defaults

\* Outside a rewind the tool memory holds the tool writes of the visits that committed and were
\* not dropped since, and no visit that failed, was rejected or was restored over ever reaches it;
\* nor does WithCache serve the result of such a visit.
DroppedWorkIsGone ==
  /\ store.memory \union store.rewind.stage = kept.committed \ kept.dropped
  /\ ~store.rewind.on => store.rewind.stage = {}
  /\ \A e \in DOMAIN store.cache : outcome = "running" => store.cache[e].by \notin kept.dropped

\* Build is right about reads and merges: whatever was skipped, failed or rewound before a step,
\* every key it reads has a value, and no visit of a pipeline it accepts writes a key that holds
\* a write and has no MergeRule, unless a visit was taken back because a hook panicked.
BuildKept ==
  /\ pc = "step" => pipe.reads[at] \subseteq DOMAIN store.values
  /\ visit.failed = "unmerged" => kept.failedBack

\* "Build lets two steps write a key without a MergeRule only when no run commits both"
\* (pipeline.go:906).
NeverUnmerged == visit.failed # "unmerged"

\* Taking a rewind back leaves the state, the step cache and the default marks exactly as they
\* were when the rewind was taken, the keys the range does not write included.
RejectionRestores ==
  [][kept'.rejections # kept.rejections =>
       /\ Snapshot(store') = kept.taken.state
       /\ store'.cache = kept.taken.cache]_vars

\* Every run ends: MaxVisits bounds every loop that transitions make.
RunEnds == <>(pc = "done")

=============================================================================
