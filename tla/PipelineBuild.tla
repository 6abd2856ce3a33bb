---------------------------- MODULE PipelineBuild ----------------------------
(***************************************************************************)
(* What PipelineSpec.Build accepts: the checks on the transitions of a    *)
(* pipeline and on the keys its steps read and write (checkTransitions,    *)
(* checkReads, checkWrites and what they derive).                          *)
(*                                                                         *)
(* A pipeline p is a record:                                               *)
(*   n           the number of top-level steps, numbered from 1            *)
(*   reads, writes, preserves  the keys of each step; it may leave a key   *)
(*               of preserves, which it also reads, as it is               *)
(*   inputs, defaults, merges  the keys with an input, Default, MergeRule  *)
(*   cached      the steps wrapped by WithCache                            *)
(*   amendable   the keys of each step that WithAmendable declares         *)
(*   maxVisits   MaxVisits of each step, 0 where there is none             *)
(*   rules       the transitions in declaration order; "always" is a nil   *)
(*               When, "fallback" marks the one Fallback adds              *)
(***************************************************************************)
EXTENDS Integers, Sequences, FiniteSets, FiniteSetsExt

Fail == 0

Steps(p) == 1..p.n

End(p) == p.n + 1

Rewind(r) == r.to # Fail /\ r.to <= r.from

Rewinds(p) == {k \in DOMAIN p.rules : Rewind(p.rules[k])}

Targets(p) == {p.rules[k].to : k \in Rewinds(p)}

\* The keys a rewind snapshots and resets: the declared writes of its range.
RangeKeys(p, r) == UNION {p.writes[j] : j \in r.to..r.from}

SuccessRules(p, i) == {k \in DOMAIN p.rules : p.rules[k].from = i /\ ~p.rules[k].onError}

FailureRules(p, i) == {k \in DOMAIN p.rules : p.rules[k].from = i /\ p.rules[k].onError}

\* The last failure rule of step i that Fallback marked, 0 when there is none.
FallbackRule(p, i) == Max({0} \union {k \in FailureRules(p, i) : p.rules[k].fallback})

-----------------------------------------------------------------------------
(* The pass over transitions. *)

RuleValid(p, r) ==
  /\ r.from \in Steps(p)
  /\ r.to \in {Fail, End(p)} \union Steps(p)
  /\ r.amend \/ r.accept \/ r.restore => Rewind(r)
  /\ r.accept \/ r.restore => ~r.onError
  /\ r.amend => p.amendable[r.to] # {}
  /\ Rewind(r) => p.maxVisits[r.to] >= 2

\* Two rewinds have the same range, or ranges that do not overlap.
RangesApart(p) ==
  \A j, k \in Rewinds(p) :
    LET r == p.rules[j]
        s == p.rules[k]
    IN \/ r.to = s.to /\ r.from = s.from
       \/ r.from < s.to
       \/ s.from < r.to

TransitionsValid(p) ==
  /\ \A k \in DOMAIN p.rules : RuleValid(p, p.rules[k])
  /\ \A i \in Steps(p) : p.maxVisits[i] # 0 <=> i \in Targets(p)
  /\ \A i \in Steps(p) : p.amendable[i] # {} =>
       p.amendable[i] \subseteq p.reads[i] /\ \E k \in Rewinds(p) : p.rules[k].to = i /\ p.rules[k].amend
  /\ RangesApart(p)

-----------------------------------------------------------------------------
(* The pass over steps. *)

\* A rule to Fail skips nothing.
Skips(r, i) == ~Rewind(r) /\ r.to # Fail /\ r.from < i /\ i < r.to

\* Mutation: a step whose failure is skipped past counts as written.
MayNotWriteSkipped(p, i) == \E k \in DOMAIN p.rules : Skips(p.rules[k], i)

\* A transition skips over step i, or step i has an OnError transition forward.
MayNotWrite(p, i) ==
  \E k \in DOMAIN p.rules :
    LET r == p.rules[k] IN
    \/ Skips(r, i)
    \/ r.from = i /\ r.onError /\ r.to # Fail /\ ~Rewind(r)

\* Where the run may continue after step i succeeds, other than by a rewind: the rules up to
\* the first that always matches, and the next step when none always does.
Continuations(p, i) ==
  LET forward == {k \in SuccessRules(p, i) : ~Rewind(p.rules[k])}
      closing == {k \in forward : p.rules[k].always}
      tried == {k \in forward : \A c \in closing : k <= c}
  IN {p.rules[k].to : k \in {j \in tried : p.rules[j].to # Fail}}
     \union (IF closing = {} THEN {i + 1} ELSE {})

EarlierWriters(p, key, i) == {j \in 1..(i - 1) : key \in p.writes[j]}

\* A run may commit a write of key by an earlier step and then one by step i: an earlier writer
\* may continue at or before i, or a rewind lands after the first of them and at or before i.
BothCommit(p, key, i) ==
  LET writers == EarlierWriters(p, key, i) IN
  \/ \E j \in writers : \E to \in Continuations(p, j) : to <= i
  \/ \E t \in Targets(p) : Min(writers) < t /\ t <= i

ReadsValid(p, i) ==
  \A key \in p.reads[i] :
    \/ key \in p.inputs \union p.defaults
    \/ /\ EarlierWriters(p, key, i) # {}
       /\ \A j \in EarlierWriters(p, key, i) : ~MayNotWrite(p, j)

WritesValid(p, i) ==
  /\ p.writes[i] \intersect p.inputs = {}
  /\ p.preserves[i] \subseteq p.reads[i] \intersect p.writes[i]
  /\ \A key \in p.writes[i] \ p.merges : EarlierWriters(p, key, i) # {} => ~BothCommit(p, key, i)

\* Build accepts p.
Accepted(p) ==
  /\ TransitionsValid(p)
  /\ \A i \in Steps(p) : ReadsValid(p, i) /\ WritesValid(p, i)
  /\ \A key \in p.merges : Cardinality({i \in Steps(p) : key \in p.writes[i]}) >= 2
  /\ \A key \in p.defaults : \E i \in Steps(p) : key \in p.reads[i] \union p.writes[i]
  /\ p.defaults \intersect p.inputs = {}

=============================================================================
