----------------------------- MODULE MCFlowRun -----------------------------
(***************************************************************************)
(* Pipelines that together take every path of the flow engine.             *)
(***************************************************************************)
EXTENDS FlowRun

Transition(from, to) ==
  [from |-> from, to |-> to, onError |-> FALSE, always |-> FALSE, accept |-> FALSE,
   restore |-> FALSE, amend |-> FALSE, fallback |-> FALSE]

Unconditional(r) == [r EXCEPT !.always = TRUE]
OnError(r) == [r EXCEPT !.onError = TRUE]

\* plan, draft, review, publish: review rewinds to draft, at most three visits, with an Accept,
\* a RestoreOnError and an Amend; draft is cached; all three of the first steps write "log".
Review ==
  [n |-> 4, inputs |-> {"q"}, defaults |-> {"score"}, merges |-> {"log"}, cached |-> {2},
   reads |-> <<{"q"}, {"q", "hint"}, {"draft"}, {"draft", "score"}>>,
   writes |-> <<{"hint", "log"}, {"draft", "log"}, {"score", "log"}, {}>>,
   preserves |-> <<{}, {}, {}, {}>>,
   amendable |-> <<{}, {"hint"}, {}, {}>>,
   maxVisits |-> <<0, 3, 0, 0>>,
   rules |-> <<[Transition(3, 2) EXCEPT !.accept = TRUE, !.restore = TRUE, !.amend = TRUE],
               Transition(3, 0), Transition(3, 5), OnError(Transition(3, 2)), OnError(Transition(3, 4))>>]

\* A Fallback inside a range: 1 falls back to 2, both meet at 3, which may rewind to 1.  A rule of
\* the primary's own comes before the Fallback's and one after it.
FallbackInRange ==
  [n |-> 4, inputs |-> {"q"}, defaults |-> {"a"}, merges |-> {}, cached |-> {1, 2},
   reads |-> <<{"q"}, {"q"}, {"a"}, {"a"}>>,
   writes |-> <<{"a"}, {"a"}, {"v"}, {}>>,
   preserves |-> <<{}, {}, {}, {}>>,
   amendable |-> <<{}, {}, {}, {}>>,
   maxVisits |-> <<2, 0, 0, 0>>,
   rules |-> <<OnError(Transition(1, 0)), Unconditional(Transition(1, 3)),
               [OnError(Transition(1, 2)) EXCEPT !.fallback = TRUE],
               OnError(Transition(1, 4)),
               [Transition(3, 1) EXCEPT !.accept = TRUE, !.restore = TRUE], Transition(3, 5),
               OnError(Transition(3, 1))>>]

\* A skip from 1 into the range 2..3, whose target it passes over; 3 may keep its old output.
SkipIntoRange ==
  [n |-> 3, inputs |-> {}, defaults |-> {"b", "c"}, merges |-> {"b"}, cached |-> {3},
   reads |-> <<{}, {"b"}, {"b", "c"}>>,
   writes |-> <<{"b"}, {"b"}, {"b", "c"}>>,
   preserves |-> <<{}, {}, {"c"}>>,
   amendable |-> <<{}, {}, {}>>,
   maxVisits |-> <<0, 2, 0>>,
   rules |-> <<Transition(1, 3), [Transition(3, 2) EXCEPT !.accept = TRUE]>>]

\* Two ranges: 1 runs again by itself, and 2, the route of a Branch with arms 3 and 4 that meet
\* at 5, runs again with its arms.
TwoRanges ==
  [n |-> 6, inputs |-> {}, defaults |-> {"arm"}, merges |-> {}, cached |-> {4},
   reads |-> <<{}, {"x"}, {"x"}, {"x"}, {"arm"}, {"arm", "x"}>>,
   writes |-> <<{"x"}, {"label"}, {"arm"}, {"arm"}, {}, {}>>,
   preserves |-> <<{}, {}, {}, {}, {}, {}>>,
   amendable |-> <<{}, {}, {}, {}, {}, {}>>,
   maxVisits |-> <<2, 2, 0, 0, 0, 0>>,
   rules |-> <<Transition(1, 1), OnError(Transition(1, 1)), Transition(2, 3), Transition(2, 4),
               Unconditional(Transition(3, 5)),
               [Unconditional(Transition(5, 2)) EXCEPT !.accept = TRUE],
               Unconditional(OnError(Transition(5, 7)))>>]

\* 2 rewinds to 1 with an Accept and otherwise skips 3, which only its failure reaches; both write "x".
SkipOnSuccess ==
  [n |-> 3, inputs |-> {}, defaults |-> {}, merges |-> {}, cached |-> {},
   reads |-> <<{}, {}, {}>>,
   writes |-> <<{"y"}, {"x"}, {"x"}>>,
   preserves |-> <<{}, {}, {}>>,
   amendable |-> <<{}, {}, {}>>,
   maxVisits |-> <<2, 0, 0>>,
   rules |-> <<[Transition(2, 1) EXCEPT !.accept = TRUE], Unconditional(Transition(2, 4)),
               OnError(Transition(2, 3))>>]
SkipOnly == {SkipOnSuccess}

RichPipelines == {Review, FallbackInRange, SkipIntoRange, TwoRanges, SkipOnSuccess}

---------------------------------------------------------------------------
(* Every pipeline of three steps and two transitions that Build accepts,   *)
(* over one key, which has no MergeRule: any steps may write it, one step  *)
(* may read it, and it may have a Default.                                 *)

Flags ==
  {f \in [onError : BOOLEAN, always : BOOLEAN, judged : BOOLEAN] : f.judged => ~f.onError}

\* A judged rewind has an Accept and a RestoreOnError.
RuleOf(from, to, f) ==
  [from |-> from, to |-> to, onError |-> f.onError, always |-> f.always, accept |-> f.judged,
   restore |-> f.judged, amend |-> FALSE, fallback |-> FALSE]

AnyRule ==
  {r \in {RuleOf(from, to, f) : from \in 1..3, to \in 0..4, f \in Flags} : r.accept => Rewind(r)}

Three(reader, writers, defaults, first, second) ==
  [n |-> 3, inputs |-> {}, defaults |-> defaults, merges |-> {}, cached |-> {},
   reads |-> [i \in 1..3 |-> IF i = reader THEN {"x"} ELSE {}],
   writes |-> [i \in 1..3 |-> IF i \in writers THEN {"x"} ELSE {}],
   preserves |-> [i \in 1..3 |-> {}],
   amendable |-> [i \in 1..3 |-> {}],
   maxVisits |-> [i \in 1..3 |->
     IF \E r \in {first, second} : Rewind(r) /\ r.to = i THEN 2 ELSE 0],
   rules |-> <<first, second>>]

\* Rules of different steps may be declared in either order, so only one is taken.
AllSmallPipelines ==
  {p \in {Three(shape[1], writers, shape[2], r[1], r[2]) :
            shape \in {<<2, {}>>, <<3, {}>>, <<3, {"x"}>>}, writers \in (SUBSET (1..3)) \ {{}},
            r \in {r \in AnyRule \X AnyRule : r[1].from <= r[2].from}} : Accepted(p)}

MCPipelines == RichPipelines \cup AllSmallPipelines
=============================================================================
