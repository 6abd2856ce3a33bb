---------------------------- MODULE MCRunBudget ----------------------------
(***************************************************************************)
(* A run R with a step A, which makes calls from two goroutines with one   *)
(* frame, and a step B that runs a nested pipeline N.                      *)
(***************************************************************************)
EXTENDS RunBudget

MCCallers == {"c1", "c2", "c3"}
MCFrames == {"fA", "fB", "fN", "fR"}
MCRuns == {"R", "N"}
MCAccounts == MCRuns \union {"A", "B"}
MCChain == [f \in MCFrames |->
  CASE f = "fA" -> <<"fA", "fR">>
    [] f = "fN" -> <<"fN", "fB", "fR">>
    [] f = "fB" -> <<"fB", "fR">>
    [] f = "fR" -> <<"fR">>]
MCAccountOf == [f \in MCFrames |->
  CASE f = "fA" -> "A" [] f = "fB" -> "B" [] f = "fN" -> "N" [] f = "fR" -> "R"]
OneCaller == {"c1"}
MCFrameOf == [c \in MCCallers |-> IF c = "c3" THEN "fN" ELSE "fA"]
OneFrameOf == [c \in OneCaller |-> "fA"]

\* Limits tight enough that each of them refuses in some behaviour.
TightTokens == [a \in MCAccounts |-> CASE a = "R" -> 1 [] a = "A" -> 2 [] OTHER -> 0]
TightCalls == [r \in MCRuns |-> IF r = "R" THEN 3 ELSE 1]
NoTokens == [a \in MCAccounts |-> 0]
NoCalls == [r \in MCRuns |-> 0]

\* c1's model retries once, around a retrying model that retries once;
\* the others' retry once.
NestedAttempts == [c \in MCCallers |-> CASE c = "c1" -> <<2, 2>> [] c = "c2" -> <<2>> [] OTHER -> <<2>>]
OneAttempts == [c \in OneCaller |-> <<2>>]

OneToken == {[total |-> 1, parts |-> 1]}
Mixed == {[total |-> 0, parts |-> 2], [total |-> 1, parts |-> 1]}
=============================================================================
