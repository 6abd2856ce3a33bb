---------------------------- MODULE FrontierLoop ----------------------------
(***************************************************************************)
(* The loop of frontierWeights: it goes through the winners in the random  *)
(* order of a Go map and deletes from that map, while it goes, each winner *)
(* that a winner still in the map dominates.                               *)
(***************************************************************************)
EXTENDS Pareto

VARIABLES
  records,   \* candidate -> dimension -> score
  winners,   \* the map: the winners not deleted so far
  todo       \* the winners the loop has yet to come to

loopVars == <<records, winners, todo>>

Scored(r) == \A i \in DOMAIN r : \A d \in DOMAIN r[i] : r[i][d] \in Int

NoLoop == records = <<>> /\ winners = {} /\ todo = {}

\* The loop over the winners of some candidates begins.
StartLoop(candidates) ==
  /\ records' = candidates
  /\ winners' = InstanceWinners(candidates)
  /\ todo' = InstanceWinners(candidates)

\* Mutation: a winner is held against those the loop has yet to come to.
VisitAgainstTodo ==
  \E i \in todo :
    /\ todo' = todo \ {i}
    /\ winners' = IF \E j \in todo \ {i} : Dominates(records, j, i) THEN winners \ {i} ELSE winners
    /\ UNCHANGED records

\* dominatedByCandidate compares the winner with those left in the map.
Visit ==
  \E i \in todo :
    /\ todo' = todo \ {i}
    /\ winners' = IF \E j \in winners \ {i} : Dominates(records, j, i) THEN winners \ {i} ELSE winners
    /\ UNCHANGED records

\* The loop by itself, over any scored candidates.
LoopInit ==
  /\ Scored(records)
  /\ winners = InstanceWinners(records)
  /\ todo = winners

LoopSpec == LoopInit /\ [][Visit]_loopVars

-----------------------------------------------------------------------------
(* Properties *)

\* The loop comes only to winners that are still in the map.
LoopTypeOK ==
  /\ Scored(records)
  /\ winners \subseteq InstanceWinners(records)
  /\ todo \subseteq winners

\* In whatever order the map is gone through, what is left is the Pareto frontier of all the
\* candidates: deleting a winner never hides another that it dominates.
LoopFindsFrontier == todo = {} => winners = Frontier(records)

=============================================================================
