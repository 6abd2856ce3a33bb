------------------------------- MODULE Pareto -------------------------------
(***************************************************************************)
(* The Pareto frontier of scored candidates (optimizer_support.go).        *)
(*                                                                         *)
(* records gives each candidate its scores: a function from the dimensions *)
(* it was scored on to numbers.  A dimension is an example, or one of the  *)
(* objectives of an example; a candidate validated on part of the          *)
(* validation set has no score on the rest.                                *)
(***************************************************************************)
EXTENDS Integers

Dimensions(records) == UNION {DOMAIN records[i] : i \in DOMAIN records}

\* Candidate i has the best score of dimension d; ties have several.
BestOn(records, i, d) ==
  /\ d \in DOMAIN records[i]
  /\ \A j \in DOMAIN records : d \in DOMAIN records[j] => records[j][d] <= records[i][d]

InstanceWinners(records) ==
  {i \in DOMAIN records : \E d \in Dimensions(records) : BestOn(records, i, d)}

\* Pareto dominance; a candidate without a score on some dimension neither dominates nor is
\* dominated.
Dominates(records, i, j) ==
  /\ \A d \in Dimensions(records) :
       d \in DOMAIN records[i] /\ d \in DOMAIN records[j] /\ records[i][d] >= records[j][d]
  /\ \E d \in Dimensions(records) : records[i][d] > records[j][d]

\* The frontier, as computeFrontier's comment defines it.
Frontier(records) ==
  {i \in InstanceWinners(records) : \A j \in DOMAIN records : ~Dominates(records, j, i)}

=============================================================================
