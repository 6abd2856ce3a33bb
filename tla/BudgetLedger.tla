---------------------------- MODULE BudgetLedger ----------------------------
(***************************************************************************)
(* What one RunBudget promises the run it limits, with no callers, frames  *)
(* or retries in sight: model calls are admitted one at a time while the   *)
(* run has not failed and neither limit is spent, tokens only ever add up, *)
(* and a run that failed stays failed.  RunBudget.tla implements it for    *)
(* every run.  A limit of zero sets no limit (pipeline_budget.go, the      *)
(* RunBudget type).                                                        *)
(***************************************************************************)
EXTENDS Integers

CONSTANTS
  CallLimit,   \* MaxModelCalls
  TokenLimit   \* MaxTokens

VARIABLES
  admitted,    \* model calls admitted so far
  spent,       \* tokens spent so far, reported or recorded
  failed       \* a budget error ended the run

vars == <<admitted, spent, failed>>

LedgerInit ==
  /\ admitted = 0
  /\ spent = 0
  /\ failed = FALSE

\* A call is admitted: the run has not failed and no limit stands in the way.
LedgerAdmit ==
  /\ ~failed
  /\ TokenLimit > 0 => spent <= TokenLimit
  /\ CallLimit > 0 => admitted < CallLimit
  /\ admitted' = admitted + 1
  /\ UNCHANGED <<spent, failed>>

\* Tokens are spent; the run may fail for it, and never recovers.
LedgerSpend ==
  /\ spent' > spent
  /\ failed => failed'
  /\ admitted' = admitted

\* The run fails: a refused call, MaxDuration, or tokens over the limit.
LedgerFail ==
  /\ failed'
  /\ UNCHANGED <<admitted, spent>>

LedgerNext == LedgerAdmit \/ LedgerSpend \/ LedgerFail

Spec == LedgerInit /\ [][LedgerNext]_vars

=============================================================================
