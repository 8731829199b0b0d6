------------------------- MODULE SettlementRefinement -------------------------
(* Settlement keeps the promise of EndOfDay.                               *)
EXTENDS Settlement

StageOf(state) ==
  CASE state = "none"          -> "none"
    [] state = "pending"       -> "open"
    [] state = "retry_pending" -> "owed"
    [] state = "submitted"     -> "accepted"
    [] state = "escalated"     -> "given up"

stageBar == [r \in Runs |-> StageOf(batch[r].state)]
reportBar == [r \in Runs |-> batch[r].counted]

Promise == INSTANCE EndOfDay
  WITH Batches <- Runs, MaxAttempts <- MaxRetries,
       home <- batchOf, stage <- stageBar, report <- reportBar, attempts <- sent

(* Through overlapping runs and retries, failed transactions and restarts, *)
(* a deposit is settled once, a reported batch takes no more deposits and  *)
(* is reported with all it took, and its verdict is final and earned       *)
(* (RunSettlement updates the row last; RetryBatch writes without a guard).*)
KeepsItsBatches == Promise!Spec
===============================================================================
