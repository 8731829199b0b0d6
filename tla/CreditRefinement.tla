--------------------------- MODULE CreditRefinement ---------------------------
(* CheckDeposit keeps the promise of ProvisionalCredit.                    *)
EXTENDS CheckDeposit

StageOf(s) ==
  CASE s = NoRow                                   -> "none"
    [] s \in {"requested", "validating",
              "analyzing", "approved"}             -> "received"
    [] s = "rejected"                              -> "declined"
    [] s = "funds_posted"                          -> "credited"
    [] s = "completed"                             -> "cleared"
    [] s = "returned"                              -> "bounced"

Unsigned(e) == e.amount

(* Seen from the investor's account, as GetByAccount adds entries up.      *)
Signed(e) == IF e.sub = "DEPOSIT" THEN e.amount ELSE -e.amount

stageBar == [d \in Deposits |-> StageOf(status[d])]
booksBar == [d \in Deposits |-> [i \in 1 .. Len(ledger[d]) |-> Signed(ledger[d][i])]]

Promise == INSTANCE ProvisionalCredit
  WITH stage <- stageBar, books <- booksBar, Fee <- ReturnFee

(* Through every race, fault and crash a deposit is credited at most once, *)
(* with an amount within the limit, and a return undoes exactly that.      *)
KeepsPromise == Promise!Spec
===============================================================================
