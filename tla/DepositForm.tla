----------------------------- MODULE DepositForm ------------------------------
(***************************************************************************)
(* The deposit form (components/DepositForm.jsx): the checks it makes as   *)
(* the investor types, the request it sends and what it shows of each      *)
(* answer.  The server's side is what VendorStub and FundingRules answer.  *)
(*                                                                         *)
(* Amounts are typed in dollars and sent in whole cents; here they are     *)
(* tenths of a cent, so that rounding and both limits are within reach.    *)
(***************************************************************************)
EXTENDS VendorStub, InvestorAccounts, Api, FiniteSets

CONSTANTS TypedAmounts,  \* what the amount field may hold
          NoAmount,      \* an empty field, or text that is no number
          FirstAmount,   \* what the field holds at first
          Scenes,        \* bound: the scenarios tried
          OpenPosts,     \* bound: submissions under way at once
          FormVisits     \* bound: times the form is opened again

ASSUME FormAssumption ==
  /\ TypedAmounts \ {NoAmount} \subseteq Int /\ FirstAmount \in TypedAmounts
  /\ Scenes \subseteq Scenarios /\ Scenes # {}
  /\ {OpenPosts, FormVisits} \subseteq Nat

VARIABLES form,          \* the component; its account is InvestorView's
          posts          \* its submissions under way

AmountErrors == {"none", "invalid", "over", "server"}
Outcomes == {"none", "rejected", "analyzing", "funds_posted"}

FormTypeOK ==
  /\ form \in [mounted : BOOLEAN, scenario : Scenes, amount : TypedAmounts,
               touched : BOOLEAN, images : BOOLEAN, loading : BOOLEAN, result : Outcomes,
               error : BOOLEAN, iqaError : BOOLEAN, needsReauth : BOOLEAN,
               amountError : AmountErrors, accountError : BOOLEAN, general : BOOLEAN]
  /\ Cardinality(posts) <= OpenPosts
  /\ \A p \in posts : p.account \in Accounts /\ p.cents \in Int /\ p.scenario \in Scenes

FreshForm ==
  [mounted |-> TRUE, scenario |-> CHOOSE s \in Scenes : TRUE, amount |-> FirstAmount,
   touched |-> FALSE, images |-> FALSE, loading |-> FALSE, result |-> "none",
   error |-> FALSE, iqaError |-> FALSE, needsReauth |-> FALSE,
   amountError |-> "none", accountError |-> FALSE, general |-> FALSE]

NoForm == [FreshForm EXCEPT !.mounted = FALSE]

-------------------------------------------------------------------------------
(* The checks on the amount: while typing in dollars, at submission in the *)
(* cents that Math.round makes of it, and on the server.                   *)
validateAmount(v) ==
  IF v = NoAmount THEN "invalid"
  ELSE IF v <= 0 THEN "invalid"
  ELSE IF v > 10 * Limit THEN "over"
  ELSE "none"

Cents(v) == (v + 5) \div 10

(* Mutant: only the upper end is checked.                                  *)
CentsNotOver(c) == c <= Limit

CentsAccepted(c) == c > 0 /\ c <= Limit

PassesHandler(p) == p.cents > 0 /\ p.cents <= Limit

canSubmit(accountId) ==
  /\ validateAmount(form.amount) = "none"
  /\ ~isAccountIneligible(accountId)
  /\ ~form.loading

(* A prompt takes the place of the form until it is dismissed.             *)
FormPanel ==
  IF form.needsReauth THEN "reauth" ELSE IF form.iqaError THEN "retake" ELSE "form"

FormShown == form.mounted /\ FormPanel = "form"

(* The fields of an ineligible account do not react.                       *)
FieldsEnabled(accountId) == FormShown /\ ~isAccountIneligible(accountId)

-------------------------------------------------------------------------------
SetScenario(s) ==
  /\ FormShown /\ s # form.scenario
  /\ form' = [form EXCEPT !.scenario = s]
  /\ UNCHANGED posts

handleAmountChange(accountId, v) ==
  /\ FieldsEnabled(accountId) /\ v # form.amount
  /\ form' = [form EXCEPT !.amount = v,
                          !.amountError = IF form.touched THEN validateAmount(v) ELSE @]
  /\ UNCHANGED posts

handleAmountBlur(accountId) ==
  /\ FieldsEnabled(accountId)
  /\ form' = [form EXCEPT !.touched = TRUE, !.amountError = validateAmount(form.amount)]
  /\ UNCHANGED posts

ChooseImages(accountId) ==
  /\ FieldsEnabled(accountId)
  /\ form' = [form EXCEPT !.images = TRUE]
  /\ UNCHANGED posts

(* Mutant: the violations of the last submission stay.                     *)
ClearedPartly(v) ==
  [v EXCEPT !.error = FALSE, !.result = "none", !.iqaError = FALSE, !.needsReauth = FALSE,
            !.amountError = "none", !.accountError = FALSE]

(* What every submission clears before it looks at anything.               *)
Cleared(v) ==
  [v EXCEPT !.error = FALSE, !.result = "none", !.iqaError = FALSE, !.needsReauth = FALSE,
            !.amountError = "none", !.accountError = FALSE, !.general = FALSE]

Request(accountId) ==
  [account |-> accountId, cents |-> Cents(form.amount), scenario |-> form.scenario,
   mounted |-> TRUE]

handleSubmit(accountId) ==
  /\ FormShown /\ canSubmit(accountId)
  /\ \/ /\ ~CentsAccepted(Cents(form.amount))
        /\ form' = [Cleared(form) EXCEPT !.error = TRUE]
        /\ UNCHANGED posts
     \/ /\ CentsAccepted(Cents(form.amount))
        /\ Cardinality(posts) < OpenPosts
        /\ form' = [Cleared(form) EXCEPT !.loading = TRUE]
        /\ posts' = posts \cup {Request(accountId)}

-------------------------------------------------------------------------------
(* The server's answer to a submission: refused by the handler's own       *)
(* checks, the vendor's verdict, or the funding rules'.                    *)
Status(s) == [kind |-> "status", status |-> s, retake |-> FALSE, violations |-> {}]
Refusal(kind, vs) == [kind |-> kind, status |-> "none", retake |-> FALSE, violations |-> vs]

Verdicts(p) ==
  CASE ~PassesHandler(p) -> {Refusal("error", {})}
    [] PassesHandler(p) /\ VendorStatus(p.scenario) = "fail" ->
         {[Status("rejected") EXCEPT !.retake = (p.scenario = "IQA_FAIL")]}
    [] PassesHandler(p) /\ VendorStatus(p.scenario) = "flagged" -> {Status("analyzing")}
    [] OTHER ->
         IF p.account \notin Known THEN {Status("rejected")}
         ELSE {IF RulesPass(p.account, p.cents, dup) THEN Status("funds_posted")
               ELSE Refusal("violations", Violations(p.account, p.cents, dup)) :
               dup \in BOOLEAN}

(* An answer lost on the way, a rate limit or a fault is an error without  *)
(* violations; a server configured with another token answers 401.         *)
Answers(p) == Verdicts(p) \cup {Refusal("error", {}), Refusal("reauth", {})}

(* The catch branch, each outcome with the fields it sets.                 *)
Refused(v, a) ==
  CASE a.kind = "reauth"     -> [v EXCEPT !.needsReauth = TRUE]
    [] a.kind = "violations" ->
         [v EXCEPT
            !.touched = @ \/ "over_limit" \in a.violations,
            !.amountError = IF "over_limit" \in a.violations THEN "server" ELSE @,
            !.accountError = "account_ineligible" \in a.violations,
            !.general = a.violations \ {"over_limit", "account_ineligible"} # {}]
    [] OTHER                 -> [v EXCEPT !.error = TRUE]

Accomplished(v, a) ==
  IF a.status = "rejected" /\ a.retake THEN [v EXCEPT !.iqaError = TRUE]
  ELSE [v EXCEPT !.result = a.status]

(* Mutant: an early return skips the end of loading.                       *)
NoFinally(v) == v

Finally(v) == [v EXCEPT !.loading = FALSE]

PostAnswered(p) ==
  /\ p \in posts /\ posts' = posts \ {p}
  /\ \E a \in Answers(p) :
       LET resolved ==
             handleResponse(DepositCalls.submitDeposit, a.kind # "status") = "resolved"
           after == Finally(IF resolved THEN Accomplished(form, a) ELSE Refused(form, a))
       IN  form' = IF p.mounted THEN after ELSE form

handleRetake ==
  /\ form.mounted /\ FormPanel = "retake"
  /\ form' = [form EXCEPT !.iqaError = FALSE, !.error = FALSE, !.images = FALSE]
  /\ UNCHANGED posts

CancelRetake ==
  /\ form.mounted /\ FormPanel = "retake"
  /\ form' = [form EXCEPT !.iqaError = FALSE, !.result = "none"]
  /\ UNCHANGED posts

Reauthenticate ==
  /\ form.mounted /\ FormPanel = "reauth"
  /\ form' = [form EXCEPT !.needsReauth = FALSE]
  /\ UNCHANGED posts

FormStep(accountId) ==
  \/ \E s \in Scenes : SetScenario(s)
  \/ \E v \in TypedAmounts : handleAmountChange(accountId, v)
  \/ handleAmountBlur(accountId)
  \/ ChooseImages(accountId)
  \/ handleSubmit(accountId)
  \/ \E p \in posts : PostAnswered(p)
  \/ handleRetake
  \/ CancelRetake
  \/ Reauthenticate

-------------------------------------------------------------------------------
(* The feedback of a submission: beside it the form shows nothing that an  *)
(* earlier submission left.                                                *)
Feedback ==
  {f \in {"result", "error", "retake", "reauth", "violations"} :
     \/ f = "result"     /\ form.result # "none"
     \/ f = "error"      /\ form.error
     \/ f = "retake"     /\ form.iqaError
     \/ f = "reauth"     /\ form.needsReauth
     \/ f = "violations" /\ (form.accountError \/ form.general
                              \/ form.amountError = "server")}

(* One submission has one outcome on the screen, and none while it is      *)
(* still under way: no order of answers, retakes, sign-ins and further     *)
(* submissions leaves two of them side by side.                            *)
OutcomesExclusive ==
  Cardinality(Feedback) <= 1 /\ (form.loading => Feedback = {})

(* What the form lets through the server's form checks let through, at     *)
(* both ends of the range and after rounding to cents; so the rule on the  *)
(* limit is never what refuses it either.                                  *)
FormNeverRefused ==
  \A p \in posts :
    PassesHandler(p) /\ \A a \in Verdicts(p) : "over_limit" \notin a.violations
===============================================================================
