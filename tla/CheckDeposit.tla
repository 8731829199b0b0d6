----------------------------- MODULE CheckDeposit -----------------------------
(***************************************************************************)
(* The life of a check deposit: the synchronous Submit pipeline of         *)
(* internal/deposit, the operator endpoints of internal/operator and of    *)
(* the return handler, and the settlement transaction, all racing on one   *)
(* transfers row, its ledger entries and the duplicate marks in Redis.     *)
(*                                                                         *)
(* A request is a process.  Each call it makes to Postgres or Redis is one *)
(* action; what it read earlier it carries in its own locals.              *)
(***************************************************************************)
EXTENDS TransferStore, FundingRules, VendorStub

CONSTANTS
  Amounts,      \* amounts that clients and operators type
  Overrides,    \* contribution types operators type
  Faults        \* which of the faults below may happen

(* "abort":  a request dies (client gone, panic elsewhere, process crash;  *)
(*           a crash of the process is every request dying).               *)
(* "commit": COMMIT fails, or succeeds with its reply lost.                *)
(* "redis":  Redis is unreachable.                                         *)
(* "lookup": the account query fails.                                      *)
FaultKinds == {"abort", "commit", "redis", "lookup"}

ASSUME DepositAssumption ==
  /\ Amounts \subseteq Int
  /\ Faults \subseteq FaultKinds

VARIABLES
  form,         \* the multipart form of each submission
  pc,           \* where each Submit handler is
  answer,       \* what it told the investor
  marked,       \* dupe:check:* keys in Redis
  about,        \* the transfer each operator request names
  rpc,          \* where each operator request is
  held,         \* the amount it carries from its read to its transaction
  notices       \* notifications of the investors

submitVars == <<form, pc, answer>>
reviewVars == <<about, rpc, held, notices>>
vars == <<store, submitVars, marked, reviewVars>>

Forms == [account : Accounts, amount : Amounts, scenario : Scenarios]

CTypes == {"", "INDIVIDUAL"} \cup Overrides

SubmitSteps == {"idle", "begin", "vendor", "rules", "mark", "contribution",
                "post", "refuse", "done"}
Decisions == {"approved", "rejected", "returned"}
ReviewSteps ==
  {"idle", "approve", "reject", "override", "return", "done"} \cup Decisions
Answers == {"none", "refused", "error", "rejected", "in_review", "posted"}

Init ==
  /\ status = [d \in Deposits |-> NoRow]
  /\ flag = [d \in Deposits |-> "none"]
  /\ amount = [d \in Deposits |-> 0]
  /\ ctype = [d \in Deposits |-> ""]
  /\ ledger = [d \in Deposits |-> << >>]
  /\ history = [d \in Deposits |-> << >>]
  /\ audit = {}
  /\ form \in [Deposits -> Forms]
  /\ pc = [d \in Deposits |-> "idle"]
  /\ answer = [d \in Deposits |-> "none"]
  /\ marked = {}
  /\ about \in [Reviews -> Deposits]
  /\ rpc = [o \in Reviews |-> "idle"]
  /\ held = [o \in Reviews |-> 0]
  /\ notices = {}

-------------------------------------------------------------------------------
(* Submit                                                                  *)

Goto(d, from, to) ==
  /\ pc[d] = from
  /\ pc' = [pc EXCEPT ![d] = to]
  /\ UNCHANGED <<form, answer>>

Finish(d, from, ans) ==
  /\ pc[d] = from
  /\ pc' = [pc EXCEPT ![d] = "done"]
  /\ answer' = [answer EXCEPT ![d] = ans]
  /\ UNCHANGED form

(* A transition whose Commit error the handler drops: when the commit      *)
(* fails, the handler goes on as if the row had moved.                     *)
UncheckedTransition(d, from, to) ==
  \/ Transition(d, from, to, "system")
  \/ "commit" \in Faults /\ Holds(d, from) /\ UNCHANGED <<status, history>>

FormAccepted(f) == f.amount > 0 /\ f.amount <= Limit

Create(d) ==
  /\ FormAccepted(form[d])
  /\ Goto(d, "idle", "begin")
  /\ status' = [status EXCEPT ![d] = "requested"]
  /\ amount' = [amount EXCEPT ![d] = form[d].amount]
  /\ UNCHANGED <<flag, ctype, ledger, history, audit, marked, reviewVars>>

RefuseForm(d) ==
  /\ ~FormAccepted(form[d])
  /\ Finish(d, "idle", "refused")
  /\ UNCHANGED <<store, marked, reviewVars>>

BeginValidation(d) ==
  /\ Goto(d, "begin", "vendor")
  /\ UncheckedTransition(d, "requested", "validating")
  /\ UNCHANGED <<rows, ledger, audit, marked, reviewVars>>

(* The transaction handle is nil when the transition is refused, and the   *)
(* handler's use of it panics; gin's recovery turns that into a 500.       *)
VendorFails(d) ==
  /\ VendorStatus(form[d].scenario) = "fail"
  /\ \/ /\ Finish(d, "vendor", "rejected")
        /\ UncheckedTransition(d, "validating", "rejected")
     \/ /\ ~Holds(d, "validating")
        /\ Finish(d, "vendor", "error")
        /\ UNCHANGED <<status, history>>
  /\ UNCHANGED <<rows, ledger, audit, marked, reviewVars>>

FlagByScenario(d) == flag' = [flag EXCEPT ![d] = form[d].scenario]
FlagColumn(d) == flag' = [flag EXCEPT ![d] = FlagReason(form[d].scenario)]

NeverReviewed(d) == FALSE
NeedsReview(d) == FlagReason(form[d].scenario) # "none"

(* Validating -> Analyzing and the flag columns in one transaction.        *)
Analyze(d) ==
  /\ VendorStatus(form[d].scenario) # "fail"
  /\ \/ /\ Transition(d, "validating", "analyzing", "system")
        /\ FlagColumn(d)
     \/ /\ "commit" \in Faults
        /\ Holds(d, "validating")
        /\ UNCHANGED <<status, history, flag>>
  /\ IF NeedsReview(d) THEN Finish(d, "vendor", "in_review")
                       ELSE Goto(d, "vendor", "rules")
  /\ UNCHANGED <<amount, ctype, ledger, audit, marked, reviewVars>>

AnalyzeConflict(d) ==
  /\ VendorStatus(form[d].scenario) # "fail"
  /\ ~Holds(d, "validating")
  /\ Finish(d, "vendor", "error")
  /\ UNCHANGED <<store, marked, reviewVars>>

IgnoreMarks(d) == {FALSE}

(* The EXISTS half of the duplicate rule; an unreachable Redis reads as    *)
(* "no duplicate".                                                         *)
DuplicateAnswers(d) ==
  {form[d].amount \in marked} \cup (IF "redis" \in Faults THEN {FALSE} ELSE {})

(* Any error of ApplyRules, a failed account query included, leads to the  *)
(* automatic rejection.                                                    *)
CheckRules(d) ==
  /\ \/ /\ \E duplicate \in DuplicateAnswers(d) :
              RulesPass(form[d].account, form[d].amount, duplicate)
        /\ Goto(d, "rules", "mark")
     \/ /\ \/ \E duplicate \in DuplicateAnswers(d) :
                 ~RulesPass(form[d].account, form[d].amount, duplicate)
           \/ "lookup" \in Faults
        /\ Goto(d, "rules", "refuse")
  /\ UNCHANGED <<store, marked, reviewVars>>

RefuseByRules(d) ==
  /\ \/ /\ Finish(d, "refuse", "rejected")
        /\ UncheckedTransition(d, "analyzing", "rejected")
     \/ /\ ~Holds(d, "analyzing")
        /\ Finish(d, "refuse", "error")
        /\ UNCHANGED <<status, history>>
  /\ UNCHANGED <<rows, ledger, audit, marked, reviewVars>>

SkipMark(d) == UNCHANGED marked

(* The SETNX half: its result is not looked at.                            *)
SetMark(d) == marked' = marked \cup {form[d].amount}

ReturnEarly(d) ==
  IF ContributionType(form[d].account) = "" THEN "done" ELSE "contribution"
AfterMark(d) ==
  IF ContributionType(form[d].account) = "" THEN "post" ELSE "contribution"

MarkCheck(d) ==
  /\ Goto(d, "mark", AfterMark(d))
  /\ \/ SetMark(d)
     \/ "redis" \in Faults /\ UNCHANGED marked
  /\ UNCHANGED <<store, reviewVars>>

(* UPDATE ... WHERE id: whatever the status is by now.                     *)
SetContribution(d) ==
  /\ Goto(d, "contribution", "post")
  /\ ctype' = [ctype EXCEPT ![d] = ContributionType(form[d].account)]
  /\ UNCHANGED <<status, flag, amount, ledger, history, audit, marked, reviewVars>>

(* A transaction guarded by a status takes no effect.                      *)
Fails(d, from) == ~Holds(d, from) \/ "commit" \in Faults

(* ApproveAndPost for "system".  Its commit is checked, but an error may   *)
(* also be the lost reply of a commit that took place.                     *)
AutoPost(d) ==
  /\ PostFunds(d, form[d].amount, "system")
  /\ \/ Finish(d, "post", "posted")
     \/ "commit" \in Faults /\ Finish(d, "post", "error")
  /\ UNCHANGED <<rows, audit, marked, reviewVars>>

(* Mutant: the commit's error is dropped, as in the earlier stages.        *)
PostErrorDropped(d) ==
  /\ Fails(d, "analyzing")
  /\ Finish(d, "post", "posted")
  /\ UNCHANGED <<store, marked, reviewVars>>

AutoPostFails(d) ==
  /\ Fails(d, "analyzing")
  /\ Finish(d, "post", "error")
  /\ UNCHANGED <<store, marked, reviewVars>>

Abort(d) ==
  /\ "abort" \in Faults
  /\ pc[d] \notin {"idle", "done"}
  /\ Finish(d, pc[d], "error")
  /\ UNCHANGED <<store, marked, reviewVars>>

SubmitStep(d) ==
  \/ BeginValidation(d)
  \/ VendorFails(d)
  \/ Analyze(d)
  \/ AnalyzeConflict(d)
  \/ CheckRules(d)
  \/ RefuseByRules(d)
  \/ MarkCheck(d)
  \/ SetContribution(d)
  \/ AutoPost(d)
  \/ AutoPostFails(d)

-------------------------------------------------------------------------------
(* Operator requests.  Each reads the transfer, checks it, and later opens *)
(* the transaction that acts on it.  A request turned away by its read     *)
(* changes nothing and has no action.                                      *)

Review(o, from, to) ==
  /\ rpc[o] = from
  /\ rpc' = [rpc EXCEPT ![o] = to]
  /\ UNCHANGED <<about, notices>>

SkipNotice(decision) == "done"

(* Once its transaction is committed, the handler goes on to a notice.     *)
Tell(decision) == decision

Reviewable(d) == status[d] = "analyzing" /\ flag[d] # "none"

AnyVerified(v) == TRUE
VerifiedOk(v) == v > 0 /\ v <= Limit

AmountTyped(d, v) == v

(* The amount Approve carries to the ledger: the verified one for a        *)
(* mismatch, the one it read otherwise.                                    *)
PostingAmount(d, v) == IF flag[d] = "amount_mismatch" THEN v ELSE amount[d]

ReadToApprove(o) ==
  LET d == about[o] IN
  /\ Reviewable(d)
  /\ form[d].account \in Known
  /\ \E v \in Amounts :
       /\ flag[d] = "amount_mismatch" => VerifiedOk(v)
       /\ held' = [held EXCEPT ![o] = PostingAmount(d, v)]
  /\ Review(o, "idle", "approve")
  /\ UNCHANGED <<store, submitVars, marked>>

KeepAmount(o, d) == UNCHANGED amount

(* The verified amount is written by id before the guarded transition; the *)
(* rollback of a lost race undoes it.                                      *)
StoreVerified(o, d) ==
  amount' = IF flag[d] = "amount_mismatch"
              THEN [amount EXCEPT ![d] = held[o]] ELSE amount

UpdatesKept(o, d) == StoreVerified(o, d) /\ UNCHANGED ctype
RolledBack(o, d) == UNCHANGED <<amount, ctype>>

CommitApprove(o) ==
  LET d == about[o] IN
  /\ \/ /\ Review(o, "approve", Tell("approved"))
        /\ PostFunds(d, held[o], "reviewer")
        /\ StoreVerified(o, d)
        /\ \E c \in Overrides \cup {ctype[d]} : ctype' = [ctype EXCEPT ![d] = c]
        /\ LogAction(o, "approve", d)
     \/ /\ Review(o, "approve", "done")
        /\ Fails(d, "analyzing")
        /\ RolledBack(o, d)
        /\ UNCHANGED <<status, history, ledger, audit>>
  /\ UNCHANGED <<flag, submitVars, marked, held>>

ReadToReject(o) ==
  /\ status[about[o]] = "analyzing"
  /\ Review(o, "idle", "reject")
  /\ UNCHANGED <<store, submitVars, marked, held>>

CommitReject(o) ==
  LET d == about[o] IN
  /\ \/ /\ Review(o, "reject", Tell("rejected"))
        /\ Transition(d, "analyzing", "rejected", "reviewer")
        /\ LogAction(o, "reject", d)
     \/ /\ Review(o, "reject", "done")
        /\ Fails(d, "analyzing")
        /\ UNCHANGED <<status, history, audit>>
  /\ UNCHANGED <<rows, ledger, submitVars, marked, held>>

ReadToOverride(o) ==
  /\ Reviewable(about[o])
  /\ Review(o, "idle", "override")
  /\ UNCHANGED <<store, submitVars, marked, held>>

(* UPDATE ... WHERE id: the check made by the read is not repeated.        *)
CommitOverride(o) ==
  LET d == about[o] IN
  /\ Review(o, "override", "done")
  /\ \/ /\ \E c \in Overrides : ctype' = [ctype EXCEPT ![d] = c]
        /\ LogAction(o, "override", d)
     \/ "commit" \in Faults /\ UNCHANGED <<ctype, audit>>
  /\ UNCHANGED <<status, flag, amount, ledger, history, submitVars, marked, held>>

(* deposit.ProcessReturn.                                                  *)
ReadToReturn(o) ==
  LET d == about[o] IN
  /\ status[d] = "completed"
  /\ form[d].account \in Known
  /\ held' = [held EXCEPT ![o] = amount[d]]
  /\ Review(o, "idle", "return")
  /\ UNCHANGED <<store, submitVars, marked>>

CommitReturn(o) ==
  LET d == about[o] IN
  /\ \/ /\ Review(o, "return", Tell("returned"))
        /\ ReturnFunds(d, held[o])
     \/ /\ Review(o, "return", "done")
        /\ Fails(d, "completed") \/ ~Postable(ReturnFee)
        /\ UNCHANGED <<status, history, ledger>>
  /\ UNCHANGED <<rows, audit, submitVars, marked, held>>

(* The best-effort insert that follows: when it fails nobody knows, and    *)
(* notifications.account_id REFERENCES accounts, as transfers' does not.   *)
Notify(o) ==
  LET known == form[about[o]].account \in Known IN
  /\ rpc[o] \in Decisions
  /\ rpc' = [rpc EXCEPT ![o] = "done"]
  /\ \/ /\ known
        /\ notices' = notices \cup {[by |-> o, on |-> about[o], says |-> rpc[o]]}
     \/ /\ ~known \/ "commit" \in Faults
        /\ UNCHANGED notices
  /\ UNCHANGED <<store, submitVars, marked, about, held>>

ReviewDies(o) ==
  /\ "abort" \in Faults
  /\ rpc[o] \notin {"idle", "done"}
  /\ Review(o, rpc[o], "done")
  /\ UNCHANGED <<store, submitVars, marked, held>>

ReviewStep(o) ==
  CommitApprove(o) \/ CommitReject(o) \/ CommitOverride(o) \/ CommitReturn(o) \/ Notify(o)

-------------------------------------------------------------------------------
(* The per-transfer transaction of settlement.RunSettlement.               *)
Settle(d) ==
  /\ Transition(d, "funds_posted", "completed", "system:settlement")
  /\ UNCHANGED <<rows, ledger, audit, submitVars, marked, reviewVars>>

(* No request is under way; the server waits for the next one.             *)
Quiet ==
  /\ \A d \in Deposits : pc[d] \in {"idle", "done"}
  /\ \A o \in Reviews : rpc[o] \in {"idle", "done"}
  /\ UNCHANGED vars

Next ==
  \/ \E d \in Deposits :
       Create(d) \/ RefuseForm(d) \/ SubmitStep(d) \/ Abort(d) \/ Settle(d)
  \/ \E o \in Reviews :
       \/ ReadToApprove(o) \/ ReadToReject(o) \/ ReadToOverride(o) \/ ReadToReturn(o)
       \/ ReviewStep(o) \/ ReviewDies(o)
  \/ Quiet

Spec == Init /\ [][Next]_vars

(* A handler that is not cut off runs to its end.                          *)
Fairness ==
  /\ \A d \in Deposits : WF_vars(SubmitStep(d))
  /\ \A o \in Reviews : WF_vars(ReviewStep(o))

FairSpec == Spec /\ Fairness
-------------------------------------------------------------------------------
(* Properties                                                              *)

Origins == {"system", "system:settlement", "operator", "reviewer"}
Moves == [from : Statuses, to : Statuses, by : Origins]
Entries == [sub : {"DEPOSIT", "REVERSAL", "RETURN_FEE"}, amount : Nat \ {0}]

(* Every variable holds values of the shape the schema and the handlers    *)
(* give it.                                                                *)
TypeOK ==
  /\ status \in [Deposits -> Statuses \cup {NoRow}]
  /\ flag \in [Deposits -> FlagReasons]
  /\ amount \in [Deposits -> Nat]
  /\ ctype \in [Deposits -> CTypes]
  /\ ledger \in [Deposits -> Seq(Entries)]
  /\ history \in [Deposits -> Seq(Moves)]
  /\ audit \subseteq [req : Reviews, action : {"approve", "reject", "override"},
                      on : Deposits]
  /\ form \in [Deposits -> Forms]
  /\ pc \in [Deposits -> SubmitSteps]
  /\ answer \in [Deposits -> Answers]
  /\ marked \subseteq Int
  /\ about \in [Reviews -> Deposits]
  /\ rpc \in [Reviews -> ReviewSteps]
  /\ held \in [Reviews -> Nat]
  /\ notices \subseteq [by : Reviews, on : Deposits, says : Decisions]

(* The ledger of a transfer is exactly what its status says: one DEPOSIT   *)
(* of transfers.amount_cents while the credit stands, the same followed by *)
(* its REVERSAL and the fee once returned, and nothing before.  Approvals, *)
(* returns and the pipeline race for the row (ApproveAndPost,              *)
(* operator.Approve, ProcessReturn).                                       *)
Books(d) ==
  IF status[d] \in Credited THEN <<Entry("DEPOSIT", amount[d])>>
  ELSE IF status[d] = "returned"
    THEN <<Entry("DEPOSIT", amount[d]), Entry("REVERSAL", amount[d]),
           Entry("RETURN_FEE", ReturnFee)>>
  ELSE << >>

LedgerMatchesStatus == \A d \in Deposits : ledger[d] = Books(d)

(* state_transitions is an unbroken path of permitted moves from requested *)
(* to the current status (Machine.Transition).                             *)
HistoryIsPath ==
  \A d \in Deposits :
    LET h == history[d] IN
    /\ h = << >> => status[d] \in {NoRow, "requested"}
    /\ h # << >> => h[1].from = "requested" /\ h[Len(h)].to = status[d]
    /\ \A i \in 1 .. Len(h) : IsValid(h[i].from, h[i].to)
    /\ \A i \in 1 .. Len(h) - 1 : h[i].to = h[i + 1].from

Decided(d, by, to) ==
  \E i \in 1 .. Len(history[d]) : history[d][i].by = by /\ history[d][i].to = to

Rulings(d) == {r \in audit : r.on = d /\ r.action \in {"approve", "reject"}}

(* An operator's ruling and its audit row come and go together, and two    *)
(* racing operators leave one ruling, the one that decided                 *)
(* (operator.Approve, operator.Reject).                                    *)
RulingsAreAudited ==
  \A d \in Deposits :
    /\ \A r, s \in Rulings(d) : r = s
    /\ (\E r \in Rulings(d) : r.action = "approve") <=> Decided(d, "reviewer", "approved")
    /\ (\E r \in Rulings(d) : r.action = "reject") <=> Decided(d, "reviewer", "rejected")

(* A flagged deposit is funded by an operator's approval only, an          *)
(* unflagged one by the pipeline only (Submit step 7, operator.Approve).   *)
FlaggedNeedsReview ==
  \A d \in Deposits : status[d] \in Funded =>
    (flag[d] # "none" <=> Decided(d, "reviewer", "approved"))

AutoFunded(d) == status[d] \in Funded /\ flag[d] = "none"

(* What the pipeline funds on its own went through the rules: an active    *)
(* account, within the limits, with its duplicate mark in place            *)
(* (Submit steps 8 to 10; Redis reachable).                                *)
AutoFundedIsVetted ==
  \A d \in Deposits : AutoFunded(d) =>
    /\ Violations(form[d].account, amount[d], FALSE) = {}
    /\ "redis" \notin Faults => amount[d] \in marked

(* No entry credits more than the per-check limit, whoever typed the       *)
(* amount (handler check, operator.Approve check).                         *)
CreditWithinLimit ==
  \A d \in Deposits : \A i \in 1 .. Len(ledger[d]) :
    ledger[d][i].sub = "DEPOSIT" => ledger[d][i].amount \in 1 .. Limit

(* The amount of a transfer differs from the declared one only when an     *)
(* approval with a verified amount went through: an approval that loses    *)
(* its race leaves no trace (operator.Approve updates before it locks).    *)
AmountChangeIsApproved ==
  \A d \in Deposits :
    status[d] # NoRow /\ amount[d] # form[d].amount =>
      status[d] \in Funded /\ flag[d] = "amount_mismatch"

(* What the investor was told is so: "funds_posted" is never undone by     *)
(* anything but a return, and, unless commits fail, a rejection stands.    *)
AnswerIsTrue ==
  \A d \in Deposits :
    /\ answer[d] = "posted" => status[d] \in Funded
    /\ answer[d] = "rejected" /\ "commit" \notin Faults => status[d] = "rejected"

(* Terminal states are final; funded deposits never change their amount    *)
(* nor lose a ledger entry (append-only ledger.Repository).                *)
NoGoingBack ==
  [][\A d \in Deposits :
       /\ status[d] # NoRow /\ IsTerminal(status[d]) => status'[d] = status[d]
       /\ status[d] \in Funded => amount'[d] = amount[d] /\ status'[d] \in Funded
       /\ ledger[d] = SubSeq(ledger'[d], 1, Len(ledger[d]))]_vars

Automatic(d) ==
  \/ status[d] \in {"requested", "validating"}
  \/ status[d] = "analyzing" /\ flag[d] = "none"

(* A deposit leaves the stages nobody but its own Submit call moves on     *)
(* (Submit runs synchronously; no worker picks up what it leaves).         *)
LeavesAutomaticStages == \A d \in Deposits : Automatic(d) ~> ~Automatic(d)

(* What a notice says has happened and is not taken back, and nobody is    *)
(* told the same thing twice, however requests overlap (the handlers of    *)
(* Approve, Reject and Return notify after their commit).                  *)
NoticesAreTrue ==
  \A n \in notices :
    /\ n.says = "approved" => status[n.on] \in Funded
    /\ n.says \in {"rejected", "returned"} => status[n.on] = n.says
    /\ \A m \in notices : m.on = n.on /\ m.says = n.says => m = n

Told(d, what) == \E n \in notices : n.on = d /\ n.says = what

(* The investor hears of every approval and of every return, whatever the  *)
(* account ("Investor notified of the returned check and fee deduction",   *)
(* architecture.md), and of a rejection by an operator if the account      *)
(* exists: operator.Reject resolves no account, and the notice of an       *)
(* unknown one breaks its foreign key, an error the handler drops.         *)
DecisionsAreTold ==
  \A d \in Deposits :
    /\ Decided(d, "reviewer", "approved") ~> Told(d, "approved")
    /\ Decided(d, "operator", "returned") ~> Told(d, "returned")
    /\ (form[d].account \in Known /\ Decided(d, "reviewer", "rejected"))
         ~> Told(d, "rejected")

(* One check is funded by the pipeline once (ApplyRules rule 4).           *)
NoDoubleFunding ==
  \A d, e \in Deposits :
    AutoFunded(d) /\ AutoFunded(e) /\ amount[d] = amount[e] => d = e

(* A row belongs to an accepted form, and its amount stays within the      *)
(* limit (handler checks, operator.Approve check).                         *)
RowsAreAccepted ==
  \A d \in Deposits :
    /\ pc[d] = "idle" => status[d] = NoRow
    /\ status[d] # NoRow => FormAccepted(form[d]) /\ amount[d] \in 1 .. Limit

(* What an operator request read before its transaction is still good when *)
(* the transaction's lock succeeds: the amount it will post or reverse is  *)
(* the one the transfer will have (operator.Approve, ProcessReturn).       *)
HeldIsCurrent ==
  \A o \in Reviews :
    LET d == about[o] IN
    /\ rpc[o] = "approve" =>
         /\ status[d] \notin {NoRow, "requested", "validating"}
         /\ held[o] \in 1 .. Limit
         /\ flag[d] \in {"micr_failure", "amount_mismatch"}
         /\ flag[d] = "micr_failure" => held[o] = form[d].amount
    /\ rpc[o] = "return" =>
         status[d] \in {"completed", "returned"} /\ held[o] = amount[d]

(* The inductive invariant behind LedgerMatchesStatus.                     *)
LedgerInv ==
  /\ TypeOK
  /\ RowsAreAccepted
  /\ AmountChangeIsApproved
  /\ HeldIsCurrent
  /\ LedgerMatchesStatus

(* Nothing is funded without passing the business rules: "Verify no        *)
(* deposit can reach FundsPosted without passing both vendor validation    *)
(* and funding service business rules" (README.md).                        *)
FundedPassedRules ==
  \A d \in Deposits : status[d] \in Funded =>
    Violations(form[d].account, amount[d], FALSE) = {}
===============================================================================
