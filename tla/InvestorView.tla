----------------------------- MODULE InvestorView -----------------------------
(***************************************************************************)
(* The investor's screen (views/InvestorView.jsx) around the deposit form: *)
(* the account selector, the tabs, and what a deposit hands over to the    *)
(* other tab.  Opening a tab mounts its components afresh.  What happens   *)
(* on the "deposits" tab is in TransferStatus, NotificationPanel and       *)
(* Listings.                                                               *)
(***************************************************************************)
EXTENDS DepositForm

VARIABLES investor     \* activeTab, accountId, the transfer handed over, visits left

investorVars == <<form, posts, investor>>

InvestorTabs == {"deposit", "deposits", "account"}

InvestorTypeOK ==
  /\ FormTypeOK
  /\ investor \in [activeTab : InvestorTabs, accountId : AccountIds,
                   transferId : Outcomes, visits : 0 .. FormVisits]

InvestorInit ==
  /\ form = FreshForm /\ posts = {}
  /\ investor = [activeTab |-> "deposit", accountId |-> StartAccount,
                 transferId |-> "none", visits |-> FormVisits]

(* What is left of a submission whose form is gone.                        *)
Abandoned == {[p EXCEPT !.mounted = FALSE] : p \in posts}

MountForm(tab) ==
  IF tab = "deposit" /\ investor.activeTab # "deposit"
  THEN form' = FreshForm /\ UNCHANGED posts
  ELSE IF tab # "deposit" /\ investor.activeTab = "deposit"
       THEN form' = NoForm /\ posts' = Abandoned
       ELSE UNCHANGED <<form, posts>>

Spent(tab) ==
  IF tab = "deposit" /\ investor.activeTab # "deposit" THEN 1 ELSE 0

setActiveTab(tab) ==
  /\ tab # investor.activeTab /\ Spent(tab) <= investor.visits
  /\ investor' = [investor EXCEPT !.activeTab = tab, !.visits = @ - Spent(tab)]
  /\ MountForm(tab)

setAccountId(a) ==
  /\ a # investor.accountId /\ a \in ACCOUNTS
  /\ investor' = [investor EXCEPT !.accountId = a]
  /\ UNCHANGED <<form, posts>>

(* "View transfer details": the transfer is known here by its status.      *)
handleDepositSuccess ==
  /\ FormShown /\ form.result # "none"
  /\ investor' = [investor EXCEPT !.transferId = form.result, !.activeTab = "deposits"]
  /\ MountForm("deposits")

(* From a returned check or a notice on the "deposits" tab.                *)
handleStartNewDeposit(a) ==
  /\ investor.activeTab = "deposits" /\ Spent("deposit") <= investor.visits
  /\ investor' = [investor EXCEPT !.accountId = a, !.transferId = "none",
                                  !.activeTab = "deposit", !.visits = @ - 1]
  /\ MountForm("deposit")

InvestorNext ==
  \/ FormStep(investor.accountId) /\ UNCHANGED investor
  \/ \E tab \in InvestorTabs : setActiveTab(tab)
  \/ \E a \in AccountIds : setAccountId(a) \/ handleStartNewDeposit(a)
  \/ handleDepositSuccess

(* Every submission gets an answer, if only that there is none.            *)
InvestorFairness ==
  WF_investorVars((\E p \in posts : PostAnswered(p)) /\ UNCHANGED investor)

InvestorSpec == InvestorInit /\ [][InvestorNext]_investorVars /\ InvestorFairness

-------------------------------------------------------------------------------
(* "Submitting..." ends, whatever the answer is and wherever the investor  *)
(* has gone meanwhile; and the form that is back takes a submission again. *)
SubmitEnds == form.loading ~> ~form.loading
===============================================================================
