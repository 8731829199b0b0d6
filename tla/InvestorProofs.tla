---------------------------- MODULE InvestorProofs ----------------------------
(***************************************************************************)
(* Proofs about the deposit form and the investor's screen around it, for  *)
(* any accounts, amounts, scenarios, limits and number of visits: type     *)
(* correctness, what the form shows of its submissions, and what it lets   *)
(* through to the server.                                                  *)
(***************************************************************************)
EXTENDS InvestorView, FiniteSetTheorems, TLAPS

FormStates ==
  [mounted : BOOLEAN, scenario : Scenes, amount : TypedAmounts,
   touched : BOOLEAN, images : BOOLEAN, loading : BOOLEAN, result : Outcomes,
   error : BOOLEAN, iqaError : BOOLEAN, needsReauth : BOOLEAN,
   amountError : AmountErrors, accountError : BOOLEAN, general : BOOLEAN]

PostStates ==
  [account : Accounts, cents : Int, scenario : Scenes, mounted : BOOLEAN]

InvestorStates ==
  [activeTab : InvestorTabs, accountId : AccountIds, transferId : Outcomes,
   visits : 0 .. FormVisits]

(* The inductive strengthening of InvestorTypeOK.                          *)
InvestorTypeInv ==
  /\ form \in FormStates
  /\ investor \in InvestorStates
  /\ posts \subseteq PostStates
  /\ IsFiniteSet(posts) /\ Cardinality(posts) <= OpenPosts

(* A form just opened, and the one that is gone, are well typed.           *)
LEMMA FreshFormType == FreshForm \in FormStates /\ NoForm \in FormStates
<1>1. (CHOOSE s \in Scenes : TRUE) \in Scenes
  BY FormAssumption
<1>2. FirstAmount \in TypedAmounts
  BY FormAssumption
<1>3. QED
  BY <1>1, <1>2 DEF FreshForm, NoForm, FormStates, Outcomes, AmountErrors

(* Initially the form is open and nothing is under way.                    *)
LEMMA InitInvestorType == InvestorInit => InvestorTypeInv
<1> SUFFICES ASSUME InvestorInit PROVE InvestorTypeInv
  OBVIOUS
<1>1. /\ form \in FormStates
      /\ investor \in InvestorStates
  BY FreshFormType, FormAssumption
     DEF InvestorInit, InvestorStates, InvestorTabs, AccountIds, Outcomes
<1>2. posts = {} /\ OpenPosts \in Nat
  BY FormAssumption DEF InvestorInit
<1>3. IsFiniteSet(posts) /\ Cardinality(posts) <= OpenPosts
  BY <1>2, FS_EmptySet
<1>4. QED
  BY <1>1, <1>2, <1>3 DEF InvestorTypeInv

(* The check on a typed amount leaves an amount error.                     *)
LEMMA ValidateType == \A v : validateAmount(v) \in AmountErrors \ {"server"}
BY DEF validateAmount, AmountErrors

(* An amount that passes it is a number.                                   *)
LEMMA ValidIsNumber ==
  ASSUME NEW v \in TypedAmounts, validateAmount(v) = "none"
  PROVE  v \in Int
BY FormAssumption DEF validateAmount

(* What an answer makes of the form.                                       *)
AfterAnswer(v, a) ==
  Finally(IF handleResponse(DepositCalls.submitDeposit, a.kind # "status") = "resolved"
          THEN Accomplished(v, a) ELSE Refused(v, a))

Replies ==
  [kind : {"status", "error", "reauth", "violations"}, status : Outcomes, retake : BOOLEAN,
   violations : SUBSET {"account_ineligible", "over_limit", "contribution_cap_exceeded",
                        "duplicate_funding"}]

(* What the server answers.                                                *)
LEMMA AnswersType ==
  ASSUME NEW p \in PostStates
  PROVE  Answers(p) \subseteq Replies
<1>1. \A s \in Outcomes : Status(s) \in Replies
  BY DEF Status, Replies
<1>2. \A kind \in {"status", "error", "reauth", "violations"} : Refusal(kind, {}) \in Replies
  BY DEF Refusal, Replies, Outcomes
<1>3. \A dup : Refusal("violations", Violations(p.account, p.cents, dup)) \in Replies
  BY DEF Refusal, Replies, Violations, Outcomes
<1>4. \A b \in BOOLEAN : [Status("rejected") EXCEPT !.retake = b] \in Replies
  BY DEF Status, Replies, Outcomes
<1>5. Verdicts(p) \subseteq Replies
  <2>1. "rejected" \in Outcomes /\ "analyzing" \in Outcomes /\ "funds_posted" \in Outcomes
    BY DEF Outcomes
  <2>2. (p.scenario = "IQA_FAIL") \in BOOLEAN
    OBVIOUS
  <2>3. [Status("rejected") EXCEPT !.retake = (p.scenario = "IQA_FAIL")] \in Replies
    BY <1>4, <2>2
  <2>4. QED
    BY <1>1, <1>2, <1>3, <2>1, <2>3 DEF Verdicts
<1>6. QED
  BY <1>2, <1>5 DEF Answers

(* Either branch of an answer keeps the form well typed, and there.        *)
LEMMA BranchType ==
  ASSUME NEW v \in FormStates, NEW a \in Replies
  PROVE  /\ Accomplished(v, a) \in FormStates /\ Refused(v, a) \in FormStates
         /\ Accomplished(v, a).mounted = v.mounted /\ Refused(v, a).mounted = v.mounted
<1>1. Accomplished(v, a) \in FormStates
  BY DEF Accomplished, FormStates, Replies
<1>2. Refused(v, a) \in FormStates
  <2>1. ASSUME NEW t \in BOOLEAN, NEW e \in AmountErrors, NEW x \in BOOLEAN, NEW g \in BOOLEAN
        PROVE  [v EXCEPT !.touched = t, !.amountError = e, !.accountError = x, !.general = g]
                 \in FormStates
    BY DEF FormStates
  <2>2. CASE a.kind = "violations"
    <3>1. /\ (v.touched \/ "over_limit" \in a.violations) \in BOOLEAN
          /\ ("account_ineligible" \in a.violations) \in BOOLEAN
          /\ (a.violations \ {"over_limit", "account_ineligible"} # {}) \in BOOLEAN
      OBVIOUS
    <3>2. (IF "over_limit" \in a.violations THEN "server" ELSE v.amountError) \in AmountErrors
      BY DEF AmountErrors, FormStates
    <3>3. [v EXCEPT
             !.touched = v.touched \/ "over_limit" \in a.violations,
             !.amountError = IF "over_limit" \in a.violations THEN "server" ELSE v.amountError,
             !.accountError = "account_ineligible" \in a.violations,
             !.general = a.violations \ {"over_limit", "account_ineligible"} # {}]
            \in FormStates
      BY <2>1, <3>1, <3>2
    <3>4. QED
      BY <2>2, <3>3 DEF Refused
  <2>3. CASE a.kind # "violations"
    BY <2>3 DEF Refused, FormStates, Replies
  <2>4. QED
    BY <2>2, <2>3
<1>3. Accomplished(v, a).mounted = v.mounted /\ Refused(v, a).mounted = v.mounted
  BY DEF Accomplished, Refused, FormStates
<1>4. QED
  BY <1>1, <1>2, <1>3

(* The form stays well typed when it is answered.                          *)
LEMMA AfterAnswerType ==
  ASSUME NEW v \in FormStates, NEW a \in Replies
  PROVE  AfterAnswer(v, a) \in FormStates
<1>1. \A w \in FormStates : Finally(w) \in FormStates
  BY DEF Finally, FormStates
<1>2. QED
  BY <1>1, BranchType DEF AfterAnswer

(* What is left of the submissions of a form that is gone.                 *)
LEMMA AbandonedType ==
  ASSUME InvestorTypeInv
  PROVE  /\ Abandoned \subseteq PostStates
         /\ IsFiniteSet(Abandoned) /\ Cardinality(Abandoned) <= OpenPosts
         /\ \A p \in Abandoned : ~p.mounted
         /\ \A p \in Abandoned : \E q \in posts : p.cents = q.cents
<1> DEFINE f == [p \in posts |-> [p EXCEPT !.mounted = FALSE]]
<1>1. \A p \in posts :
        /\ [p EXCEPT !.mounted = FALSE] \in PostStates
        /\ [p EXCEPT !.mounted = FALSE].mounted = FALSE
        /\ [p EXCEPT !.mounted = FALSE].cents = p.cents
  BY DEF InvestorTypeInv, PostStates
<1>2. f \in Surjection(posts, Abandoned)
  BY DEF Surjection, Abandoned
<1>3. IsFiniteSet(Abandoned) /\ Cardinality(Abandoned) <= Cardinality(posts)
  BY <1>2, FS_Surjection DEF InvestorTypeInv
<1>4. /\ Cardinality(Abandoned) \in Nat /\ Cardinality(posts) \in Nat
      /\ Cardinality(posts) <= OpenPosts /\ OpenPosts \in Nat
  BY <1>3, FS_CardinalityType, FormAssumption DEF InvestorTypeInv
<1>5. ASSUME NEW p \in Abandoned
      PROVE  p \in PostStates /\ ~p.mounted /\ \E q \in posts : p.cents = q.cents
  <2>1. PICK q \in posts : p = [q EXCEPT !.mounted = FALSE]
    BY DEF Abandoned
  <2>2. QED
    BY <1>1, <2>1
<1>6. Cardinality(Abandoned) <= OpenPosts
  BY <1>3, <1>4
<1>7. QED
  BY <1>3, <1>5, <1>6

(* A submission's request.                                                 *)
LEMMA RequestType ==
  ASSUME InvestorTypeInv, canSubmit(investor.accountId)
  PROVE  Request(investor.accountId) \in PostStates
<1>1. form.amount \in Int
  BY ValidIsNumber DEF canSubmit, InvestorTypeInv, FormStates
<1>2. Cents(form.amount) \in Int
  BY <1>1 DEF Cents
<1>3. investor.accountId \in Accounts
  BY AccountsAssumption DEF InvestorTypeInv, InvestorStates
<1>4. form.scenario \in Scenes
  BY DEF InvestorTypeInv, FormStates
<1>5. QED
  BY <1>2, <1>3, <1>4 DEF Request, PostStates

(* The answer to a submission, as one step of the form.                    *)
LEMMA AnswerOf ==
  ASSUME NEW p \in posts, PostAnswered(p)
  PROVE  /\ posts' = posts \ {p}
         /\ \E a \in Answers(p) :
              form' = IF p.mounted THEN AfterAnswer(form, a) ELSE form
BY DEF PostAnswered, AfterAnswer

(* Opening and leaving a tab.                                              *)
LEMMA MountType ==
  ASSUME InvestorTypeInv, NEW tab, MountForm(tab)
  PROVE  /\ form' \in FormStates /\ posts' \subseteq PostStates
         /\ IsFiniteSet(posts') /\ Cardinality(posts') <= OpenPosts
<1>1. \/ form' = FreshForm /\ UNCHANGED posts
      \/ form' = NoForm /\ posts' = Abandoned
      \/ UNCHANGED <<form, posts>>
  BY DEF MountForm
<1>2. QED
  BY <1>1, FreshFormType, AbandonedType DEF InvestorTypeInv

(* Every step of the form keeps the types.                                 *)
LEMMA FormStepType ==
  ASSUME InvestorTypeInv, FormStep(investor.accountId), UNCHANGED investor
  PROVE  InvestorTypeInv'
<1>1. form \in FormStates /\ posts \subseteq PostStates /\ IsFiniteSet(posts)
  BY DEF InvestorTypeInv
<1>2. ASSUME form' \in FormStates, UNCHANGED posts PROVE InvestorTypeInv'
  BY <1>2 DEF InvestorTypeInv
<1>3. ASSUME NEW s \in Scenes, SetScenario(s) PROVE InvestorTypeInv'
  <2>1. [form EXCEPT !.scenario = s] \in FormStates
    BY <1>1 DEF FormStates
  <2>2. QED
    BY <1>2, <1>3, <2>1 DEF SetScenario
<1>4. ASSUME NEW v \in TypedAmounts, handleAmountChange(investor.accountId, v)
      PROVE  InvestorTypeInv'
  <2>1. \A e \in AmountErrors : [form EXCEPT !.amount = v, !.amountError = e] \in FormStates
    BY <1>1 DEF FormStates
  <2>2. (IF form.touched THEN validateAmount(v) ELSE form.amountError) \in AmountErrors
    BY <1>1, ValidateType DEF FormStates
  <2>3. QED
    BY <1>2, <1>4, <2>1, <2>2 DEF handleAmountChange
<1>5. CASE handleAmountBlur(investor.accountId)
  <2>1. \A e \in AmountErrors : [form EXCEPT !.touched = TRUE, !.amountError = e] \in FormStates
    BY <1>1 DEF FormStates
  <2>2. QED
    BY <1>2, <1>5, <2>1, ValidateType DEF handleAmountBlur
<1>6. CASE ChooseImages(investor.accountId)
  <2>1. [form EXCEPT !.images = TRUE] \in FormStates
    BY <1>1 DEF FormStates
  <2>2. QED
    BY <1>2, <1>6, <2>1 DEF ChooseImages
<1>7. CASE handleSubmit(investor.accountId)
  <2>1. /\ [Cleared(form) EXCEPT !.error = TRUE] \in FormStates
        /\ [Cleared(form) EXCEPT !.loading = TRUE] \in FormStates
    BY <1>1 DEF Cleared, FormStates, Outcomes, AmountErrors
  <2>2. CASE form' = [Cleared(form) EXCEPT !.error = TRUE] /\ UNCHANGED posts
    BY <1>2, <2>1, <2>2
  <2>3. CASE /\ Cardinality(posts) < OpenPosts
             /\ form' = [Cleared(form) EXCEPT !.loading = TRUE]
             /\ posts' = posts \cup {Request(investor.accountId)}
    <3>1. Request(investor.accountId) \in PostStates
      BY <1>7, RequestType DEF handleSubmit
    <3>2. /\ IsFiniteSet(posts')
          /\ Cardinality(posts') = IF Request(investor.accountId) \in posts
                                   THEN Cardinality(posts) ELSE Cardinality(posts) + 1
      BY <1>1, <2>3, FS_AddElement
    <3>3. Cardinality(posts) \in Nat /\ OpenPosts \in Nat
      BY <1>1, FS_CardinalityType, FormAssumption
    <3>4. Cardinality(posts') <= OpenPosts
      BY <2>3, <3>2, <3>3
    <3>5. posts' \subseteq PostStates
      BY <1>1, <2>3, <3>1
    <3>6. QED
      BY <2>1, <2>3, <3>2, <3>4, <3>5 DEF InvestorTypeInv
  <2>4. QED
    BY <1>7, <2>2, <2>3 DEF handleSubmit
<1>8. ASSUME NEW p \in posts, PostAnswered(p) PROVE InvestorTypeInv'
  <2>1. PICK a \in Answers(p) : form' = IF p.mounted THEN AfterAnswer(form, a) ELSE form
    BY <1>8, AnswerOf
  <2>2. p \in PostStates /\ a \in Replies
    BY <1>1, AnswersType
  <2>3. form' \in FormStates
    BY <1>1, <2>1, <2>2, AfterAnswerType
  <2>4. posts' = posts \ {p}
    BY <1>8, AnswerOf
  <2>5. IsFiniteSet(posts') /\ Cardinality(posts') <= Cardinality(posts)
    BY <1>1, <2>4, FS_Subset
  <2>6. Cardinality(posts) \in Nat /\ Cardinality(posts') \in Nat /\ OpenPosts \in Nat
    BY <1>1, <2>5, FS_CardinalityType, FormAssumption
  <2>7. Cardinality(posts') <= OpenPosts
    BY <2>5, <2>6 DEF InvestorTypeInv
  <2>8. QED
    BY <2>3, <2>4, <2>5, <2>7 DEF InvestorTypeInv
<1>9. CASE handleRetake \/ CancelRetake \/ Reauthenticate
  <2>1. /\ [form EXCEPT !.iqaError = FALSE, !.error = FALSE, !.images = FALSE] \in FormStates
        /\ [form EXCEPT !.iqaError = FALSE, !.result = "none"] \in FormStates
        /\ [form EXCEPT !.needsReauth = FALSE] \in FormStates
    BY <1>1 DEF FormStates, Outcomes
  <2>2. QED
    BY <1>2, <1>9, <2>1 DEF handleRetake, CancelRetake, Reauthenticate
<1>10. QED
  BY <1>3, <1>4, <1>5, <1>6, <1>7, <1>8, <1>9 DEF FormStep

(* Every step of the investor's screen keeps the types.                    *)
LEMMA NextInvestorType ==
  InvestorTypeInv /\ [InvestorNext]_investorVars => InvestorTypeInv'
<1> SUFFICES ASSUME InvestorTypeInv, [InvestorNext]_investorVars PROVE InvestorTypeInv'
  OBVIOUS
<1>1. investor \in InvestorStates /\ FormVisits \in Nat
  BY FormAssumption DEF InvestorTypeInv
<1>2. ASSUME NEW tab \in InvestorTabs, setActiveTab(tab) PROVE InvestorTypeInv'
  <2>1. Spent(tab) \in {0, 1}
    BY DEF Spent
  <2>2. investor.visits - Spent(tab) \in 0 .. FormVisits
    BY <1>1, <1>2, <2>1 DEF setActiveTab, InvestorStates
  <2>3. investor' \in InvestorStates
    BY <1>1, <1>2, <2>2 DEF setActiveTab, InvestorStates
  <2>4. QED
    BY <1>2, <2>3, MountType DEF setActiveTab, InvestorTypeInv
<1>3. ASSUME NEW a \in AccountIds, setAccountId(a) PROVE InvestorTypeInv'
  BY <1>1, <1>3 DEF setAccountId, InvestorStates, InvestorTypeInv
<1>4. ASSUME NEW a \in AccountIds, handleStartNewDeposit(a) PROVE InvestorTypeInv'
  <2>1. investor.visits - 1 \in 0 .. FormVisits
    BY <1>1, <1>4 DEF handleStartNewDeposit, Spent, InvestorStates
  <2>2. investor' \in InvestorStates
    BY <1>1, <1>4, <2>1 DEF handleStartNewDeposit, InvestorStates, InvestorTabs, Outcomes
  <2>3. QED
    BY <1>4, <2>2, MountType DEF handleStartNewDeposit, InvestorTypeInv
<1>5. CASE handleDepositSuccess
  <2>1. form.result \in Outcomes
    BY DEF InvestorTypeInv, FormStates
  <2>2. investor' \in InvestorStates
    BY <1>1, <1>5, <2>1 DEF handleDepositSuccess, InvestorStates, InvestorTabs
  <2>3. QED
    BY <1>5, <2>2, MountType DEF handleDepositSuccess, InvestorTypeInv
<1>6. CASE UNCHANGED investorVars
  BY <1>6 DEF investorVars, InvestorTypeInv
<1>7. QED
  BY <1>2, <1>3, <1>4, <1>5, <1>6, FormStepType DEF InvestorNext

(* InvestorTypeInv is the stronger of the two.                             *)
LEMMA InvestorTypes == InvestorTypeInv => InvestorTypeOK
BY DEF InvestorTypeInv, InvestorTypeOK, FormTypeOK, FormStates, PostStates, InvestorStates

(* Every reachable state of the investor's screen is well typed.           *)
THEOREM InvestorType == InvestorSpec => []InvestorTypeOK
BY InvestorTypes, InitInvestorType, NextInvestorType, PTL DEF InvestorSpec

-------------------------------------------------------------------------------
(* What the form shows of its submissions, strengthened: the feedback of   *)
(* one submission at a time; while one is under way, the form is there and *)
(* shows none, and it is the only one whose answer the form will show.     *)
FormInv ==
  /\ \A f, g \in Feedback : f = g
  /\ form.loading => Feedback = {} /\ form.mounted
  /\ \A p \in posts : p.mounted => form.loading
  /\ \A p, q \in posts : p.mounted /\ q.mounted => p = q
  /\ form.mounted <=> investor.activeTab = "deposit"

(* What is under way has passed the form's check on the cents.             *)
CentsInv == \A p \in posts : CentsAccepted(p.cents)

(* The flags that make up the feedback, of any state of the form.          *)
FeedbackOf(v) ==
  {f \in {"result", "error", "retake", "reauth", "violations"} :
     \/ f = "result"     /\ v.result # "none"
     \/ f = "error"      /\ v.error
     \/ f = "retake"     /\ v.iqaError
     \/ f = "reauth"     /\ v.needsReauth
     \/ f = "violations" /\ (v.accountError \/ v.general \/ v.amountError = "server")}

(* The form that is back, with no submission of its own.                   *)
Quiet(v) == v.loading = FALSE /\ FeedbackOf(v) = {}

LEMMA FeedbackHere == Feedback = FeedbackOf(form) /\ Feedback' = FeedbackOf(form')
BY DEF Feedback, FeedbackOf

(* A form just opened shows nothing, nor does one that is gone.            *)
LEMMA FreshFormQuiet ==
  /\ Quiet(FreshForm) /\ FreshForm.mounted
  /\ Quiet(NoForm) /\ ~NoForm.mounted
BY DEF Quiet, FeedbackOf, FreshForm, NoForm

(* A submission clears what the form shows.                                *)
LEMMA ClearedShows ==
  ASSUME NEW v \in FormStates
  PROVE  /\ FeedbackOf([Cleared(v) EXCEPT !.loading = TRUE]) = {}
         /\ FeedbackOf([Cleared(v) EXCEPT !.error = TRUE]) = {"error"}
         /\ [Cleared(v) EXCEPT !.error = TRUE].loading = v.loading
         /\ [Cleared(v) EXCEPT !.error = TRUE].mounted = v.mounted
         /\ [Cleared(v) EXCEPT !.loading = TRUE].loading
         /\ [Cleared(v) EXCEPT !.loading = TRUE].mounted = v.mounted
BY DEF FormStates, Cleared, FeedbackOf

(* Its answer leaves one kind of feedback on a form that showed none.      *)
LEMMA AnswerShows ==
  ASSUME NEW v \in FormStates, NEW a \in Replies, FeedbackOf(v) = {}
  PROVE  /\ \A f, g \in FeedbackOf(AfterAnswer(v, a)) : f = g
         /\ ~AfterAnswer(v, a).loading
         /\ AfterAnswer(v, a).mounted = v.mounted
<1>1. /\ v.result = "none" /\ ~v.error /\ ~v.iqaError /\ ~v.needsReauth
      /\ ~v.accountError /\ ~v.general /\ v.amountError # "server"
  BY DEF FeedbackOf
<1>2. \A w \in FormStates :
        /\ FeedbackOf(Finally(w)) = FeedbackOf(w)
        /\ ~Finally(w).loading /\ Finally(w).mounted = w.mounted
  BY DEF Finally, FeedbackOf, FormStates
<1>3. /\ Accomplished(v, a) \in FormStates /\ Refused(v, a) \in FormStates
      /\ Accomplished(v, a).mounted = v.mounted /\ Refused(v, a).mounted = v.mounted
  BY BranchType
<1>4. \A f, g \in FeedbackOf(Accomplished(v, a)) : f = g
  BY <1>1 DEF Accomplished, FeedbackOf, FormStates, Replies
<1>5. \A f, g \in FeedbackOf(Refused(v, a)) : f = g
  BY <1>1 DEF Refused, FeedbackOf, FormStates, Replies
<1>6. QED
  BY <1>2, <1>3, <1>4, <1>5 DEF AfterAnswer

(* A change of one field shows nothing new.                                *)
LEMMA EditShows ==
  ASSUME NEW v \in FormStates
  PROVE  /\ \A s : FeedbackOf([v EXCEPT !.scenario = s]) = FeedbackOf(v)
         /\ FeedbackOf([v EXCEPT !.images = TRUE]) = FeedbackOf(v)
         /\ \A x : FeedbackOf([v EXCEPT !.amount = x]) = FeedbackOf(v)
         /\ FeedbackOf([v EXCEPT !.touched = TRUE]) = FeedbackOf(v)
         /\ \A e : e # "server" =>
              FeedbackOf([v EXCEPT !.amountError = e]) \subseteq FeedbackOf(v)
         /\ FeedbackOf([v EXCEPT !.iqaError = FALSE, !.error = FALSE, !.images = FALSE])
              \subseteq FeedbackOf(v)
         /\ FeedbackOf([v EXCEPT !.iqaError = FALSE, !.result = "none"]) \subseteq FeedbackOf(v)
         /\ FeedbackOf([v EXCEPT !.needsReauth = FALSE]) \subseteq FeedbackOf(v)
<1>1. /\ \A s : FeedbackOf([v EXCEPT !.scenario = s]) = FeedbackOf(v)
      /\ FeedbackOf([v EXCEPT !.images = TRUE]) = FeedbackOf(v)
      /\ \A x : FeedbackOf([v EXCEPT !.amount = x]) = FeedbackOf(v)
      /\ FeedbackOf([v EXCEPT !.touched = TRUE]) = FeedbackOf(v)
  BY DEF FeedbackOf, FormStates
<1>2. \A e : e # "server" => FeedbackOf([v EXCEPT !.amountError = e]) \subseteq FeedbackOf(v)
  BY DEF FeedbackOf, FormStates
<1>3. /\ FeedbackOf([v EXCEPT !.iqaError = FALSE, !.error = FALSE, !.images = FALSE])
           \subseteq FeedbackOf(v)
      /\ FeedbackOf([v EXCEPT !.iqaError = FALSE, !.result = "none"]) \subseteq FeedbackOf(v)
      /\ FeedbackOf([v EXCEPT !.needsReauth = FALSE]) \subseteq FeedbackOf(v)
  BY DEF FeedbackOf, FormStates
<1>4. QED
  BY <1>1, <1>2, <1>3

(* What an edit leaves of the form's flags.                                *)
ShowsLess(v, w) ==
  FeedbackOf(w) \subseteq FeedbackOf(v) /\ w.loading = v.loading /\ w.mounted = v.mounted

(* Every step of the form but a submission and an answer is such an edit.  *)
LEMMA EditsShowLess ==
  ASSUME InvestorTypeInv
  PROVE  /\ \A s \in Scenes : SetScenario(s) => ShowsLess(form, form') /\ UNCHANGED posts
         /\ \A v \in TypedAmounts :
              handleAmountChange(investor.accountId, v) => ShowsLess(form, form') /\ UNCHANGED posts
         /\ handleAmountBlur(investor.accountId) \/ ChooseImages(investor.accountId)
              => ShowsLess(form, form') /\ UNCHANGED posts
         /\ handleRetake \/ CancelRetake \/ Reauthenticate
              => ShowsLess(form, form') /\ UNCHANGED posts
<1>1. form \in FormStates
  BY DEF InvestorTypeInv
<1>2. \A v : validateAmount(v) # "server"
  BY ValidateType
<1>3. ASSUME NEW s \in Scenes, SetScenario(s) PROVE ShowsLess(form, form') /\ UNCHANGED posts
  <2>1. /\ [form EXCEPT !.scenario = s].loading = form.loading
        /\ [form EXCEPT !.scenario = s].mounted = form.mounted
    BY <1>1 DEF FormStates
  <2>2. FeedbackOf([form EXCEPT !.scenario = s]) = FeedbackOf(form)
    BY <1>1, EditShows
  <2>3. QED
    BY <1>3, <2>1, <2>2 DEF SetScenario, ShowsLess
<1>4. ASSUME NEW v \in TypedAmounts, handleAmountChange(investor.accountId, v)
      PROVE  ShowsLess(form, form') /\ UNCHANGED posts
  <2> DEFINE typed == [form EXCEPT !.amount = v]
  <2>1. /\ typed \in FormStates /\ typed.loading = form.loading /\ typed.mounted = form.mounted
        /\ FeedbackOf(typed) = FeedbackOf(form)
    BY <1>1, EditShows DEF FormStates
  <2>2. \/ form' = typed
        \/ form' = [typed EXCEPT !.amountError = validateAmount(v)]
    BY <1>1, <1>4 DEF handleAmountChange, FormStates
  <2> HIDE DEF typed
  <2>3. FeedbackOf([typed EXCEPT !.amountError = validateAmount(v)]) \subseteq FeedbackOf(typed)
    BY <1>2, <2>1, EditShows
  <2>4. form'.loading = form.loading /\ form'.mounted = form.mounted
    BY <2>1, <2>2 DEF FormStates
  <2>5. QED
    BY <1>4, <2>1, <2>2, <2>3, <2>4 DEF handleAmountChange, ShowsLess
<1>5. CASE handleAmountBlur(investor.accountId)
  <2> DEFINE left == [form EXCEPT !.touched = TRUE]
  <2>1. /\ left \in FormStates /\ left.loading = form.loading /\ left.mounted = form.mounted
        /\ FeedbackOf(left) = FeedbackOf(form)
    BY <1>1, EditShows DEF FormStates
  <2>2. form' = [left EXCEPT !.amountError = validateAmount(form.amount)]
    BY <1>1, <1>5 DEF handleAmountBlur, FormStates
  <2> HIDE DEF left
  <2>3. FeedbackOf([left EXCEPT !.amountError = validateAmount(form.amount)])
          \subseteq FeedbackOf(left)
    BY <1>2, <2>1, EditShows
  <2>4. form'.loading = form.loading /\ form'.mounted = form.mounted
    BY <2>1, <2>2 DEF FormStates
  <2>5. QED
    BY <1>5, <2>1, <2>2, <2>3, <2>4 DEF handleAmountBlur, ShowsLess
<1>6. CASE ChooseImages(investor.accountId)
  <2>1. FeedbackOf([form EXCEPT !.images = TRUE]) = FeedbackOf(form)
    BY <1>1, EditShows
  <2>2. form'.loading = form.loading /\ form'.mounted = form.mounted
    BY <1>1, <1>6 DEF ChooseImages, FormStates
  <2>3. QED
    BY <1>6, <2>1, <2>2 DEF ChooseImages, ShowsLess
<1>7. CASE handleRetake \/ CancelRetake \/ Reauthenticate
  <2>1. /\ FeedbackOf([form EXCEPT !.iqaError = FALSE, !.error = FALSE, !.images = FALSE])
             \subseteq FeedbackOf(form)
        /\ FeedbackOf([form EXCEPT !.iqaError = FALSE, !.result = "none"])
             \subseteq FeedbackOf(form)
        /\ FeedbackOf([form EXCEPT !.needsReauth = FALSE]) \subseteq FeedbackOf(form)
    BY <1>1, EditShows
  <2>2. form'.loading = form.loading /\ form'.mounted = form.mounted
    BY <1>1, <1>7 DEF handleRetake, CancelRetake, Reauthenticate, FormStates
  <2>3. QED
    BY <1>7, <2>1, <2>2 DEF handleRetake, CancelRetake, Reauthenticate, ShowsLess
<1>8. QED
  BY <1>3, <1>4, <1>5, <1>6, <1>7

(* Opening and leaving the form's tab keep its part of the invariant.      *)
LEMMA MountKeeps ==
  ASSUME InvestorTypeInv, FormInv, CentsInv, NEW tab \in InvestorTabs, MountForm(tab),
         investor'.activeTab = tab
  PROVE  FormInv' /\ CentsInv'
<1>1. CASE form' = FreshForm /\ UNCHANGED posts /\ tab = "deposit"
           /\ investor.activeTab # "deposit"
  <2>1. \A p \in posts : ~p.mounted
    BY <1>1 DEF FormInv
  <2>2. Feedback' = {} /\ form'.loading = FALSE /\ form'.mounted
    BY <1>1, FreshFormQuiet, FeedbackHere DEF Quiet
  <2>3. QED
    BY <1>1, <2>1, <2>2 DEF FormInv, CentsInv
<1>2. CASE form' = NoForm /\ posts' = Abandoned /\ tab # "deposit"
  <2>1. \A p \in posts' : ~p.mounted /\ \E q \in posts : p.cents = q.cents
    BY <1>2, AbandonedType
  <2>2. Feedback' = {} /\ form'.loading = FALSE /\ ~form'.mounted
    BY <1>2, FreshFormQuiet, FeedbackHere DEF Quiet
  <2>3. CentsInv'
    BY <2>1 DEF CentsInv
  <2>4. QED
    BY <1>2, <2>1, <2>2, <2>3 DEF FormInv
<1>3. CASE /\ UNCHANGED <<form, posts>>
           /\ investor'.activeTab = "deposit" <=> investor.activeTab = "deposit"
  BY <1>3, FeedbackHere DEF FormInv, CentsInv
<1>4. QED
  BY <1>1, <1>2, <1>3 DEF MountForm

(* So does every step of the form.                                         *)
LEMMA FormStepKeeps ==
  ASSUME InvestorTypeInv, FormInv, CentsInv,
         FormStep(investor.accountId), UNCHANGED investor
  PROVE  FormInv' /\ CentsInv'
<1>1. form \in FormStates /\ posts \subseteq PostStates
  BY DEF InvestorTypeInv
<1>2. ASSUME ShowsLess(form, form'), UNCHANGED posts PROVE FormInv' /\ CentsInv'
  BY <1>2, FeedbackHere DEF FormInv, CentsInv, ShowsLess
<1>3. CASE handleSubmit(investor.accountId)
  <2>1. form.mounted /\ ~form.loading /\ \A p \in posts : ~p.mounted
    BY <1>3 DEF handleSubmit, canSubmit, FormShown, FormInv
  <2>2. CASE form' = [Cleared(form) EXCEPT !.error = TRUE] /\ UNCHANGED posts
    <3>1. Feedback' = {"error"} /\ form'.loading = form.loading /\ form'.mounted = form.mounted
      BY <1>1, <2>2, ClearedShows, FeedbackHere
    <3>2. QED
      BY <2>1, <2>2, <3>1 DEF FormInv, CentsInv
  <2>3. CASE /\ CentsAccepted(Cents(form.amount))
             /\ form' = [Cleared(form) EXCEPT !.loading = TRUE]
             /\ posts' = posts \cup {Request(investor.accountId)}
    <3>1. Feedback' = {} /\ form'.loading /\ form'.mounted = form.mounted
      BY <1>1, <2>3, ClearedShows, FeedbackHere
    <3>2. CentsAccepted(Request(investor.accountId).cents)
      BY <2>3 DEF Request
    <3>3. CentsInv'
      BY <2>3, <3>2 DEF CentsInv
    <3>4. \A p \in posts' : p.mounted => p = Request(investor.accountId)
      BY <2>1, <2>3
    <3>5. QED
      BY <2>1, <3>1, <3>3, <3>4 DEF FormInv
  <2>4. QED
    BY <1>3, <2>2, <2>3 DEF handleSubmit
<1>4. ASSUME NEW p \in posts, PostAnswered(p) PROVE FormInv' /\ CentsInv'
  <2>1. PICK a \in Answers(p) : form' = IF p.mounted THEN AfterAnswer(form, a) ELSE form
    BY <1>4, AnswerOf
  <2>2. posts' = posts \ {p}
    BY <1>4, AnswerOf
  <2>3. CentsInv'
    BY <2>2 DEF CentsInv
  <2>4. CASE p.mounted
    <3>1. FeedbackOf(form) = {} /\ a \in Replies
      BY <1>1, <2>4, AnswersType, FeedbackHere DEF FormInv
    <3>2. /\ \A f, g \in Feedback' : f = g
          /\ ~form'.loading /\ form'.mounted = form.mounted
      BY <1>1, <2>1, <2>4, <3>1, AnswerShows, FeedbackHere
    <3>3. \A q \in posts' : ~q.mounted
      BY <2>2, <2>4 DEF FormInv
    <3>4. QED
      BY <2>3, <3>2, <3>3 DEF FormInv
  <2>5. CASE ~p.mounted
    BY <2>1, <2>2, <2>3, <2>5, FeedbackHere DEF FormInv
  <2>6. QED
    BY <2>4, <2>5
<1>5. QED
  BY <1>2, <1>3, <1>4, EditsShowLess DEF FormStep

(* And every step of the investor's screen.                                *)
LEMMA NextInvestorInv ==
  InvestorTypeInv /\ FormInv /\ CentsInv /\ [InvestorNext]_investorVars
    => FormInv' /\ CentsInv'
<1> SUFFICES ASSUME InvestorTypeInv, FormInv, CentsInv, [InvestorNext]_investorVars
             PROVE  FormInv' /\ CentsInv'
  OBVIOUS
<1>1. investor \in InvestorStates
  BY DEF InvestorTypeInv
<1>2. ASSUME NEW tab \in InvestorTabs, setActiveTab(tab) PROVE FormInv' /\ CentsInv'
  <2>1. investor'.activeTab = tab
    BY <1>1, <1>2 DEF setActiveTab, InvestorStates
  <2>2. QED
    BY <1>2, <2>1, MountKeeps DEF setActiveTab
<1>3. ASSUME NEW a \in AccountIds, setAccountId(a) PROVE FormInv' /\ CentsInv'
  <2>1. investor'.activeTab = investor.activeTab /\ UNCHANGED <<form, posts>>
    BY <1>1, <1>3 DEF setAccountId, InvestorStates
  <2>2. QED
    BY <2>1, FeedbackHere DEF FormInv, CentsInv
<1>4. ASSUME NEW a \in AccountIds, handleStartNewDeposit(a) PROVE FormInv' /\ CentsInv'
  <2>1. investor'.activeTab = "deposit" /\ MountForm("deposit")
    BY <1>1, <1>4 DEF handleStartNewDeposit, InvestorStates
  <2>2. QED
    BY <2>1, MountKeeps DEF InvestorTabs
<1>5. CASE handleDepositSuccess
  <2>1. investor'.activeTab = "deposits" /\ MountForm("deposits")
    BY <1>1, <1>5 DEF handleDepositSuccess, InvestorStates
  <2>2. QED
    BY <2>1, MountKeeps DEF InvestorTabs
<1>6. CASE UNCHANGED investorVars
  BY <1>6, FeedbackHere DEF investorVars, FormInv, CentsInv
<1>7. QED
  BY <1>2, <1>3, <1>4, <1>5, <1>6, FormStepKeeps DEF InvestorNext

(* Initially nothing is shown and nothing is under way.                    *)
LEMMA InitInvestorInv == InvestorInit => FormInv /\ CentsInv
BY FreshFormQuiet, FeedbackHere DEF InvestorInit, FormInv, CentsInv, Quiet

(* A set whose elements are all the same has at most one.                  *)
LEMMA AllTheSame ==
  ASSUME NEW S, \A x, y \in S : x = y
  PROVE  Cardinality(S) <= 1
<1>1. CASE S = {}
  BY <1>1, FS_EmptySet
<1>2. CASE S # {}
  <2>1. PICK x : S = {x}
    BY <1>2
  <2>2. QED
    BY <2>1, FS_Singleton
<1>3. QED
  BY <1>1, <1>2

(* What the invariant says of the form's feedback.                         *)
LEMMA FeedbackAlone == FormInv => OutcomesExclusive
BY AllTheSame DEF FormInv, OutcomesExclusive

(* And of what the server will say.                                        *)
LEMMA CentsPass == InvestorTypeInv /\ CentsInv => FormNeverRefused
<1> SUFFICES ASSUME InvestorTypeInv, CentsInv, NEW p \in posts
             PROVE  PassesHandler(p) /\ \A a \in Verdicts(p) : "over_limit" \notin a.violations
  BY DEF FormNeverRefused
<1>1. p.cents > 0 /\ p.cents <= Limit
  BY DEF CentsInv, CentsAccepted
<1>2. p.cents \in Int /\ Limit \in Int
  BY FundingAssumption DEF InvestorTypeInv, PostStates
<1>3. ~(p.cents > Limit)
  BY <1>1, <1>2
<1>4. \A dup : "over_limit" \notin Violations(p.account, p.cents, dup)
  BY <1>3 DEF Violations
<1>5. /\ \A s : "over_limit" \notin Status(s).violations
      /\ "over_limit" \notin [Status("rejected") EXCEPT
                               !.retake = (p.scenario = "IQA_FAIL")].violations
      /\ \A dup : "over_limit" \notin
                    Refusal("violations", Violations(p.account, p.cents, dup)).violations
  BY <1>4 DEF Status, Refusal
<1>6. PassesHandler(p)
  BY <1>1 DEF PassesHandler
<1>7. QED
  BY <1>5, <1>6 DEF Verdicts

(* At any moment the form shows the outcome of at most one submission, and *)
(* of none while one is under way, whatever the order of answers, retakes, *)
(* sign-ins and visits.                                                    *)
THEOREM OneOutcomeShown == InvestorSpec => []OutcomesExclusive
BY InitInvestorType, InitInvestorInv, NextInvestorType, NextInvestorInv, FeedbackAlone, PTL
   DEF InvestorSpec

(* Nothing the form sends is refused by the handler's checks on the amount *)
(* or by the rule on the limit, for any limit and any amounts.             *)
THEOREM NothingRefusedForItsAmount == InvestorSpec => []FormNeverRefused
BY InitInvestorType, InitInvestorInv, NextInvestorType, NextInvestorInv, CentsPass, PTL
   DEF InvestorSpec
===============================================================================
