----------------------------- MODULE OperatorView -----------------------------
(***************************************************************************)
(* The operator's console (views/OperatorView.jsx): the tabs, and the page *)
(* of one flagged deposit with its three requests.  The queue and the      *)
(* audit log are in Listings.                                              *)
(*                                                                         *)
(* The page works on the copy of the deposit the queue handed it.  It is   *)
(* mounted afresh whenever its tab is opened; an answer to a page that is  *)
(* gone sets nothing on it, but still tells the parent that the action is  *)
(* complete.  What the server makes of a ruling is in CheckDeposit; here   *)
(* it may grant or refuse any, since another operator may have come first. *)
(***************************************************************************)
EXTENDS Naturals, FiniteSets, Api

CONSTANTS Flagged,        \* the deposits the queue shows
          Mismatches,     \* those flagged for an amount mismatch
          NoDeposit,      \* no deposit; no amount
          NoNumber,       \* a verified amount that is not a positive number
          OpCalls,        \* bound: requests under way at once
          PageVisits      \* bound: times the page is opened

ASSUME OperatorAssumption ==
  /\ Mismatches \subseteq Flagged /\ NoDeposit \notin Flagged /\ NoNumber \notin Flagged
  /\ {OpCalls, PageVisits} \subseteq Nat

VARIABLES console,   \* OperatorView and its page
          opCalls,   \* the requests under way
          visitsLeft

operatorVars == <<console, opCalls, visitsLeft>>

(* The verified amount is known by the page it was typed on.  `ctOverride' *)
(* says whether a contribution type is chosen; it may start with the one   *)
(* the deposit has, which is what choosing one on the fresh page comes to. *)
FreshPage ==
  [approving |-> FALSE, rejecting |-> FALSE, showRejectForm |-> FALSE,
   finalReason |-> FALSE, actionError |-> FALSE, verifiedAmount |-> NoDeposit,
   lightbox |-> FALSE, ctOverride |-> FALSE, ctLoading |-> FALSE]

Pages ==
  [approving : BOOLEAN, rejecting : BOOLEAN, showRejectForm : BOOLEAN,
   finalReason : BOOLEAN, actionError : BOOLEAN,
   verifiedAmount : Flagged \cup {NoDeposit, NoNumber},
   lightbox : BOOLEAN, ctOverride : BOOLEAN, ctLoading : BOOLEAN]

OperatorTypeOK ==
  /\ console \in [activeTab : {"queue", "detail", "audit"},
                  selectedDeposit : Flagged \cup {NoDeposit}, page : Pages]
  /\ opCalls \subseteq [tag : 1 .. OpCalls, kind : {"approve", "reject", "override"},
                        id : Flagged, verified : Flagged \cup {NoDeposit, NoNumber},
                        mounted : BOOLEAN]
  /\ visitsLeft \in 0 .. PageVisits

OperatorInit ==
  /\ opCalls = {} /\ visitsLeft = PageVisits
  /\ console = [activeTab |-> "queue", selectedDeposit |-> NoDeposit, page |-> FreshPage]

-------------------------------------------------------------------------------
page == console.page
id == console.selectedDeposit
isMismatchDeposit == id \in Mismatches

(* The page is on the screen, and no enlarged image covers it.             *)
PageOpen == console.activeTab = "detail" /\ id # NoDeposit
Clickable == PageOpen /\ ~page.lightbox

VerifiedAmountIsPositive == page.verifiedAmount \notin {NoDeposit, NoNumber}
canApprove == ~isMismatchDeposit \/ VerifiedAmountIsPositive

Set(p) == console' = [console EXCEPT !.page = p]

(* Mutant: the page of the next deposit keeps the amount typed.            *)
MountedWithAmount(c) ==
  [c EXCEPT !.page = [FreshPage EXCEPT !.verifiedAmount = c.page.verifiedAmount]]

(* What a page starts with, by its state hooks and its reset effect.       *)
Mounted(c) == [c EXCEPT !.page = FreshPage]

Detached(calls) == {[c EXCEPT !.mounted = FALSE] : c \in calls}

FreeTags == {t \in 1 .. OpCalls : \A c \in opCalls : c.tag # t}

Ask(kind) ==
  /\ FreeTags # {}
  /\ opCalls' = opCalls \cup
       {[tag |-> CHOOSE t \in FreeTags : TRUE, kind |-> kind, id |-> id,
         verified |-> page.verifiedAmount, mounted |-> TRUE]}

-------------------------------------------------------------------------------
(* A row of the queue, which may have been ruled on since it was fetched.  *)
handleSelectDeposit(d) ==
  /\ console.activeTab = "queue" /\ visitsLeft > 0
  /\ console' = Mounted([console EXCEPT !.selectedDeposit = d, !.activeTab = "detail"])
  /\ visitsLeft' = visitsLeft - 1
  /\ UNCHANGED opCalls

(* A tab, or "Back to queue"; the selection is kept.                       *)
setOperatorTab(tab) ==
  /\ tab # console.activeTab
  /\ tab = "detail" => visitsLeft > 0
  /\ console' = Mounted([console EXCEPT !.activeTab = tab])
  /\ visitsLeft' = IF tab = "detail" THEN visitsLeft - 1 ELSE visitsLeft
  /\ opCalls' = IF console.activeTab = "detail" THEN Detached(opCalls) ELSE opCalls

ToggleLightbox ==
  /\ PageOpen
  /\ Set([page EXCEPT !.lightbox = ~@])
  /\ UNCHANGED <<opCalls, visitsLeft>>

(* The amount resolution of a mismatch: investor's, OCR's or typed.        *)
setVerifiedAmount(v) ==
  /\ Clickable /\ isMismatchDeposit /\ v # page.verifiedAmount
  /\ Set([page EXCEPT !.verifiedAmount = v])
  /\ UNCHANGED <<opCalls, visitsLeft>>

(* Mutant: a rejection under way does not disable the approval.            *)
ApproveWhileRejecting ==
  Clickable /\ canApprove /\ ~page.approving /\ ~page.showRejectForm

ApproveEnabled ==
  /\ Clickable /\ canApprove
  /\ ~page.approving /\ ~page.rejecting /\ ~page.showRejectForm

(* A declined window.confirm leaves everything as it is.                   *)
handleApprove ==
  /\ ApproveEnabled
  /\ Ask("approve")
  /\ Set([page EXCEPT !.approving = TRUE, !.actionError = FALSE])
  /\ UNCHANGED visitsLeft

(* "Reject Deposit" opens and closes the form, "Cancel" closes it.         *)
ToggleEnabled == Clickable /\ ~page.approving

ToggleRejectForm ==
  /\ ToggleEnabled
  /\ Set([page EXCEPT !.showRejectForm = ~@, !.finalReason = FALSE])
  /\ UNCHANGED <<opCalls, visitsLeft>>

(* A listed reason is one at once; "Other" is one when it is specified.    *)
SetFinalReason(given) ==
  /\ Clickable /\ page.showRejectForm /\ given # page.finalReason
  /\ Set([page EXCEPT !.finalReason = given])
  /\ UNCHANGED <<opCalls, visitsLeft>>

handleReject ==
  /\ Clickable /\ page.showRejectForm /\ ~page.rejecting /\ page.finalReason
  /\ Ask("reject")
  /\ Set([page EXCEPT !.rejecting = TRUE, !.actionError = FALSE])
  /\ UNCHANGED visitsLeft

(* The override of the contribution type: a type is chosen, then sent.  No *)
(* outcome of it changes what the page lets the operator do.               *)
setCtOverride ==
  /\ Clickable
  /\ Set([page EXCEPT !.ctOverride = ~@])
  /\ UNCHANGED <<opCalls, visitsLeft>>

handleCtOverride ==
  /\ Clickable /\ page.ctOverride /\ ~page.ctLoading
  /\ Ask("override")
  /\ Set([page EXCEPT !.ctLoading = TRUE])
  /\ UNCHANGED visitsLeft

-------------------------------------------------------------------------------
(* The server rejects an approved mismatch without an amount.              *)
Permitted(c) == (c.kind = "approve" /\ c.id \in Mismatches) => c.verified \in Flagged

OpRoute(kind) ==
  CASE kind = "approve"  -> OperatorCalls.approveDeposit
    [] kind = "reject"   -> OperatorCalls.rejectDeposit
    [] kind = "override" -> OperatorCalls.overrideContributionType

(* The end of a ruling.  handleActionComplete closes whatever is open.     *)
ActionComplete ==
  Mounted([console EXCEPT !.selectedDeposit = NoDeposit, !.activeTab = "queue"])

EndOfCall(p, kind, ok) ==
  CASE kind = "approve"  -> [p EXCEPT !.approving = FALSE, !.actionError = @ \/ ~ok]
    [] kind = "reject"   -> [p EXCEPT !.rejecting = FALSE, !.actionError = @ \/ ~ok]
    [] kind = "override" -> [p EXCEPT !.ctLoading = FALSE]

OpAnswered(c) ==
  /\ c \in opCalls
  /\ \E refused \in BOOLEAN :
       LET ok == handleResponse(OpRoute(c.kind), refused \/ ~Permitted(c)) = "resolved"
           rest == opCalls \ {c}
       IN  IF ok /\ c.kind # "override"
           THEN console' = ActionComplete /\ opCalls' = Detached(rest)
           ELSE /\ opCalls' = rest
                /\ IF c.mounted THEN Set(EndOfCall(page, c.kind, ok)) ELSE UNCHANGED console
  /\ UNCHANGED visitsLeft

OperatorNext ==
  \/ \E d \in Flagged : handleSelectDeposit(d)
  \/ \E tab \in {"queue", "detail", "audit"} : setOperatorTab(tab)
  \/ ToggleLightbox
  \/ \E v \in {id, NoNumber, NoDeposit} : setVerifiedAmount(v)
  \/ handleApprove
  \/ ToggleRejectForm
  \/ \E given \in BOOLEAN : SetFinalReason(given)
  \/ handleReject
  \/ setCtOverride
  \/ handleCtOverride
  \/ \E c \in opCalls : OpAnswered(c)

OperatorSpec == OperatorInit /\ [][OperatorNext]_operatorVars

-------------------------------------------------------------------------------
Rulings == {c \in opCalls : c.mounted /\ c.kind \in {"approve", "reject"}}

(* A page never has two rulings under way, neither twice the same nor an   *)
(* approval beside a rejection, although the rejection form can be opened, *)
(* closed and opened again while one of them is being answered.            *)
OneRulingPerVisit == Cardinality(Rulings) <= 1

(* An approved mismatch carries an amount that was entered on the page of  *)
(* that very deposit: none is left over from the deposit looked at before. *)
VerifiedForThisDeposit ==
  \A c \in opCalls :
    (c.kind = "approve" /\ c.id \in Mismatches) => c.verified = c.id
===============================================================================
