---------------------------- MODULE ConsoleProofs -----------------------------
(***************************************************************************)
(* Proofs about the operator's and the administrator's consoles, for any   *)
(* number of deposits, requests and visits: what the flags of a page       *)
(* guarantee about the requests it has under way.                          *)
(***************************************************************************)
EXTENDS OperatorView, AdminView, FiniteSetTheorems, TLAPS

(* The operator's console.                                                 *)

(* A set with at most one element has that cardinality.                    *)
LEMMA AtMostOne ==
  ASSUME NEW S, \A x, y \in S : x = y
  PROVE  Cardinality(S) <= 1
<1>1. CASE S = {}
  BY <1>1, FS_EmptySet
<1>2. CASE S # {}
  <2>1. PICK x : S = {x}
    BY <1>2
  <2>2. QED
    BY <2>1, FS_Singleton
<1>3. QED
  BY <1>1, <1>2

OpRequests ==
  [tag : 1 .. OpCalls, kind : {"approve", "reject", "override"}, id : Flagged,
   verified : Flagged \cup {NoDeposit, NoNumber}, mounted : BOOLEAN]

(* A page starts well typed.                                               *)
LEMMA FreshPageType == FreshPage \in Pages
BY DEF FreshPage, Pages

(* Leaving a page keeps its requests, which are its own no longer.         *)
LEMMA DetachedType ==
  ASSUME NEW calls \in SUBSET OpRequests
  PROVE  /\ Detached(calls) \subseteq OpRequests
         /\ \A c \in Detached(calls) :
              /\ ~c.mounted
              /\ \E e \in calls : c.kind = e.kind /\ c.id = e.id /\ c.verified = e.verified
BY DEF Detached, OpRequests

(* A request is sent with what the open page shows.                        *)
LEMMA AskType ==
  ASSUME OperatorTypeOK, NEW kind \in {"approve", "reject", "override"}, PageOpen, Ask(kind)
  PROVE  \E c \in OpRequests :
           /\ opCalls' = opCalls \cup {c}
           /\ c.kind = kind /\ c.id = id /\ c.verified = page.verifiedAmount /\ c.mounted
<1>1. (CHOOSE t \in FreeTags : TRUE) \in 1 .. OpCalls
  BY DEF Ask, FreeTags
<1>2. id \in Flagged /\ page.verifiedAmount \in Flagged \cup {NoDeposit, NoNumber}
  BY DEF OperatorTypeOK, Pages, PageOpen, id, page
<1> DEFINE c == [tag |-> CHOOSE t \in FreeTags : TRUE, kind |-> kind, id |-> id,
                 verified |-> page.verifiedAmount, mounted |-> TRUE]
<1>3. c \in OpRequests
  BY <1>1, <1>2 DEF OpRequests
<1>4. opCalls' = opCalls \cup {c}
  BY DEF Ask
<1>5. c.kind = kind /\ c.id = id /\ c.verified = page.verifiedAmount /\ c.mounted
  OBVIOUS
<1> HIDE DEF c
<1>6. QED
  BY <1>3, <1>4, <1>5

(* The verified amount was entered on the page of the selected deposit; an *)
(* approved mismatch carries it; and a page has a ruling under way only    *)
(* while it says so, with the rejection form closed during an approval.    *)
OperatorInv ==
  /\ page.verifiedAmount \in {id, NoDeposit, NoNumber}
  /\ ~(page.approving /\ page.showRejectForm)
  /\ VerifiedForThisDeposit
  /\ \A c \in Rulings :
       /\ console.activeTab = "detail"
       /\ c.kind = "approve" => page.approving
       /\ c.kind = "reject" => page.rejecting
  /\ \A c, e \in Rulings : c = e

(* Leaving a page, by a tab or at the end of a ruling, keeps the           *)
(* invariant: whatever opens next is fresh and has nothing under way.      *)
LEMMA LeavingKeeps ==
  ASSUME OperatorInv, page' = FreshPage, Rulings' = {},
         \A c \in opCalls' : \E e \in opCalls :
           c.kind = e.kind /\ c.id = e.id /\ c.verified = e.verified
  PROVE  OperatorInv'
<1>1. VerifiedForThisDeposit'
  BY DEF OperatorInv, VerifiedForThisDeposit
<1>2. page'.verifiedAmount = NoDeposit /\ ~page'.approving
  BY DEF FreshPage
<1>3. QED
  BY <1>1, <1>2 DEF OperatorInv

(* So does editing the open page within what its controls allow.           *)
LEMMA EditKeeps ==
  ASSUME OperatorTypeOK, OperatorInv, NEW p \in Pages, Set(p), UNCHANGED opCalls,
         p.verifiedAmount \in {id, NoDeposit, NoNumber},
         p.approving = page.approving, p.rejecting = page.rejecting,
         ~(p.approving /\ p.showRejectForm)
  PROVE  OperatorInv'
<1>1. /\ page' = p /\ id' = id /\ console'.activeTab = console.activeTab
      /\ Rulings' = Rulings
  BY DEF OperatorTypeOK, Set, page, id, Rulings
<1>2. VerifiedForThisDeposit'
  BY DEF OperatorInv, VerifiedForThisDeposit
<1>3. QED
  BY <1>1, <1>2 DEF OperatorInv

(* The end of a request leaves a page a page.                              *)
LEMMA EndType ==
  ASSUME NEW p \in Pages, NEW kind \in {"approve", "reject", "override"}, NEW ok \in BOOLEAN
  PROVE  /\ EndOfCall(p, kind, ok) \in Pages
         /\ EndOfCall(p, kind, ok).verifiedAmount = p.verifiedAmount
         /\ EndOfCall(p, kind, ok).showRejectForm = p.showRejectForm
         /\ EndOfCall(p, kind, ok).approving = (p.approving /\ kind # "approve")
         /\ EndOfCall(p, kind, ok).rejecting = (p.rejecting /\ kind # "reject")
<1>1. CASE kind = "approve"
  BY <1>1 DEF EndOfCall, Pages
<1>2. CASE kind = "reject"
  BY <1>2 DEF EndOfCall, Pages
<1>3. CASE kind = "override"
  BY <1>3 DEF EndOfCall, Pages
<1>4. QED
  BY <1>1, <1>2, <1>3

(* The answer to a request either completes a ruling or ends the request.  *)
LEMMA AnswerCases ==
  ASSUME NEW c, OpAnswered(c)
  PROVE  /\ c \in opCalls /\ UNCHANGED visitsLeft
         /\ \/ console' = ActionComplete /\ opCalls' = Detached(opCalls \ {c})
            \/ /\ opCalls' = opCalls \ {c}
               /\ \/ /\ c.mounted
                     /\ \E granted \in BOOLEAN : Set(EndOfCall(page, c.kind, granted))
                  \/ ~c.mounted /\ UNCHANGED console
<1>1. PICK refused \in BOOLEAN :
        LET ok == handleResponse(OpRoute(c.kind), refused \/ ~Permitted(c)) = "resolved"
            rest == opCalls \ {c}
        IN  IF ok /\ c.kind # "override"
            THEN console' = ActionComplete /\ opCalls' = Detached(rest)
            ELSE /\ opCalls' = rest
                 /\ IF c.mounted THEN Set(EndOfCall(page, c.kind, ok)) ELSE UNCHANGED console
  BY DEF OpAnswered
<1> DEFINE ok == handleResponse(OpRoute(c.kind), refused \/ ~Permitted(c)) = "resolved"
<1>2. ok \in BOOLEAN
  OBVIOUS
<1>3. IF ok /\ c.kind # "override"
      THEN console' = ActionComplete /\ opCalls' = Detached(opCalls \ {c})
      ELSE /\ opCalls' = opCalls \ {c}
           /\ IF c.mounted THEN Set(EndOfCall(page, c.kind, ok)) ELSE UNCHANGED console
  BY <1>1
<1>4. c \in opCalls /\ UNCHANGED visitsLeft
  BY DEF OpAnswered
<1> HIDE DEF ok
<1>5. CASE ok /\ c.kind # "override"
  BY <1>3, <1>4, <1>5
<1>6. CASE ~(ok /\ c.kind # "override") /\ c.mounted
  <2>1. opCalls' = opCalls \ {c} /\ Set(EndOfCall(page, c.kind, ok))
    BY <1>3, <1>6
  <2>2. \E granted \in BOOLEAN : Set(EndOfCall(page, c.kind, granted))
    BY <1>2, <2>1
  <2>3. QED
    BY <1>4, <1>6, <2>1, <2>2
<1>7. CASE ~(ok /\ c.kind # "override") /\ ~c.mounted
  BY <1>3, <1>4, <1>7
<1>8. QED
  BY <1>5, <1>6, <1>7

(* Every step of the console keeps the types.                              *)
LEMMA NextOperatorType == OperatorTypeOK /\ [OperatorNext]_operatorVars => OperatorTypeOK'
<1> SUFFICES ASSUME OperatorTypeOK, [OperatorNext]_operatorVars PROVE OperatorTypeOK'
  OBVIOUS
<1>1. ASSUME NEW p \in Pages, Set(p), opCalls' \subseteq OpRequests, UNCHANGED visitsLeft
      PROVE  OperatorTypeOK'
  BY <1>1 DEF Set, OperatorTypeOK, OpRequests
<1>2. page \in Pages /\ opCalls \subseteq OpRequests /\ (PageOpen => id \in Flagged)
  BY DEF OperatorTypeOK, OpRequests, page, id, PageOpen
<1>3. ASSUME NEW d \in Flagged, handleSelectDeposit(d) PROVE OperatorTypeOK'
  <2>1. visitsLeft' \in 0 .. PageVisits
    BY <1>3, OperatorAssumption DEF handleSelectDeposit, OperatorTypeOK
  <2>2. console' \in [activeTab : {"queue", "detail", "audit"},
                      selectedDeposit : Flagged \cup {NoDeposit}, page : Pages]
    BY <1>3, FreshPageType DEF handleSelectDeposit, Mounted, OperatorTypeOK
  <2>3. QED
    BY <1>3, <2>1, <2>2 DEF handleSelectDeposit, OperatorTypeOK
<1>4. ASSUME NEW tab \in {"queue", "detail", "audit"}, setOperatorTab(tab)
      PROVE  OperatorTypeOK'
  <2>1. opCalls' \subseteq OpRequests
    BY <1>2, <1>4, DetachedType DEF setOperatorTab
  <2>2. visitsLeft' \in 0 .. PageVisits
    BY <1>4, OperatorAssumption DEF setOperatorTab, OperatorTypeOK
  <2>3. QED
    BY <1>4, <2>1, <2>2, FreshPageType DEF setOperatorTab, Mounted, OperatorTypeOK, OpRequests
<1>5. CASE ToggleLightbox
  <2>1. [page EXCEPT !.lightbox = ~@] \in Pages
    BY <1>2 DEF Pages
  <2>2. QED
    BY <1>1, <1>2, <1>5, <2>1 DEF ToggleLightbox
<1>6. ASSUME NEW v \in {id, NoNumber, NoDeposit}, setVerifiedAmount(v) PROVE OperatorTypeOK'
  <2>1. [page EXCEPT !.verifiedAmount = v] \in Pages
    BY <1>2, <1>6 DEF Pages, setVerifiedAmount, Clickable
  <2>2. QED
    BY <1>1, <1>2, <1>6, <2>1 DEF setVerifiedAmount
<1>7. CASE handleApprove
  <2>1. [page EXCEPT !.approving = TRUE, !.actionError = FALSE] \in Pages
    BY <1>2 DEF Pages
  <2>2. opCalls' \subseteq OpRequests
    BY <1>2, <1>7, AskType DEF handleApprove, ApproveEnabled, Clickable
  <2>3. QED
    BY <1>1, <1>7, <2>1, <2>2 DEF handleApprove
<1>8. CASE ToggleRejectForm
  <2>1. [page EXCEPT !.showRejectForm = ~@, !.finalReason = FALSE] \in Pages
    BY <1>2 DEF Pages
  <2>2. QED
    BY <1>1, <1>2, <1>8, <2>1 DEF ToggleRejectForm
<1>9. ASSUME NEW given \in BOOLEAN, SetFinalReason(given) PROVE OperatorTypeOK'
  <2>1. [page EXCEPT !.finalReason = given] \in Pages
    BY <1>2 DEF Pages
  <2>2. QED
    BY <1>1, <1>2, <1>9, <2>1 DEF SetFinalReason
<1>10. CASE handleReject
  <2>1. [page EXCEPT !.rejecting = TRUE, !.actionError = FALSE] \in Pages
    BY <1>2 DEF Pages
  <2>2. opCalls' \subseteq OpRequests
    BY <1>2, <1>10, AskType DEF handleReject, Clickable
  <2>3. QED
    BY <1>1, <1>10, <2>1, <2>2 DEF handleReject
<1>11. CASE setCtOverride
  <2>1. [page EXCEPT !.ctOverride = ~@] \in Pages
    BY <1>2 DEF Pages
  <2>2. QED
    BY <1>1, <1>2, <1>11, <2>1 DEF setCtOverride
<1>12. CASE handleCtOverride
  <2>1. [page EXCEPT !.ctLoading = TRUE] \in Pages
    BY <1>2 DEF Pages
  <2>2. opCalls' \subseteq OpRequests
    BY <1>2, <1>12, AskType DEF handleCtOverride, Clickable
  <2>3. QED
    BY <1>1, <1>12, <2>1, <2>2 DEF handleCtOverride
<1>13. ASSUME NEW c \in opCalls, OpAnswered(c) PROVE OperatorTypeOK'
  <2>1. c.kind \in {"approve", "reject", "override"}
    BY <1>2 DEF OpRequests
  <2>2. CASE console' = ActionComplete /\ opCalls' = Detached(opCalls \ {c})
    <3>1. opCalls' \subseteq OpRequests /\ UNCHANGED visitsLeft
      BY <1>2, <1>13, <2>2, AnswerCases, DetachedType
    <3>2. QED
      BY <2>2, <3>1, FreshPageType DEF ActionComplete, Mounted, OperatorTypeOK, OpRequests
  <2>3. ASSUME opCalls' = opCalls \ {c}, NEW ok \in BOOLEAN, Set(EndOfCall(page, c.kind, ok))
        PROVE  OperatorTypeOK'
    <3>1. EndOfCall(page, c.kind, ok) \in Pages
      BY <1>2, <2>1, EndType
    <3>2. opCalls' \subseteq OpRequests /\ UNCHANGED visitsLeft
      BY <1>2, <1>13, <2>3, AnswerCases
    <3>3. QED
      BY <1>1, <2>3, <3>1, <3>2
  <2>4. CASE opCalls' = opCalls \ {c} /\ UNCHANGED console
    <3>1. UNCHANGED visitsLeft
      BY <1>13, AnswerCases
    <3>2. QED
      BY <2>4, <3>1 DEF OperatorTypeOK
  <2>5. QED
    BY <1>13, <2>2, <2>3, <2>4, AnswerCases
<1>14. CASE UNCHANGED operatorVars
  BY <1>14 DEF operatorVars, OperatorTypeOK
<1>15. QED
  BY <1>3, <1>4, <1>5, <1>6, <1>7, <1>8, <1>9, <1>10, <1>11, <1>12, <1>13, <1>14
     DEF OperatorNext

(* A ruling sent from a page that has none under way, with the flag of its *)
(* button set, keeps the invariant.                                        *)
LEMMA RulingKeeps ==
  ASSUME OperatorTypeOK, OperatorInv, PageOpen, ~page.approving, ~page.rejecting,
         NEW kind \in {"approve", "reject"}, Ask(kind),
         kind = "approve" => canApprove /\ ~page.showRejectForm,
         NEW p \in Pages, Set(p), p.verifiedAmount = page.verifiedAmount,
         p.showRejectForm = page.showRejectForm,
         p.approving = (kind = "approve"), p.rejecting = (kind = "reject")
  PROVE  OperatorInv'
<1>1. PICK c \in OpRequests :
        /\ opCalls' = opCalls \cup {c}
        /\ c.kind = kind /\ c.id = id /\ c.verified = page.verifiedAmount /\ c.mounted
  BY AskType
<1>2. page' = p /\ id' = id /\ console'.activeTab = "detail"
  BY DEF OperatorTypeOK, Set, page, id, PageOpen
<1>3. Rulings = {}
  BY DEF OperatorInv, Rulings
<1>4. Rulings' = {c}
  BY <1>1, <1>3 DEF Rulings
<1>5. VerifiedForThisDeposit'
  <2>1. (c.kind = "approve" /\ c.id \in Mismatches) => c.verified = c.id
    BY <1>1 DEF canApprove, isMismatchDeposit, VerifiedAmountIsPositive, OperatorInv
  <2>2. QED
    BY <1>1, <2>1 DEF OperatorInv, VerifiedForThisDeposit
<1>6. ~(p.approving /\ p.showRejectForm)
  OBVIOUS
<1>7. QED
  BY <1>1, <1>2, <1>4, <1>5, <1>6 DEF OperatorInv

(* Every step of the console keeps the invariant.                          *)
LEMMA NextOperatorInv ==
  OperatorTypeOK /\ OperatorInv /\ [OperatorNext]_operatorVars => OperatorInv'
<1> SUFFICES ASSUME OperatorTypeOK, OperatorInv, [OperatorNext]_operatorVars
             PROVE  OperatorInv'
  OBVIOUS
<1>1. /\ page \in Pages /\ opCalls \subseteq OpRequests
      /\ page.verifiedAmount \in {id, NoDeposit, NoNumber}
      /\ ~(page.approving /\ page.showRejectForm)
  BY DEF OperatorTypeOK, OperatorInv, OpRequests, page
<1>2. ASSUME NEW d \in Flagged, handleSelectDeposit(d) PROVE OperatorInv'
  <2>1. page' = FreshPage
    BY <1>2 DEF handleSelectDeposit, Mounted, page, OperatorTypeOK
  <2>2. opCalls' = opCalls /\ Rulings' = {}
    BY <1>2 DEF handleSelectDeposit, OperatorInv, Rulings
  <2>3. QED
    BY <2>1, <2>2, LeavingKeeps
<1>3. ASSUME NEW tab \in {"queue", "detail", "audit"}, setOperatorTab(tab) PROVE OperatorInv'
  <2>1. page' = FreshPage
    BY <1>3 DEF setOperatorTab, Mounted, page, OperatorTypeOK
  <2>2. CASE console.activeTab = "detail"
    <3>1. opCalls' = Detached(opCalls)
      BY <1>3, <2>2 DEF setOperatorTab
    <3>2. Rulings' = {}
      BY <1>1, <3>1, DetachedType DEF Rulings
    <3>3. QED
      BY <1>1, <2>1, <3>1, <3>2, DetachedType, LeavingKeeps
  <2>3. CASE console.activeTab # "detail"
    <3>1. opCalls' = opCalls
      BY <1>3, <2>3 DEF setOperatorTab
    <3>2. Rulings' = {}
      BY <2>3, <3>1 DEF Rulings, OperatorInv
    <3>3. QED
      BY <2>1, <3>1, <3>2, LeavingKeeps
  <2>4. QED
    BY <2>2, <2>3
<1>4. CASE ToggleLightbox
  <2> DEFINE p == [page EXCEPT !.lightbox = ~@]
  <2>1. /\ p \in Pages /\ p.verifiedAmount = page.verifiedAmount
        /\ p.approving = page.approving /\ p.rejecting = page.rejecting
        /\ p.showRejectForm = page.showRejectForm
    BY <1>1 DEF Pages
  <2> HIDE DEF p
  <2>2. QED
    BY <1>1, <1>4, <2>1, EditKeeps DEF ToggleLightbox, p
<1>5. ASSUME NEW v \in {id, NoNumber, NoDeposit}, setVerifiedAmount(v) PROVE OperatorInv'
  <2> DEFINE p == [page EXCEPT !.verifiedAmount = v]
  <2>1. id \in Flagged /\ Set(p) /\ UNCHANGED opCalls
    BY <1>5 DEF setVerifiedAmount, Clickable, PageOpen, OperatorTypeOK, id
  <2>2. /\ p \in Pages /\ p.verifiedAmount = v
        /\ p.approving = page.approving /\ p.rejecting = page.rejecting
        /\ p.showRejectForm = page.showRejectForm
    BY <1>1, <2>1 DEF Pages
  <2> HIDE DEF p
  <2>3. QED
    BY <1>1, <2>1, <2>2, EditKeeps
<1>6. CASE handleApprove
  <2> DEFINE p == [page EXCEPT !.approving = TRUE, !.actionError = FALSE]
  <2>1. /\ p \in Pages /\ p.verifiedAmount = page.verifiedAmount
        /\ p.showRejectForm = page.showRejectForm
        /\ p.approving /\ p.rejecting = page.rejecting
    BY <1>1 DEF Pages
  <2>2. /\ Ask("approve") /\ Set(p) /\ PageOpen /\ canApprove
        /\ ~page.approving /\ ~page.rejecting /\ ~page.showRejectForm
    BY <1>6 DEF handleApprove, ApproveEnabled, Clickable
  <2> HIDE DEF p
  <2>3. p.approving = ("approve" = "approve") /\ p.rejecting = ("approve" = "reject")
    BY <1>1, <2>1, <2>2 DEF Pages
  <2>4. QED
    BY <2>1, <2>2, <2>3, RulingKeeps
<1>7. CASE ToggleRejectForm
  <2> DEFINE p == [page EXCEPT !.showRejectForm = ~@, !.finalReason = FALSE]
  <2>1. /\ p \in Pages /\ p.verifiedAmount = page.verifiedAmount
        /\ p.approving = page.approving /\ p.rejecting = page.rejecting
    BY <1>1 DEF Pages
  <2>2. Set(p) /\ UNCHANGED opCalls /\ ~page.approving
    BY <1>7 DEF ToggleRejectForm, ToggleEnabled
  <2> HIDE DEF p
  <2>3. QED
    BY <1>1, <2>1, <2>2, EditKeeps
<1>8. ASSUME NEW given \in BOOLEAN, SetFinalReason(given) PROVE OperatorInv'
  <2> DEFINE p == [page EXCEPT !.finalReason = given]
  <2>1. /\ p \in Pages /\ p.verifiedAmount = page.verifiedAmount
        /\ p.approving = page.approving /\ p.rejecting = page.rejecting
        /\ p.showRejectForm = page.showRejectForm
    BY <1>1 DEF Pages
  <2>2. Set(p) /\ UNCHANGED opCalls
    BY <1>8 DEF SetFinalReason
  <2> HIDE DEF p
  <2>3. QED
    BY <1>1, <2>1, <2>2, EditKeeps
<1>9. CASE handleReject
  <2> DEFINE p == [page EXCEPT !.rejecting = TRUE, !.actionError = FALSE]
  <2>1. /\ p \in Pages /\ p.verifiedAmount = page.verifiedAmount
        /\ p.showRejectForm = page.showRejectForm
        /\ p.approving = page.approving /\ p.rejecting
    BY <1>1 DEF Pages
  <2>2. /\ Ask("reject") /\ Set(p) /\ PageOpen /\ ~page.approving /\ ~page.rejecting
    BY <1>1, <1>9 DEF handleReject, Clickable
  <2> HIDE DEF p
  <2>3. p.approving = ("reject" = "approve") /\ p.rejecting = ("reject" = "reject")
    BY <1>1, <2>1, <2>2 DEF Pages
  <2>4. QED
    BY <2>1, <2>2, <2>3, RulingKeeps
<1>10. CASE setCtOverride
  <2> DEFINE p == [page EXCEPT !.ctOverride = ~@]
  <2>1. /\ p \in Pages /\ p.verifiedAmount = page.verifiedAmount
        /\ p.approving = page.approving /\ p.rejecting = page.rejecting
        /\ p.showRejectForm = page.showRejectForm
    BY <1>1 DEF Pages
  <2>2. Set(p) /\ UNCHANGED opCalls
    BY <1>10 DEF setCtOverride
  <2> HIDE DEF p
  <2>3. QED
    BY <1>1, <2>1, <2>2, EditKeeps
<1>11. CASE handleCtOverride
  <2>1. PICK c \in OpRequests : opCalls' = opCalls \cup {c} /\ c.kind = "override"
    BY <1>11, AskType DEF handleCtOverride, Clickable
  <2>2. /\ id' = id /\ console'.activeTab = console.activeTab
        /\ page' = [page EXCEPT !.ctLoading = TRUE]
    BY <1>11 DEF handleCtOverride, Set, OperatorTypeOK, id, page
  <2>3. /\ page'.verifiedAmount = page.verifiedAmount
        /\ page'.approving = page.approving /\ page'.rejecting = page.rejecting
        /\ page'.showRejectForm = page.showRejectForm
    BY <1>1, <2>2 DEF Pages
  <2>4. Rulings' = Rulings /\ VerifiedForThisDeposit'
    BY <2>1 DEF Rulings, VerifiedForThisDeposit, OperatorInv
  <2>5. QED
    BY <1>1, <2>2, <2>3, <2>4 DEF OperatorInv
<1>12. ASSUME NEW c \in opCalls, OpAnswered(c) PROVE OperatorInv'
  <2>1. c.kind \in {"approve", "reject", "override"}
    BY <1>1 DEF OpRequests
  <2>2. CASE console' = ActionComplete /\ opCalls' = Detached(opCalls \ {c})
    <3>1. page' = FreshPage
      BY <2>2 DEF ActionComplete, Mounted, page, OperatorTypeOK
    <3>2. opCalls \ {c} \in SUBSET OpRequests
      BY <1>1
    <3>3. \A b \in opCalls' :
            /\ ~b.mounted
            /\ \E e \in opCalls : b.kind = e.kind /\ b.id = e.id /\ b.verified = e.verified
      BY <2>2, <3>2, DetachedType
    <3>4. QED
      BY <3>1, <3>3, LeavingKeeps DEF Rulings
  <2>3. ASSUME opCalls' = opCalls \ {c}, c.mounted,
               NEW ok \in BOOLEAN, Set(EndOfCall(page, c.kind, ok))
        PROVE  OperatorInv'
    <3>1. /\ id' = id /\ console'.activeTab = console.activeTab
          /\ page' = EndOfCall(page, c.kind, ok)
      BY <2>3 DEF Set, OperatorTypeOK, id, page
    <3>2. /\ page'.verifiedAmount = page.verifiedAmount
          /\ page'.showRejectForm = page.showRejectForm
          /\ page'.approving = (page.approving /\ c.kind # "approve")
          /\ page'.rejecting = (page.rejecting /\ c.kind # "reject")
      BY <1>1, <2>1, <3>1, EndType
    <3>3. Rulings' = Rulings \ {c} /\ VerifiedForThisDeposit'
      BY <2>3 DEF Rulings, VerifiedForThisDeposit, OperatorInv
    <3>4. c.kind \in {"approve", "reject"} => Rulings' = {}
      BY <2>3, <3>3 DEF OperatorInv, Rulings
    <3>5. \A e \in Rulings' :
            /\ console'.activeTab = "detail"
            /\ e.kind = "approve" => page'.approving
            /\ e.kind = "reject" => page'.rejecting
      BY <2>1, <3>1, <3>2, <3>3, <3>4 DEF OperatorInv
    <3>6. QED
      BY <1>1, <3>1, <3>2, <3>3, <3>5 DEF OperatorInv
  <2>4. CASE opCalls' = opCalls \ {c} /\ UNCHANGED console
    <3>1. Rulings' \subseteq Rulings /\ VerifiedForThisDeposit' /\ page' = page /\ id' = id
      BY <2>4 DEF Rulings, VerifiedForThisDeposit, OperatorInv, page, id
    <3>2. QED
      BY <2>4, <3>1 DEF OperatorInv
  <2>5. QED
    BY <1>12, <2>2, <2>3, <2>4, AnswerCases
<1>13. CASE UNCHANGED operatorVars
  BY <1>13 DEF operatorVars, OperatorInv, Rulings, VerifiedForThisDeposit, page, id
<1>14. QED
  BY <1>2, <1>3, <1>4, <1>5, <1>6, <1>7, <1>8, <1>9, <1>10, <1>11, <1>12, <1>13
     DEF OperatorNext

(* Initially nothing is selected, typed or under way.                      *)
LEMMA InitOperator == OperatorInit => OperatorTypeOK /\ OperatorInv
<1> SUFFICES ASSUME OperatorInit PROVE OperatorTypeOK /\ OperatorInv
  OBVIOUS
<1>1. OperatorTypeOK
  BY FreshPageType, OperatorAssumption DEF OperatorInit, OperatorTypeOK
<1>2. page = FreshPage /\ Rulings = {} /\ VerifiedForThisDeposit
  BY DEF OperatorInit, page, Rulings, VerifiedForThisDeposit
<1>3. QED
  BY <1>1, <1>2 DEF OperatorInv, FreshPage

(* An approved mismatch carries an amount entered on the page of that very *)
(* deposit, however tabs, pages and late answers interleave.               *)
THEOREM VerifiedAmounts == OperatorSpec => []VerifiedForThisDeposit
<1>1. OperatorInv => VerifiedForThisDeposit
  BY DEF OperatorInv
<1>2. QED
  BY <1>1, InitOperator, NextOperatorType, NextOperatorInv, PTL DEF OperatorSpec

(* What the invariant says of a page's rulings.                            *)
LEMMA RulingsAlone == OperatorInv => OneRulingPerVisit
BY AtMostOne DEF OperatorInv, OneRulingPerVisit

(* A page never has two rulings under way.                                 *)
THEOREM OneRuling == OperatorSpec => []OneRulingPerVisit
BY RulingsAlone, InitOperator, NextOperatorType, NextOperatorInv, PTL DEF OperatorSpec

-------------------------------------------------------------------------------
(* The administrator's console.                                            *)

AdminRequests ==
  [tag : 1 .. AdminCallCap, kind : {"trace", "settle", "return"}, transfer : TraceIds,
   mounted : BOOLEAN]

Consoles ==
  [activeTab : {"trace", "all", "actions", "health"}, traceTransferId : TraceIds,
   visits : 0 .. AdminVisits, traceTab : TraceTabs, actions : ActionPages]

(* The requests of one kind that the tab on the screen has under way.      *)
Live(calls, kind) == {c \in calls : c.kind = kind /\ c.mounted}

(* What the trace tab shows, given what it has under way.                  *)
TraceInv(t, calls) ==
  /\ t.trace \in {NoTrace, t.asked}
  /\ t.loading => t.trace = NoTrace /\ ~t.error
  /\ (~t.loading /\ t.asked # NoTrace) => (t.error <=> t.trace = NoTrace)
  /\ \A c, e \in Live(calls, "trace") : c = e
  /\ \A c \in Live(calls, "trace") : t.loading /\ c.transfer = t.asked /\ t.asked # NoTrace

(* What an action shows, given what it has under way.                      *)
ActionInv(a, calls) ==
  /\ a.busy <=> calls # {}
  /\ \A c, e \in calls : c = e
  /\ a.busy => ~a.result /\ ~a.error
  /\ ~(a.result /\ a.error)

AdminInv ==
  /\ TraceInv(admin.traceTab, adminCalls)
  /\ ActionInv(admin.actions.settle, Live(adminCalls, "settle"))
  /\ ActionInv(admin.actions.return, Live(adminCalls, "return"))

(* What the tabs start with.                                               *)
LEMMA FreshAdminType ==
  /\ FreshActions \in ActionPages
  /\ \A x \in TraceIds : FreshTrace(x) \in TraceTabs
  /\ Idle \in Requests /\ Busy \in Requests
<1>1. FreshActions \in ActionPages /\ Idle \in Requests /\ Busy \in Requests
  BY DEF FreshActions, ActionPages, Idle, Busy, Requests
<1>2. \A x \in TraceIds : FreshTrace(x) \in TraceTabs
  BY DEF FreshTrace, TraceTabs, TraceIds
<1>3. QED
  BY <1>1, <1>2

(* Leaving a tab keeps its requests, which are its own no longer.          *)
LEMMA DesertedType ==
  ASSUME NEW calls \in SUBSET AdminRequests
  PROVE  /\ Deserted(calls) \in SUBSET AdminRequests
         /\ \A kind : Live(Deserted(calls), kind) = {}
<1>1. \A e \in calls : /\ [e EXCEPT !.mounted = FALSE] \in AdminRequests
                       /\ ~[e EXCEPT !.mounted = FALSE].mounted
  BY DEF AdminRequests
<1>2. ASSUME NEW c \in Deserted(calls) PROVE c \in AdminRequests /\ ~c.mounted
  BY <1>1 DEF Deserted
<1>3. QED
  BY <1>2 DEF Live

(* A new request is of the tab that sends it.                              *)
LEMMA SendAdminType ==
  ASSUME NEW calls \in SUBSET AdminRequests, NEW kind \in {"trace", "settle", "return"},
         NEW asked \in TraceIds, SendAdmin(calls, kind, asked)
  PROVE  /\ adminCalls' \in SUBSET AdminRequests
         /\ \E c \in AdminRequests :
              adminCalls' = calls \cup {c} /\ c.kind = kind /\ c.transfer = asked /\ c.mounted
<1>1. PICK t \in 1 .. AdminCallCap : t = CHOOSE u \in FreeAdminTags : TRUE
  BY DEF SendAdmin, FreeAdminTags
<1> DEFINE c == [tag |-> t, kind |-> kind, transfer |-> asked, mounted |-> TRUE]
<1>2. c \in AdminRequests /\ c.kind = kind /\ c.transfer = asked /\ c.mounted
  BY DEF AdminRequests
<1>3. adminCalls' = calls \cup {c}
  BY <1>1 DEF SendAdmin
<1> HIDE DEF c
<1>4. QED
  BY <1>2, <1>3

(* A tab opens fresh, with a look-up under way if it is handed an id.      *)
LEMMA OpenAdminKeeps ==
  ASSUME AdminTypeOK, NEW tab \in {"trace", "all", "actions", "health"},
         NEW handed \in TraceIds, OpenAdminTab(tab, handed)
  PROVE  AdminTypeOK' /\ AdminInv'
<1> DEFINE calls == Deserted(adminCalls)
           asked == IF tab = "trace" THEN handed ELSE NoTrace
<1>1. calls \in SUBSET AdminRequests /\ \A kind : Live(calls, kind) = {}
  BY DesertedType DEF AdminTypeOK, AdminRequests
<1>2. asked \in TraceIds
  BY DEF TraceIds
<1>3. /\ admin' \in Consoles
      /\ admin'.traceTab = FreshTrace(asked) /\ admin'.actions = FreshActions
  <2>1. admin.visits - 1 \in 0 .. AdminVisits
    BY AdminAssumption DEF OpenAdminTab, AdminTypeOK
  <2>2. admin' = [admin EXCEPT !.activeTab = tab, !.traceTransferId = handed,
                               !.visits = admin.visits - 1, !.actions = FreshActions,
                               !.traceTab = FreshTrace(asked)]
    BY DEF OpenAdminTab
  <2> HIDE DEF asked
  <2>3. QED
    BY <1>2, <2>1, <2>2, FreshAdminType DEF AdminTypeOK, Consoles
<1>4. \/ asked = NoTrace /\ adminCalls' = calls
      \/ asked # NoTrace /\ SendAdmin(calls, "trace", asked)
  BY DEF OpenAdminTab
<1> HIDE DEF calls, asked
<1>5. /\ adminCalls' \in SUBSET AdminRequests
      /\ \/ asked = NoTrace /\ adminCalls' = calls
         \/ /\ asked # NoTrace
            /\ \E c \in AdminRequests : /\ adminCalls' = calls \cup {c} /\ c.kind = "trace"
                                        /\ c.transfer = asked
  <2>1. CASE asked = NoTrace /\ adminCalls' = calls
    BY <1>1, <2>1
  <2>2. CASE asked # NoTrace /\ SendAdmin(calls, "trace", asked)
    <3>1. PICK t \in TraceIds : t = asked
      BY <1>2
    <3>2. SendAdmin(calls, "trace", t) /\ "trace" \in {"trace", "settle", "return"}
      BY <2>2, <3>1
    <3>3. /\ adminCalls' \in SUBSET AdminRequests
          /\ \E c \in AdminRequests : /\ adminCalls' = calls \cup {c} /\ c.kind = "trace"
                                      /\ c.transfer = t /\ c.mounted
      BY <1>1, <3>2, SendAdminType
    <3>4. QED
      BY <2>2, <3>1, <3>3
  <2>3. QED
    BY <1>4, <2>1, <2>2
<1>6. Live(adminCalls', "settle") = {} /\ Live(adminCalls', "return") = {}
  BY <1>1, <1>5 DEF Live
<1>7. TraceInv(FreshTrace(asked), adminCalls')
  <2>1. LET t == FreshTrace(asked) IN
        /\ t.trace = NoTrace /\ t.asked = asked /\ ~t.error
        /\ t.loading = (asked # NoTrace)
    BY DEF FreshTrace
  <2>2. \A c, e \in Live(adminCalls', "trace") : c = e
    BY <1>1, <1>5 DEF Live
  <2>3. \A c \in Live(adminCalls', "trace") : c.transfer = asked /\ asked # NoTrace
    BY <1>1, <1>5 DEF Live
  <2>4. QED
    BY <2>1, <2>2, <2>3 DEF TraceInv
<1>8. ActionInv(FreshActions.settle, {}) /\ ActionInv(FreshActions.return, {})
  BY DEF ActionInv, FreshActions, Idle
<1>9. QED
  BY <1>3, <1>5, <1>6, <1>7, <1>8 DEF AdminTypeOK, AdminInv, Consoles, AdminRequests

(* A step of the trace tab.                                                *)
LEMMA TraceStep ==
  ASSUME AdminTypeOK, AdminInv, NEW t \in TraceTabs, SetTrace(t),
         adminCalls' \in SUBSET AdminRequests, TraceInv(t, adminCalls'),
         \A kind \in {"settle", "return"} : Live(adminCalls', kind) = Live(adminCalls, kind)
  PROVE  AdminTypeOK' /\ AdminInv'
<1>1. /\ admin' \in Consoles /\ admin'.traceTab = t /\ admin'.actions = admin.actions
  BY DEF SetTrace, AdminTypeOK, Consoles
<1>2. QED
  BY <1>1 DEF AdminTypeOK, AdminInv, Consoles, AdminRequests

(* A step of the actions tab.                                              *)
LEMMA ActionsStep ==
  ASSUME AdminTypeOK, AdminInv, NEW a \in ActionPages, SetActions(a),
         adminCalls' \in SUBSET AdminRequests,
         Live(adminCalls', "trace") = Live(adminCalls, "trace"),
         ActionInv(a.settle, Live(adminCalls', "settle")),
         ActionInv(a.return, Live(adminCalls', "return"))
  PROVE  AdminTypeOK' /\ AdminInv'
<1>1. /\ admin' \in Consoles /\ admin'.traceTab = admin.traceTab /\ admin'.actions = a
  BY DEF SetActions, AdminTypeOK, Consoles
<1>2. TraceInv(admin.traceTab, adminCalls')
  BY DEF AdminInv, TraceInv
<1>3. QED
  BY <1>1, <1>2 DEF AdminTypeOK, AdminInv, Consoles, AdminRequests

(* The steps of the trace tab, but for answers.                            *)
LEMMA TraceKeeps ==
  ASSUME AdminTypeOK, AdminInv,
         handleTraceLookup \/ \E t \in TraceIds : EditTraceId(t)
  PROVE  AdminTypeOK' /\ AdminInv'
<1>1. /\ admin.traceTab \in TraceTabs /\ adminCalls \in SUBSET AdminRequests
      /\ TraceInv(admin.traceTab, adminCalls)
  BY DEF AdminTypeOK, AdminRequests, AdminInv
<1>2. ASSUME NEW i \in TraceIds, EditTraceId(i) PROVE AdminTypeOK' /\ AdminInv'
  <2> DEFINE t == [admin.traceTab EXCEPT !.inputId = i]
  <2>1. /\ t \in TraceTabs /\ t.trace = admin.traceTab.trace
        /\ t.loading = admin.traceTab.loading /\ t.error = admin.traceTab.error
        /\ t.asked = admin.traceTab.asked
    BY <1>1 DEF TraceTabs
  <2>2. SetTrace(t) /\ UNCHANGED adminCalls
    BY <1>2 DEF EditTraceId
  <2> HIDE DEF t
  <2>3. TraceInv(t, adminCalls')
    BY <1>1, <2>1, <2>2 DEF TraceInv
  <2>4. QED
    BY <1>1, <2>1, <2>2, <2>3, TraceStep
<1>3. CASE handleTraceLookup
  <2>1. PICK i \in TraceIds : i = admin.traceTab.inputId
    BY <1>1 DEF TraceTabs
  <2> DEFINE t == [admin.traceTab EXCEPT !.loading = TRUE, !.error = FALSE, !.trace = NoTrace,
                                         !.asked = i]
  <2>2. t \in TraceTabs /\ t.loading /\ ~t.error /\ t.trace = NoTrace /\ t.asked = i
    BY <1>1 DEF TraceTabs, TraceIds
  <2>3. /\ SetTrace(t) /\ SendAdmin(adminCalls, "trace", i) /\ i # NoTrace
        /\ ~admin.traceTab.loading
    BY <1>3, <2>1 DEF handleTraceLookup, CanTrace
  <2> HIDE DEF t
  <2>4. SendAdmin(adminCalls, "trace", i) /\ "trace" \in {"trace", "settle", "return"}
        /\ adminCalls \in SUBSET AdminRequests
    BY <1>1, <2>3
  <2>5. PICK c \in AdminRequests :
          adminCalls' = adminCalls \cup {c} /\ c.kind = "trace" /\ c.transfer = i /\ c.mounted
    BY <2>4, SendAdminType
  <2>6. Live(adminCalls, "trace") = {}
    BY <1>1, <2>3 DEF TraceInv
  <2>7. Live(adminCalls', "trace") = {c}
    BY <2>5, <2>6 DEF Live
  <2>8. TraceInv(t, adminCalls')
    BY <2>2, <2>3, <2>5, <2>7 DEF TraceInv
  <2>9. \A kind \in {"settle", "return"} : Live(adminCalls', kind) = Live(adminCalls, kind)
    BY <2>5 DEF Live
  <2>10. QED
    BY <1>1, <2>2, <2>3, <2>5, <2>8, <2>9, TraceStep
<1>4. QED
  BY <1>2, <1>3

(* The steps of the actions tab, but for answers.                          *)
LEMMA ActionsKeep ==
  ASSUME AdminTypeOK, AdminInv,
         \/ AdminReasonsArrive \/ handleTriggerSettlement
         \/ EditReturnId \/ handleReturn \/ ReturnAnother
  PROVE  AdminTypeOK' /\ AdminInv'
<1>1. /\ admin.actions \in ActionPages /\ adminCalls \in SUBSET AdminRequests
      /\ admin.actions.settle \in Requests /\ admin.actions.return \in Requests
      /\ ActionInv(admin.actions.settle, Live(adminCalls, "settle"))
      /\ ActionInv(admin.actions.return, Live(adminCalls, "return"))
      /\ NoTrace \in TraceIds /\ {"settle", "return"} \subseteq {"trace", "settle", "return"}
  BY DEF AdminTypeOK, AdminRequests, AdminInv, ActionPages, TraceIds
<1>2. CASE AdminReasonsArrive
  <2> DEFINE a == [admin.actions EXCEPT !.returnReasons = TRUE]
  <2>1. /\ a \in ActionPages /\ a.settle = admin.actions.settle
        /\ a.return = admin.actions.return
    BY <1>1 DEF ActionPages
  <2>2. SetActions(a) /\ UNCHANGED adminCalls
    BY <1>2 DEF AdminReasonsArrive
  <2> HIDE DEF a
  <2>3. QED
    BY <1>1, <2>1, <2>2, ActionsStep
<1>3. CASE EditReturnId
  <2> DEFINE a == [admin.actions EXCEPT !.returnId = ~@]
  <2>1. /\ a \in ActionPages /\ a.settle = admin.actions.settle
        /\ a.return = admin.actions.return
    BY <1>1 DEF ActionPages
  <2>2. SetActions(a) /\ UNCHANGED adminCalls
    BY <1>3 DEF EditReturnId
  <2> HIDE DEF a
  <2>3. QED
    BY <1>1, <2>1, <2>2, ActionsStep
<1>4. CASE ReturnAnother
  <2> DEFINE x == [admin.actions.return EXCEPT !.result = FALSE]
             a == [admin.actions EXCEPT !.return = x, !.returnId = FALSE]
  <2>1. x \in Requests /\ ActionInv(x, Live(adminCalls, "return"))
    BY <1>1 DEF Requests, ActionInv
  <2>2. SetActions(a) /\ UNCHANGED adminCalls
    BY <1>4 DEF ReturnAnother
  <2> HIDE DEF x
  <2>3. a \in ActionPages /\ a.settle = admin.actions.settle /\ a.return = x
    BY <1>1, <2>1 DEF ActionPages
  <2> HIDE DEF a
  <2>4. QED
    BY <1>1, <2>1, <2>2, <2>3, ActionsStep
<1>5. CASE handleTriggerSettlement
  <2> DEFINE a == [admin.actions EXCEPT !.settle = Busy]
  <2>1. a \in ActionPages /\ a.settle = Busy /\ a.return = admin.actions.return
    BY <1>1, FreshAdminType DEF ActionPages
  <2>2. SetActions(a) /\ SendAdmin(adminCalls, "settle", NoTrace) /\ ~admin.actions.settle.busy
    BY <1>5 DEF handleTriggerSettlement, CanSettle
  <2> HIDE DEF a
  <2>3. PICK c \in AdminRequests : adminCalls' = adminCalls \cup {c} /\ c.kind = "settle" /\ c.mounted
    BY <1>1, <2>2, SendAdminType
  <2>4. Live(adminCalls, "settle") = {}
    BY <1>1, <2>2 DEF ActionInv
  <2>5. /\ Live(adminCalls', "settle") = {c}
        /\ Live(adminCalls', "trace") = Live(adminCalls, "trace")
        /\ Live(adminCalls', "return") = Live(adminCalls, "return")
    BY <2>3, <2>4 DEF Live
  <2>6. ActionInv(Busy, {c})
    BY DEF ActionInv, Busy
  <2>7. QED
    BY <1>1, <2>1, <2>2, <2>3, <2>5, <2>6, ActionsStep
<1>6. CASE handleReturn
  <2> DEFINE a == [admin.actions EXCEPT !.return = Busy]
  <2>1. a \in ActionPages /\ a.return = Busy /\ a.settle = admin.actions.settle
    BY <1>1, FreshAdminType DEF ActionPages
  <2>2. SetActions(a) /\ SendAdmin(adminCalls, "return", NoTrace) /\ ~admin.actions.return.busy
    BY <1>6 DEF handleReturn, CanReturn
  <2> HIDE DEF a
  <2>3. PICK c \in AdminRequests : adminCalls' = adminCalls \cup {c} /\ c.kind = "return" /\ c.mounted
    BY <1>1, <2>2, SendAdminType
  <2>4. Live(adminCalls, "return") = {}
    BY <1>1, <2>2 DEF ActionInv
  <2>5. /\ Live(adminCalls', "return") = {c}
        /\ Live(adminCalls', "trace") = Live(adminCalls, "trace")
        /\ Live(adminCalls', "settle") = Live(adminCalls, "settle")
    BY <2>3, <2>4 DEF Live
  <2>6. ActionInv(Busy, {c})
    BY DEF ActionInv, Busy
  <2>7. QED
    BY <1>1, <2>1, <2>2, <2>3, <2>5, <2>6, ActionsStep
<1>7. QED
  BY <1>2, <1>3, <1>4, <1>5, <1>6

(* The end of an action that alone is under way.                           *)
LEMMA ActionEndKeeps ==
  ASSUME NEW a \in Requests, NEW calls, NEW c \in calls, ActionInv(a, calls), NEW ok \in BOOLEAN
  PROVE  ActionEnds(a, ok) \in Requests /\ ActionInv(ActionEnds(a, ok), calls \ {c})
<1>1. calls \ {c} = {} /\ ~a.result /\ ~a.error
  BY DEF ActionInv
<1>2. CASE ok
  BY <1>1, <1>2 DEF ActionEnds, ActionInv, Requests
<1>3. CASE ~ok
  BY <1>1, <1>3 DEF ActionEnds, ActionInv, Requests
<1>4. QED
  BY <1>2, <1>3

(* An answer.                                                              *)
LEMMA AdminAnswerKeeps ==
  ASSUME AdminTypeOK, AdminInv, NEW c \in adminCalls, AdminAnswered(c)
  PROVE  AdminTypeOK' /\ AdminInv'
<1>1. /\ admin.traceTab \in TraceTabs /\ adminCalls \in SUBSET AdminRequests
      /\ admin.actions \in ActionPages /\ c \in AdminRequests
      /\ admin.actions.settle \in Requests /\ admin.actions.return \in Requests
      /\ TraceInv(admin.traceTab, adminCalls)
      /\ ActionInv(admin.actions.settle, Live(adminCalls, "settle"))
      /\ ActionInv(admin.actions.return, Live(adminCalls, "return"))
      /\ c.kind \in {"trace", "settle", "return"} /\ c.mounted \in BOOLEAN
  BY DEF AdminTypeOK, AdminRequests, AdminInv, ActionPages
<1>2. /\ adminCalls' = adminCalls \ {c} /\ adminCalls' \in SUBSET AdminRequests
      /\ \A kind : Live(adminCalls', kind) = Live(adminCalls, kind) \ {c}
      /\ \A kind : c \in Live(adminCalls, kind) <=> c.kind = kind /\ c.mounted
  BY <1>1 DEF AdminAnswered, Live
<1>3. PICK ok \in BOOLEAN :
        admin' = CASE ~c.mounted         -> admin
                   [] c.mounted /\ c.kind = "trace" ->
                        [admin EXCEPT !.traceTab = TraceEnds(@, c.transfer, ok)]
                   [] c.mounted /\ c.kind = "settle" ->
                        [admin EXCEPT !.actions.settle = ActionEnds(@, ok)]
                   [] c.mounted /\ c.kind = "return" ->
                        [admin EXCEPT !.actions.return = ActionEnds(@, ok)]
  <2>1. PICK fails \in BOOLEAN :
          LET ok == handleResponse(AdminRoute(c.kind), fails) = "resolved" IN
          admin' = CASE ~c.mounted         -> admin
                     [] c.mounted /\ c.kind = "trace" ->
                          [admin EXCEPT !.traceTab = TraceEnds(@, c.transfer, ok)]
                     [] c.mounted /\ c.kind = "settle" ->
                          [admin EXCEPT !.actions.settle = ActionEnds(@, ok)]
                     [] c.mounted /\ c.kind = "return" ->
                          [admin EXCEPT !.actions.return = ActionEnds(@, ok)]
    BY DEF AdminAnswered
  <2>2. (handleResponse(AdminRoute(c.kind), fails) = "resolved") \in BOOLEAN
    OBVIOUS
  <2>3. QED
    BY <2>1, <2>2
<1>4. CASE ~c.mounted
  <2>1. admin' = admin
    BY <1>3, <1>4
  <2>2. \A kind : Live(adminCalls', kind) = Live(adminCalls, kind)
    BY <1>2, <1>4
  <2>3. QED
    BY <1>1, <1>2, <2>1, <2>2 DEF AdminTypeOK, AdminRequests, AdminInv, TraceInv
<1>5. CASE c.mounted /\ c.kind = "trace"
  <2> DEFINE t == TraceEnds(admin.traceTab, c.transfer, ok)
  <2>1. SetTrace(t)
    BY <1>3, <1>5 DEF SetTrace
  <2>2. c \in Live(adminCalls, "trace")
    BY <1>2, <1>5
  <2>3. Live(adminCalls', "trace") = {} /\ c.transfer = admin.traceTab.asked
    BY <1>1, <1>2, <2>2 DEF TraceInv
  <2>4. t \in TraceTabs /\ TraceInv(t, adminCalls')
    <3>1. /\ admin.traceTab.trace = NoTrace /\ ~admin.traceTab.error
          /\ admin.traceTab.asked # NoTrace
      BY <1>1, <2>2 DEF TraceInv
    <3>2. t \in TraceTabs
      BY <1>1 DEF TraceEnds, TraceTabs, AdminRequests
    <3>3. CASE ok
      <4>1. ~t.loading /\ t.trace = t.asked /\ ~t.error /\ t.asked # NoTrace
        BY <1>1, <2>3, <3>1, <3>3 DEF TraceEnds, TraceTabs
      <4>2. QED
        BY <2>3, <3>2, <4>1 DEF TraceInv
    <3>4. CASE ~ok
      <4>1. ~t.loading /\ t.trace = NoTrace /\ t.error
        BY <1>1, <3>1, <3>4 DEF TraceEnds, TraceTabs
      <4>2. QED
        BY <2>3, <3>2, <4>1 DEF TraceInv
    <3>5. QED
      BY <3>3, <3>4
  <2> HIDE DEF t
  <2>5. \A kind \in {"settle", "return"} : Live(adminCalls', kind) = Live(adminCalls, kind)
    BY <1>2, <1>5
  <2>6. QED
    BY <1>2, <2>1, <2>4, <2>5, TraceStep
<1>6. CASE c.mounted /\ c.kind = "settle"
  <2>1. PICK x \in Requests :
          x = ActionEnds(admin.actions.settle, ok) /\ ActionInv(x, Live(adminCalls', "settle"))
    <3>1. c \in Live(adminCalls, "settle")
          /\ Live(adminCalls', "settle") = Live(adminCalls, "settle") \ {c}
      BY <1>2, <1>6
    <3>2. /\ ActionEnds(admin.actions.settle, ok) \in Requests
          /\ ActionInv(ActionEnds(admin.actions.settle, ok), Live(adminCalls, "settle") \ {c})
      BY <1>1, <3>1, ActionEndKeeps
    <3>3. QED
      BY <3>1, <3>2
  <2> DEFINE a == [admin.actions EXCEPT !.settle = x]
  <2>2. SetActions(a)
    BY <1>3, <1>6, <2>1 DEF SetActions, AdminTypeOK
  <2>3. a \in ActionPages /\ a.settle = x /\ a.return = admin.actions.return
    BY <1>1 DEF ActionPages
  <2> HIDE DEF a
  <2>4. /\ Live(adminCalls', "trace") = Live(adminCalls, "trace")
        /\ Live(adminCalls', "return") = Live(adminCalls, "return")
    BY <1>2, <1>6
  <2>5. QED
    BY <1>1, <1>2, <2>1, <2>2, <2>3, <2>4, ActionsStep
<1>7. CASE c.mounted /\ c.kind = "return"
  <2>1. PICK x \in Requests :
          x = ActionEnds(admin.actions.return, ok) /\ ActionInv(x, Live(adminCalls', "return"))
    <3>1. c \in Live(adminCalls, "return")
          /\ Live(adminCalls', "return") = Live(adminCalls, "return") \ {c}
      BY <1>2, <1>7
    <3>2. /\ ActionEnds(admin.actions.return, ok) \in Requests
          /\ ActionInv(ActionEnds(admin.actions.return, ok), Live(adminCalls, "return") \ {c})
      BY <1>1, <3>1, ActionEndKeeps
    <3>3. QED
      BY <3>1, <3>2
  <2> DEFINE a == [admin.actions EXCEPT !.return = x]
  <2>2. SetActions(a)
    BY <1>3, <1>7, <2>1 DEF SetActions, AdminTypeOK
  <2>3. a \in ActionPages /\ a.return = x /\ a.settle = admin.actions.settle
    BY <1>1 DEF ActionPages
  <2> HIDE DEF a
  <2>4. /\ Live(adminCalls', "trace") = Live(adminCalls, "trace")
        /\ Live(adminCalls', "settle") = Live(adminCalls, "settle")
    BY <1>2, <1>7
  <2>5. QED
    BY <1>1, <1>2, <2>1, <2>2, <2>3, <2>4, ActionsStep
<1>8. QED
  BY <1>1, <1>4, <1>5, <1>6, <1>7

(* Every step of the console keeps its types and its invariant.            *)
LEMMA NextAdmin ==
  AdminTypeOK /\ AdminInv /\ [AdminNext]_adminVars => (AdminTypeOK /\ AdminInv)'
<1> SUFFICES ASSUME AdminTypeOK, AdminInv, [AdminNext]_adminVars
             PROVE  AdminTypeOK' /\ AdminInv'
  OBVIOUS
<1>1. ASSUME NEW tab \in {"trace", "all", "actions", "health"}, setAdminTab(tab)
      PROVE  AdminTypeOK' /\ AdminInv'
  <2>1. PICK t \in TraceIds : t = admin.traceTransferId
    BY DEF AdminTypeOK
  <2>2. OpenAdminTab(tab, t)
    BY <1>1, <2>1 DEF setAdminTab
  <2>3. QED
    BY <2>2, OpenAdminKeeps
<1>2. ASSUME NEW t \in Traced, handleTraceTransfer(t) PROVE AdminTypeOK' /\ AdminInv'
  <2>1. t \in TraceIds /\ OpenAdminTab("trace", t)
    BY <1>2 DEF handleTraceTransfer, TraceIds
  <2>2. QED
    BY <2>1, OpenAdminKeeps
<1>3. CASE UNCHANGED adminVars
  BY <1>3 DEF adminVars, AdminTypeOK, AdminInv
<1>4. QED
  BY <1>1, <1>2, <1>3, TraceKeeps, ActionsKeep, AdminAnswerKeeps DEF AdminNext

(* Initially the trace tab is open and nothing is under way.               *)
LEMMA InitAdmin == AdminInit => AdminTypeOK /\ AdminInv
<1> SUFFICES ASSUME AdminInit PROVE AdminTypeOK /\ AdminInv
  OBVIOUS
<1>1. NoTrace \in TraceIds /\ AdminVisits \in 0 .. AdminVisits
  BY AdminAssumption DEF TraceIds
<1>2. AdminTypeOK
  BY <1>1, FreshAdminType DEF AdminInit, AdminTypeOK
<1>3. TraceInv(FreshTrace(NoTrace), {})
  BY DEF TraceInv, FreshTrace, Live
<1>4. ActionInv(FreshActions.settle, {}) /\ ActionInv(FreshActions.return, {})
  BY DEF ActionInv, FreshActions, Idle
<1>5. Live({}, "settle") = {} /\ Live({}, "return") = {}
  BY DEF Live
<1>6. QED
  BY <1>2, <1>3, <1>4, <1>5 DEF AdminInit, AdminInv

(* The trace on the screen is that of the id asked for last, however       *)
(* look-ups, hand-overs and late answers interleave.                       *)
THEOREM LastTrace == AdminSpec => []TraceAnswersLastLookup
<1>1. AdminInv => TraceAnswersLastLookup
  BY DEF AdminInv, TraceInv, TraceAnswersLastLookup
<1>2. QED
  BY <1>1, InitAdmin, NextAdmin, PTL DEF AdminSpec

(* What the invariant says of the actions' requests and outcomes.          *)
LEMMA ActionsAlone == AdminTypeOK /\ AdminInv => OneOutcomePerAction
<1>1. ASSUME NEW a, NEW S, a.busy \in BOOLEAN, ActionInv(a, S)
      PROVE  Cardinality(S) = (IF a.busy THEN 1 ELSE 0) /\ ~(a.result /\ a.error)
  <2>1. CASE S = {}
    BY <1>1, <2>1, FS_EmptySet DEF ActionInv
  <2>2. CASE S # {}
    <3>1. PICK x : S = {x}
      BY <1>1, <2>2 DEF ActionInv
    <3>2. Cardinality(S) = 1
      BY <3>1, FS_Singleton
    <3>3. QED
      BY <1>1, <2>2, <3>2 DEF ActionInv
  <2>3. QED
    BY <2>1, <2>2
<1>2. ASSUME AdminTypeOK, AdminInv, NEW kind \in {"settle", "return"}
      PROVE  /\ admin.actions[kind].busy \in BOOLEAN
             /\ ActionInv(admin.actions[kind], Live(adminCalls, kind))
  <2>1. /\ admin.actions.settle.busy \in BOOLEAN /\ admin.actions.return.busy \in BOOLEAN
    BY <1>2 DEF AdminTypeOK, ActionPages, Requests
  <2>2. CASE kind = "settle"
    BY <1>2, <2>1, <2>2 DEF AdminInv
  <2>3. CASE kind = "return"
    BY <1>2, <2>1, <2>3 DEF AdminInv
  <2>4. QED
    BY <2>2, <2>3
<1>3. ASSUME AdminTypeOK, AdminInv, NEW kind \in {"settle", "return"}
      PROVE  LET a == admin.actions[kind] IN
             /\ Cardinality(Live(adminCalls, kind)) = (IF a.busy THEN 1 ELSE 0)
             /\ ~(a.result /\ a.error)
  BY <1>1, <1>2, <1>3
<1>4. QED
  BY <1>3, Zenon DEF OneOutcomePerAction, Live

(* Each action of the page has one request under way at most, and shows    *)
(* one outcome.                                                            *)
THEOREM OneOutcome == AdminSpec => []OneOutcomePerAction
BY ActionsAlone, InitAdmin, NextAdmin, PTL DEF AdminSpec
===============================================================================
