---------------------------- MODULE SettlementView ----------------------------
(***************************************************************************)
(* The settlement console (views/SettlementView.jsx): the end-of-day tab   *)
(* with its preview and its trigger, and the page of one batch with the    *)
(* return of a deposit and the file viewer.  The list of batches, and what *)
(* the end-of-day poll shows, are in Listings.                             *)
(*                                                                         *)
(* A request is served at one moment and answered at a later one.  A page  *)
(* that is left loses its state; an answer that comes for it afterwards    *)
(* sets nothing.                                                           *)
(***************************************************************************)
EXTENDS Naturals, Api

CONSTANTS Settled,      \* the deposits of the batch that can be selected
          NoReturn,     \* no deposit
          DeskCalls,    \* bound: requests under way at once
          DeskVisits    \* bound: tabs opened

ASSUME DeskAssumption ==
  NoReturn \notin Settled /\ {DeskCalls, DeskVisits} \subseteq Nat

VARIABLES bounced,      \* the deposits of the batch the server has as returned
          desk,         \* SettlementView and the tab that is open
          deskCalls     \* the requests under way

deskVars == <<bounced, desk, deskCalls>>

FreshEod ==
  [hidden |-> TRUE, previewLoading |-> FALSE, showPreview |-> FALSE, preview |-> "none",
   confirming |-> FALSE, result |-> FALSE, settlementError |-> FALSE]

(* `strained' is for the property: the page is not told what happened, or  *)
(* two of its fetches overlap.                                             *)
FreshDetail ==
  [loading |-> TRUE, loaded |-> FALSE, error |-> FALSE, returned |-> {},
   returnModal |-> NoReturn, returnReasons |-> FALSE, modal |-> "form",
   file |-> "none", strained |-> FALSE]

EodKinds == {"preview", "trigger"}
DetailKinds == {"detail", "return", "file"}

EodPages ==
  [hidden : BOOLEAN, previewLoading : BOOLEAN, showPreview : BOOLEAN,
   preview : {"none", "empty", "some"}, confirming : BOOLEAN,
   result : BOOLEAN, settlementError : BOOLEAN]
DetailPages ==
  [loading : BOOLEAN, loaded : BOOLEAN, error : BOOLEAN, returned : SUBSET Settled,
   returnModal : Settled \cup {NoReturn}, returnReasons : BOOLEAN,
   modal : {"form", "processing", "failed"},
   file : {"none", "loading", "hidden", "shown"}, strained : BOOLEAN]

DeskTypeOK ==
  /\ bounced \subseteq Settled
  /\ desk \in [activeTab : {"batches", "detail", "eod"}, selectedBatch : BOOLEAN,
               visits : 0 .. DeskVisits, eod : EodPages, detail : DetailPages]
  /\ deskCalls \subseteq [tag : 1 .. DeskCalls, kind : EodKinds \cup DetailKinds,
                          deposit : Settled \cup {NoReturn}, page : BOOLEAN,
                          dialog : BOOLEAN, served : BOOLEAN, ok : BOOLEAN,
                          read : SUBSET Settled]

DeskInit ==
  /\ bounced = {} /\ deskCalls = {}
  /\ desk = [activeTab |-> "eod", selectedBatch |-> FALSE, visits |-> DeskVisits,
             eod |-> FreshEod, detail |-> FreshDetail]

-------------------------------------------------------------------------------
FreeDeskTags == {t \in 1 .. DeskCalls : \A c \in deskCalls : c.tag # t}

(* `page' and `dialog': the page, and the return dialog, that sent it are  *)
(* still there.  `ok' and `read' are the answer, once it was served.       *)
DeskCall(tag, kind, d) ==
  [tag |-> tag, kind |-> kind, deposit |-> d, page |-> TRUE,
   dialog |-> TRUE, served |-> FALSE, ok |-> FALSE, read |-> {}]

SendFrom(calls, kind, d) ==
  /\ FreeDeskTags # {}
  /\ deskCalls' = calls \cup {DeskCall(CHOOSE t \in FreeDeskTags : TRUE, kind, d)}

SetEod(e) == desk' = [desk EXCEPT !.eod = e]
SetDetail(p) == desk' = [desk EXCEPT !.detail = p]

PageGone(calls) == {[c EXCEPT !.page = FALSE, !.dialog = FALSE] : c \in calls}
DialogGone(calls) == {[c EXCEPT !.dialog = FALSE] : c \in calls}

(* Opens a tab, which fetches the batch if it is the batch's.              *)
OpenTab(d, tab) ==
  /\ tab # desk.activeTab /\ desk.visits > 0
  /\ desk' = [d EXCEPT !.activeTab = tab, !.eod = FreshEod, !.detail = FreshDetail,
                       !.visits = @ - 1]
  /\ IF tab = "detail" THEN SendFrom(PageGone(deskCalls), "detail", NoReturn)
     ELSE deskCalls' = PageGone(deskCalls)
  /\ UNCHANGED bounced

handleSelectBatch ==
  /\ desk.activeTab = "batches"
  /\ OpenTab([desk EXCEPT !.selectedBatch = TRUE], "detail")

(* "Batch Detail" without a batch goes to the list; so does "Back".        *)
handleTabClick(tab) ==
  OpenTab(desk, IF tab = "detail" /\ ~desk.selectedBatch THEN "batches" ELSE tab)

-------------------------------------------------------------------------------
(* The end-of-day tab.                                                     *)

(* A poll ends: a failure takes the page, and the preview with it, from    *)
(* the screen until the next one succeeds.                                 *)
fetchStatusEnds(fails) ==
  /\ desk.activeTab = "eod" /\ desk.eod.hidden # fails
  /\ SetEod([desk.eod EXCEPT !.hidden = fails])
  /\ UNCHANGED <<bounced, deskCalls>>

EodShown == desk.activeTab = "eod" /\ ~desk.eod.hidden
PreviewShown == EodShown /\ desk.eod.showPreview

CanTrigger ==
  EodShown /\ ~PreviewShown /\ ~desk.eod.previewLoading /\ ~desk.eod.confirming

handleTriggerClick ==
  /\ CanTrigger
  /\ SendFrom(deskCalls, "preview", NoReturn)
  /\ SetEod([desk.eod EXCEPT !.previewLoading = TRUE, !.result = FALSE,
                             !.settlementError = FALSE])
  /\ UNCHANGED bounced

ClosePreview ==
  /\ PreviewShown
  /\ SetEod([desk.eod EXCEPT !.showPreview = FALSE])
  /\ UNCHANGED <<bounced, deskCalls>>

(* Mutant: the button stays enabled while the settlement runs.             *)
ConfirmAgain == PreviewShown /\ desk.eod.preview = "some"

(* The button names how many deposits the preview includes.                *)
CanConfirm == PreviewShown /\ ~desk.eod.confirming /\ desk.eod.preview = "some"

handleConfirmSettlement ==
  /\ CanConfirm
  /\ SendFrom(deskCalls, "trigger", NoReturn)
  /\ SetEod([desk.eod EXCEPT !.confirming = TRUE])
  /\ UNCHANGED bounced

PreviewEnds(e, ok, preview) ==
  IF ok THEN [e EXCEPT !.previewLoading = FALSE, !.preview = preview, !.showPreview = TRUE]
  ELSE [e EXCEPT !.previewLoading = FALSE, !.settlementError = TRUE]

TriggerEnds(e, ok) ==
  [e EXCEPT !.confirming = FALSE, !.showPreview = FALSE,
            !.result = @ \/ ok, !.settlementError = @ \/ ~ok]

-------------------------------------------------------------------------------
(* The page of a batch.                                                    *)

DetailShown ==
  desk.activeTab = "detail" /\ ~desk.detail.loading /\ ~desk.detail.error /\ desk.detail.loaded

ModalShown ==
  DetailShown /\ desk.detail.returnModal # NoReturn /\ desk.detail.returnReasons

(* The reasons are fetched once; as long as there are none no dialog opens.*)
ReasonsArrive ==
  /\ desk.activeTab = "detail" /\ ~desk.detail.returnReasons
  /\ SetDetail([desk.detail EXCEPT !.returnReasons = TRUE])
  /\ UNCHANGED <<bounced, deskCalls>>

(* fetchDetail shows "loading", which unmounts the dialog; what returnModal*)
(* holds stays, and the dialog comes back empty with the page.             *)
Refetching(p) ==
  [p EXCEPT !.loading = TRUE, !.modal = "form",
            !.strained = @ \/ \E c \in deskCalls : c.kind = "detail" /\ c.page]

(* "Simulate Return" on a row shown as completed.                          *)
setReturnModal(d) ==
  /\ DetailShown /\ ~ModalShown /\ d \notin desk.detail.returned
  /\ SetDetail([desk.detail EXCEPT !.returnModal = d])
  /\ UNCHANGED <<bounced, deskCalls>>

(* It can be closed while the return is being processed.                   *)
CloseModal ==
  /\ ModalShown
  /\ SetDetail([desk.detail EXCEPT !.returnModal = NoReturn, !.modal = "form"])
  /\ deskCalls' = DialogGone(deskCalls)
  /\ UNCHANGED bounced

handleConfirm ==
  /\ ModalShown /\ desk.detail.modal # "processing"
  /\ SendFrom(deskCalls, "return", desk.detail.returnModal)
  /\ SetDetail([desk.detail EXCEPT !.modal = "processing"])
  /\ UNCHANGED bounced

(* "View Contents": fetched once, then shown and hidden.  A download only  *)
(* leaves the browser a file, or the page an error line.                   *)
handleViewFile ==
  /\ DetailShown /\ ~ModalShown /\ desk.detail.file # "loading"
  /\ SetDetail([desk.detail EXCEPT !.file =
                  CASE @ = "none" -> "loading" [] @ = "shown" -> "hidden" [] OTHER -> "shown"])
  /\ IF desk.detail.file = "none" THEN SendFrom(deskCalls, "file", NoReturn)
     ELSE UNCHANGED deskCalls
  /\ UNCHANGED bounced

(* Mutant: a page that has loaded keeps its first copy.                    *)
DetailOnce(p, ok, read) ==
  IF ok THEN [p EXCEPT !.loading = FALSE, !.loaded = TRUE, !.error = FALSE,
                       !.returned = IF p.loaded THEN @ ELSE read]
  ELSE [p EXCEPT !.loading = FALSE, !.error = TRUE]

DetailEnds(p, ok, read) ==
  IF ok THEN [p EXCEPT !.loading = FALSE, !.loaded = TRUE, !.error = FALSE,
                       !.returned = read]
  ELSE [p EXCEPT !.loading = FALSE, !.error = TRUE]

(* A confirmed return fetches the batch again, so its dialog is unmounted  *)
(* together with the confirmation it was to show.                          *)
onSuccess(p) == Refetching(p)

ReturnFails(p, c) ==
  [p EXCEPT !.modal = IF c.dialog THEN "failed" ELSE @, !.strained = @ \/ c.ok]

FileEnds(p, ok) == [p EXCEPT !.file = IF ok THEN "shown" ELSE "none"]

-------------------------------------------------------------------------------
DeskRoute(kind) ==
  CASE kind = "preview"  -> SettlementCalls.getSettlementPreview
    [] kind = "trigger"  -> OperatorCalls.triggerSettlement
    [] kind = "detail"   -> SettlementCalls.getBatch
    [] kind = "return"   -> OperatorCalls.returnDeposit
    [] kind = "file"     -> SettlementCalls.getSettlementFileContents

(* The server: a completed deposit is returned once; the batch is read.    *)
(* The request may also be refused on its way, by the rate limit say.      *)
ServeDesk(c) ==
  /\ c \in deskCalls /\ ~c.served
  /\ \E refused \in BOOLEAN :
       LET done == ~refused /\ (c.kind = "return" => c.deposit \notin bounced)
       IN  /\ bounced' = IF c.kind = "return" /\ done THEN bounced \cup {c.deposit}
                         ELSE bounced
           /\ deskCalls' = (deskCalls \ {c}) \cup
                {[c EXCEPT !.served = TRUE, !.ok = done,
                           !.read = IF c.kind = "detail" THEN bounced ELSE {}]}
  /\ UNCHANGED desk

(* What an answer to the page that asked does to it.                       *)
Ends(d, c, ok, preview) ==
  CASE c.kind = "preview"  -> [d EXCEPT !.eod = PreviewEnds(@, ok, preview)]
    [] c.kind = "trigger"  -> [d EXCEPT !.eod = TriggerEnds(@, ok)]
    [] c.kind = "detail"   -> [d EXCEPT !.detail = DetailEnds(@, ok, c.read)]
    [] c.kind = "return"   ->
         [d EXCEPT !.detail = IF ok THEN onSuccess(@) ELSE ReturnFails(@, c)]
    [] c.kind = "file"     -> [d EXCEPT !.detail = FileEnds(@, ok)]

DeskAnswered(c) ==
  /\ c \in deskCalls /\ c.served
  /\ \E lost \in BOOLEAN, preview \in {"empty", "some"} :
       LET ok == handleResponse(DeskRoute(c.kind), lost \/ ~c.ok) = "resolved"
           rest == deskCalls \ {c}
       IN  /\ desk' = IF c.page THEN Ends(desk, c, ok, preview) ELSE desk
           /\ deskCalls' = IF c.kind = "return" /\ c.page /\ ok
                           THEN DialogGone(rest) \cup {DeskCall(c.tag, "detail", NoReturn)}
                           ELSE rest
  /\ UNCHANGED bounced

DeskNext ==
  \/ handleSelectBatch
  \/ \E tab \in {"batches", "detail", "eod"} : handleTabClick(tab)
  \/ \E fails \in BOOLEAN : fetchStatusEnds(fails)
  \/ handleTriggerClick \/ ClosePreview \/ handleConfirmSettlement
  \/ ReasonsArrive \/ CloseModal \/ handleConfirm
  \/ \E d \in Settled : setReturnModal(d)
  \/ handleViewFile
  \/ \E c \in deskCalls : ServeDesk(c) \/ DeskAnswered(c)

(* Every request is served and answered.                                   *)
DeskFairness ==
  \A t \in 1 .. DeskCalls :
    /\ WF_deskVars(\E c \in deskCalls : c.tag = t /\ ServeDesk(c))
    /\ WF_deskVars(\E c \in deskCalls : c.tag = t /\ DeskAnswered(c))

DeskSpec == DeskInit /\ [][DeskNext]_deskVars /\ DeskFairness

-------------------------------------------------------------------------------
(* The end-of-day page never has two settlements under way, although its   *)
(* preview can be closed, or vanish with a failed poll, while one runs.    *)
OneTriggerAtATime ==
  \A c, d \in deskCalls :
    (c.kind = "trigger" /\ d.kind = "trigger" /\ c.page /\ d.page) => c = d

(* The server has returned this deposit at the request of the open page.   *)
Heard(d) ==
  \E c \in deskCalls : c.kind = "return" /\ c.deposit = d /\ c.page /\ c.ok

(* A return that succeeds appears on the page of the batch, whatever else  *)
(* is being returned or closed meanwhile, unless the answer is lost, the   *)
(* page is left or fails to load, or its fetches overlap.                  *)
DetailCatchesUp ==
  \A d \in Settled :
    Heard(d) ~> (\/ DetailShown /\ d \in desk.detail.returned
                 \/ desk.activeTab # "detail" \/ desk.detail.error \/ desk.detail.strained)
===============================================================================
