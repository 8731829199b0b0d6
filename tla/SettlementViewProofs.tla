------------------------- MODULE SettlementViewProofs -------------------------
(***************************************************************************)
(* Proofs about the settlement console: type correctness, and what         *)
(* `confirming' guarantees about the settlements under way.                *)
(***************************************************************************)
EXTENDS SettlementView, TLAPS

DeskRequests ==
  [tag : 1 .. DeskCalls, kind : EodKinds \cup DetailKinds, deposit : Settled \cup {NoReturn},
   page : BOOLEAN, dialog : BOOLEAN, served : BOOLEAN, ok : BOOLEAN, read : SUBSET Settled]

Desks ==
  [activeTab : {"batches", "detail", "eod"}, selectedBatch : BOOLEAN,
   visits : 0 .. DeskVisits, eod : EodPages, detail : DetailPages]

(* The settlements that the page on the screen has under way.              *)
Triggers(calls) == {c \in calls : c.kind = "trigger" /\ c.page}

(* There is one at most, and the page says so while there is.              *)
DeskInv ==
  /\ OneTriggerAtATime
  /\ \A c \in Triggers(deskCalls) : desk.activeTab = "eod" /\ desk.eod.confirming

(* A return names a deposit.                                               *)
ReturnsNamed == \A c \in deskCalls : c.kind = "return" => c.deposit \in Settled

(* Pages start well typed.                                                 *)
LEMMA FreshDeskType == FreshEod \in EodPages /\ FreshDetail \in DetailPages
BY DEF FreshEod, EodPages, FreshDetail, DetailPages

(* Leaving a page, or closing its dialog, keeps its requests; of a page    *)
(* that was left no settlement is under way.                               *)
LEMMA GoneType ==
  ASSUME NEW calls \in SUBSET DeskRequests
  PROVE  /\ PageGone(calls) \subseteq DeskRequests /\ Triggers(PageGone(calls)) = {}
         /\ DialogGone(calls) \subseteq DeskRequests
         /\ \A c \in Triggers(DialogGone(calls)) :
              \E e \in Triggers(calls) : c = [e EXCEPT !.dialog = FALSE]
<1>1. ASSUME NEW e \in calls
      PROVE  /\ [e EXCEPT !.page = FALSE, !.dialog = FALSE] \in DeskRequests
             /\ ~[e EXCEPT !.page = FALSE, !.dialog = FALSE].page
             /\ [e EXCEPT !.dialog = FALSE] \in DeskRequests
             /\ [e EXCEPT !.dialog = FALSE].page = e.page
             /\ [e EXCEPT !.dialog = FALSE].kind = e.kind
  BY DEF DeskRequests
<1>2. PageGone(calls) \subseteq DeskRequests /\ \A c \in PageGone(calls) : ~c.page
  <2>1. ASSUME NEW c \in PageGone(calls) PROVE c \in DeskRequests /\ ~c.page
    <3>1. PICK e \in calls : c = [e EXCEPT !.page = FALSE, !.dialog = FALSE]
      BY DEF PageGone
    <3>2. QED
      BY <1>1, <3>1
  <2>2. QED
    BY <2>1
<1>3. DialogGone(calls) \subseteq DeskRequests
  BY <1>1 DEF DialogGone
<1>4. ASSUME NEW c \in Triggers(DialogGone(calls))
      PROVE  \E e \in Triggers(calls) : c = [e EXCEPT !.dialog = FALSE]
  <2>1. PICK e \in calls : c = [e EXCEPT !.dialog = FALSE]
    BY <1>4 DEF DialogGone, Triggers
  <2>2. c.kind = "trigger" /\ c.page
    BY <1>4 DEF Triggers
  <2>3. e \in Triggers(calls)
    BY <1>1, <2>1, <2>2 DEF Triggers
  <2>4. QED
    BY <2>1, <2>3
<1>5. QED
  BY <1>2, <1>3, <1>4 DEF Triggers

(* A new request is of the page that sends it.                             *)
LEMMA SendType ==
  ASSUME NEW calls \in SUBSET DeskRequests, NEW kind \in EodKinds \cup DetailKinds,
         NEW d \in Settled \cup {NoReturn}, SendFrom(calls, kind, d)
  PROVE  /\ deskCalls' \subseteq DeskRequests
         /\ \E c \in DeskRequests :
              deskCalls' = calls \cup {c} /\ c.kind = kind /\ c.deposit = d /\ c.page
<1>1. PICK t \in 1 .. DeskCalls : t = CHOOSE u \in FreeDeskTags : TRUE
  BY DEF SendFrom, FreeDeskTags
<1>2. DeskCall(t, kind, d) \in DeskRequests
  BY DEF DeskCall, DeskRequests
<1>3. LET c == DeskCall(t, kind, d) IN c.kind = kind /\ c.deposit = d /\ c.page
  BY DEF DeskCall
<1>4. deskCalls' = calls \cup {DeskCall(t, kind, d)}
  BY <1>1 DEF SendFrom
<1>5. QED
  BY <1>2, <1>3, <1>4

(* A step that keeps the tab, the flag of a settlement under way, and the  *)
(* requests for one (but for their dialogs), keeps the invariant.          *)
LEMMA DeskKeeps ==
  ASSUME DeskInv, desk'.activeTab = desk.activeTab,
         desk'.eod.confirming = desk.eod.confirming,
         \/ Triggers(deskCalls') \subseteq Triggers(deskCalls)
         \/ \A c \in Triggers(deskCalls') :
              \E e \in Triggers(deskCalls) : c = [e EXCEPT !.dialog = FALSE]
  PROVE  DeskInv'
<1>1. \A c, d \in Triggers(deskCalls) : c = d
  BY DEF DeskInv, OneTriggerAtATime, Triggers
<1>2. \A c, d \in Triggers(deskCalls') : c = d
  BY <1>1
<1>3. Triggers(deskCalls') # {} => Triggers(deskCalls) # {}
  OBVIOUS
<1>4. OneTriggerAtATime'
  BY <1>2 DEF OneTriggerAtATime, Triggers
<1>5. \A c \in Triggers(deskCalls') : desk'.activeTab = "eod" /\ desk'.eod.confirming
  BY <1>3 DEF DeskInv
<1>6. QED
  BY <1>4, <1>5 DEF DeskInv

(* A step after which no settlement is under way keeps it too.             *)
LEMMA NoneUnderWay ==
  ASSUME Triggers(deskCalls') = {}
  PROVE  DeskInv'
BY DEF DeskInv, OneTriggerAtATime, Triggers

(* A tab opens with a fresh page.                                          *)
LEMMA OpenTabKeeps ==
  ASSUME DeskTypeOK, DeskInv, NEW d \in Desks, d.visits = desk.visits,
         NEW tab \in {"batches", "detail", "eod"}, OpenTab(d, tab)
  PROVE  DeskTypeOK' /\ DeskInv'
<1> DEFINE calls == PageGone(deskCalls)
<1>1. deskCalls \in SUBSET DeskRequests /\ bounced \subseteq Settled
  BY DEF DeskTypeOK, DeskRequests
<1>2. calls \in SUBSET DeskRequests /\ Triggers(calls) = {}
  BY <1>1, GoneType
<1>3. d.visits - 1 \in 0 .. DeskVisits
  BY DeskAssumption DEF OpenTab, DeskTypeOK
<1>4. desk' \in Desks
  <2>1. desk' = [d EXCEPT !.activeTab = tab, !.eod = FreshEod, !.detail = FreshDetail,
                          !.visits = d.visits - 1]
    BY DEF OpenTab
  <2>2. QED
    BY <1>3, <2>1, FreshDeskType DEF Desks
<1>5. CASE tab = "detail"
  <2>1. SendFrom(calls, "detail", NoReturn) /\ UNCHANGED bounced
    BY <1>5 DEF OpenTab
  <2>2. "detail" \in EodKinds \cup DetailKinds /\ NoReturn \in Settled \cup {NoReturn}
    BY DEF DetailKinds
  <2> HIDE DEF calls
  <2>3. /\ deskCalls' \subseteq DeskRequests
        /\ \E c \in DeskRequests : deskCalls' = calls \cup {c} /\ c.kind = "detail" /\ c.page
    BY <1>2, <2>1, <2>2, SendType
  <2>4. Triggers(deskCalls') = {}
    BY <1>2, <2>3 DEF Triggers
  <2>5. DeskTypeOK'
    BY <1>1, <1>4, <2>1, <2>3 DEF DeskTypeOK, Desks, DeskRequests
  <2>6. QED
    BY <2>4, <2>5, NoneUnderWay
<1>6. CASE tab # "detail"
  <2>1. deskCalls' = calls /\ UNCHANGED bounced
    BY <1>6 DEF OpenTab
  <2> HIDE DEF calls
  <2>2. Triggers(deskCalls') = {}
    BY <1>2, <2>1
  <2>3. DeskTypeOK'
    BY <1>1, <1>2, <1>4, <2>1 DEF DeskTypeOK, Desks, DeskRequests
  <2>4. QED
    BY <2>2, <2>3, NoneUnderWay
<1>7. QED
  BY <1>5, <1>6

(* An edit of the end-of-day page that leaves `confirming' alone.          *)
LEMMA EodEdit ==
  ASSUME DeskTypeOK, DeskInv, NEW e \in EodPages, SetEod(e),
         e.confirming = desk.eod.confirming, UNCHANGED bounced,
         deskCalls' \subseteq DeskRequests, Triggers(deskCalls') \subseteq Triggers(deskCalls)
  PROVE  DeskTypeOK' /\ DeskInv'
<1>1. desk' \in Desks /\ desk'.activeTab = desk.activeTab /\ desk'.eod = e
  BY DEF SetEod, DeskTypeOK, Desks
<1>2. QED
  BY <1>1, DeskKeeps DEF DeskTypeOK, Desks, DeskRequests

(* An edit of the page of a batch.                                         *)
LEMMA DetailEdit ==
  ASSUME DeskTypeOK, DeskInv, NEW p \in DetailPages, SetDetail(p), UNCHANGED bounced,
         deskCalls' \subseteq DeskRequests,
         \/ Triggers(deskCalls') \subseteq Triggers(deskCalls)
         \/ \A c \in Triggers(deskCalls') :
              \E e \in Triggers(deskCalls) : c = [e EXCEPT !.dialog = FALSE]
  PROVE  DeskTypeOK' /\ DeskInv'
<1>1. desk' \in Desks /\ desk'.activeTab = desk.activeTab /\ desk'.eod = desk.eod
  BY DEF SetDetail, DeskTypeOK, Desks
<1>2. DeskInv'
  BY <1>1, DeskKeeps
<1>3. QED
  BY <1>1, <1>2 DEF DeskTypeOK, Desks, DeskRequests

(* The steps of the end-of-day tab.                                        *)
LEMMA EodKeeps ==
  ASSUME DeskTypeOK, DeskInv,
         \/ \E fails \in BOOLEAN : fetchStatusEnds(fails)
         \/ handleTriggerClick \/ ClosePreview \/ handleConfirmSettlement
  PROVE  DeskTypeOK' /\ DeskInv'
<1>1. /\ desk.eod \in EodPages /\ deskCalls \in SUBSET DeskRequests
      /\ NoReturn \in Settled \cup {NoReturn}
      /\ {"preview", "trigger"} \subseteq EodKinds \cup DetailKinds
  BY DEF DeskTypeOK, DeskRequests, EodKinds
<1>2. ASSUME NEW fails \in BOOLEAN, fetchStatusEnds(fails) PROVE DeskTypeOK' /\ DeskInv'
  <2> DEFINE e == [desk.eod EXCEPT !.hidden = fails]
  <2>1. e \in EodPages /\ e.confirming = desk.eod.confirming
    BY <1>1 DEF EodPages
  <2>2. SetEod(e) /\ UNCHANGED <<bounced, deskCalls>>
    BY <1>2 DEF fetchStatusEnds
  <2> HIDE DEF e
  <2>3. QED
    BY <1>1, <2>1, <2>2, EodEdit
<1>3. CASE handleTriggerClick
  <2> DEFINE e == [desk.eod EXCEPT !.previewLoading = TRUE, !.result = FALSE,
                                   !.settlementError = FALSE]
  <2>1. e \in EodPages /\ e.confirming = desk.eod.confirming
    BY <1>1 DEF EodPages
  <2>2. SetEod(e) /\ UNCHANGED bounced /\ SendFrom(deskCalls, "preview", NoReturn)
    BY <1>3 DEF handleTriggerClick
  <2> HIDE DEF e
  <2>3. /\ deskCalls' \subseteq DeskRequests
        /\ \E c \in DeskRequests : deskCalls' = deskCalls \cup {c} /\ c.kind = "preview"
    BY <1>1, <2>2, SendType
  <2>4. Triggers(deskCalls') \subseteq Triggers(deskCalls)
    BY <2>3 DEF Triggers
  <2>5. QED
    BY <2>1, <2>2, <2>3, <2>4, EodEdit
<1>4. CASE ClosePreview
  <2> DEFINE e == [desk.eod EXCEPT !.showPreview = FALSE]
  <2>1. e \in EodPages /\ e.confirming = desk.eod.confirming
    BY <1>1 DEF EodPages
  <2>2. SetEod(e) /\ UNCHANGED <<bounced, deskCalls>>
    BY <1>4 DEF ClosePreview
  <2> HIDE DEF e
  <2>3. QED
    BY <1>1, <2>1, <2>2, EodEdit
<1>5. CASE handleConfirmSettlement
  <2> DEFINE e == [desk.eod EXCEPT !.confirming = TRUE]
  <2>1. e \in EodPages /\ e.confirming
    BY <1>1 DEF EodPages
  <2>2. /\ SetEod(e) /\ UNCHANGED bounced /\ SendFrom(deskCalls, "trigger", NoReturn)
        /\ ~desk.eod.confirming /\ desk.activeTab = "eod"
    BY <1>5 DEF handleConfirmSettlement, CanConfirm, PreviewShown, EodShown
  <2> HIDE DEF e
  <2>3. PICK c \in DeskRequests : deskCalls' = deskCalls \cup {c}
    BY <1>1, <2>2, SendType
  <2>4. Triggers(deskCalls) = {}
    BY <2>2 DEF DeskInv
  <2>5. \A x, y \in Triggers(deskCalls') : x = y
    BY <2>3, <2>4 DEF Triggers
  <2>6. desk' \in Desks /\ desk'.activeTab = "eod" /\ desk'.eod.confirming
    BY <2>1, <2>2 DEF SetEod, DeskTypeOK, Desks
  <2>7. DeskTypeOK'
    BY <1>1, <2>2, <2>3, <2>6 DEF DeskTypeOK, Desks, DeskRequests
  <2>8. DeskInv'
    BY <2>5, <2>6 DEF DeskInv, OneTriggerAtATime, Triggers
  <2>9. QED
    BY <2>7, <2>8
<1>6. QED
  BY <1>2, <1>3, <1>4, <1>5

(* The steps of the page of a batch.                                       *)
LEMMA DetailKeeps ==
  ASSUME DeskTypeOK, DeskInv,
         \/ ReasonsArrive \/ CloseModal \/ handleConfirm \/ handleViewFile
         \/ \E d \in Settled : setReturnModal(d)
  PROVE  DeskTypeOK' /\ DeskInv'
<1>1. /\ desk.detail \in DetailPages /\ deskCalls \in SUBSET DeskRequests
      /\ desk.detail.returnModal \in Settled \cup {NoReturn}
      /\ {"return", "file"} \subseteq EodKinds \cup DetailKinds
  BY DEF DeskTypeOK, DeskRequests, DetailPages, DetailKinds
<1>2. CASE ReasonsArrive
  <2>1. [desk.detail EXCEPT !.returnReasons = TRUE] \in DetailPages
    BY <1>1 DEF DetailPages
  <2>2. QED
    BY <1>1, <1>2, <2>1, DetailEdit DEF ReasonsArrive
<1>3. ASSUME NEW d \in Settled, setReturnModal(d) PROVE DeskTypeOK' /\ DeskInv'
  <2>1. [desk.detail EXCEPT !.returnModal = d] \in DetailPages
    BY <1>1 DEF DetailPages
  <2>2. QED
    BY <1>1, <1>3, <2>1, DetailEdit DEF setReturnModal
<1>4. CASE CloseModal
  <2>1. [desk.detail EXCEPT !.returnModal = NoReturn, !.modal = "form"] \in DetailPages
    BY <1>1 DEF DetailPages
  <2>2. deskCalls' = DialogGone(deskCalls)
    BY <1>4 DEF CloseModal
  <2>3. /\ deskCalls' \subseteq DeskRequests
        /\ \A c \in Triggers(deskCalls') :
             \E e \in Triggers(deskCalls) : c = [e EXCEPT !.dialog = FALSE]
    BY <1>1, <2>2, GoneType
  <2>4. QED
    BY <1>4, <2>1, <2>3, DetailEdit DEF CloseModal
<1>5. CASE handleConfirm
  <2>1. [desk.detail EXCEPT !.modal = "processing"] \in DetailPages
    BY <1>1 DEF DetailPages
  <2>2. SendFrom(deskCalls, "return", desk.detail.returnModal)
    BY <1>5 DEF handleConfirm
  <2>3. PICK d \in Settled \cup {NoReturn} : d = desk.detail.returnModal
    BY <1>1
  <2>4. /\ deskCalls' \subseteq DeskRequests
        /\ \E c \in DeskRequests : deskCalls' = deskCalls \cup {c} /\ c.kind = "return"
    BY <1>1, <2>2, <2>3, SendType
  <2>5. Triggers(deskCalls') \subseteq Triggers(deskCalls)
    BY <2>4 DEF Triggers
  <2>6. QED
    BY <1>5, <2>1, <2>4, <2>5, DetailEdit DEF handleConfirm
<1>6. CASE handleViewFile
  <2> DEFINE next == CASE desk.detail.file = "none" -> "loading"
                       [] desk.detail.file = "shown" -> "hidden" [] OTHER -> "shown"
  <2>1. [desk.detail EXCEPT !.file = next] \in DetailPages
    BY <1>1 DEF DetailPages
  <2>2. /\ SetDetail([desk.detail EXCEPT !.file = next]) /\ UNCHANGED bounced
        /\ UNCHANGED deskCalls \/ SendFrom(deskCalls, "file", NoReturn)
    BY <1>6 DEF handleViewFile
  <2> HIDE DEF next
  <2>3. /\ deskCalls' \subseteq DeskRequests
        /\ \/ UNCHANGED deskCalls
           \/ \E c \in DeskRequests : deskCalls' = deskCalls \cup {c} /\ c.kind = "file"
    BY <1>1, <2>2, SendType
  <2>4. Triggers(deskCalls') \subseteq Triggers(deskCalls)
    BY <2>3 DEF Triggers
  <2>5. QED
    BY <2>1, <2>2, <2>3, <2>4, DetailEdit
<1>7. QED
  BY <1>2, <1>3, <1>4, <1>5, <1>6

(* The server's step changes what a request will answer, nothing else.     *)
LEMMA ServeKeeps ==
  ASSUME DeskTypeOK, DeskInv, ReturnsNamed, NEW c \in deskCalls, ServeDesk(c)
  PROVE  DeskTypeOK' /\ DeskInv'
<1>1. /\ deskCalls \subseteq DeskRequests /\ c \in DeskRequests /\ bounced \subseteq Settled
  BY DEF DeskTypeOK, DeskRequests
<1>2. PICK refused \in BOOLEAN :
       LET done == ~refused /\ (c.kind = "return" => c.deposit \notin bounced)
       IN  /\ bounced' = IF c.kind = "return" /\ done THEN bounced \cup {c.deposit}
                         ELSE bounced
           /\ deskCalls' = (deskCalls \ {c}) \cup
                {[c EXCEPT !.served = TRUE, !.ok = done,
                           !.read = IF c.kind = "detail" THEN bounced ELSE {}]}
  BY DEF ServeDesk
<1> DEFINE done == ~refused /\ (c.kind = "return" => c.deposit \notin bounced)
           answer == IF c.kind = "detail" THEN bounced ELSE {}
           served == [c EXCEPT !.served = TRUE, !.ok = done, !.read = answer]
<1>3. done \in BOOLEAN /\ answer \in SUBSET Settled
  BY <1>1
<1>4. /\ bounced' = IF c.kind = "return" /\ done THEN bounced \cup {c.deposit} ELSE bounced
      /\ deskCalls' = (deskCalls \ {c}) \cup {served}
  BY <1>2
<1> HIDE DEF done, answer
<1>5. served \in DeskRequests /\ served.kind = c.kind /\ served.page = c.page
  BY <1>1, <1>3 DEF DeskRequests
<1> HIDE DEF served
<1>6. bounced' \subseteq Settled
  BY <1>1, <1>4 DEF ReturnsNamed
<1>7. UNCHANGED desk
  BY DEF ServeDesk
<1>8. DeskTypeOK'
  BY <1>1, <1>4, <1>5, <1>6, <1>7 DEF DeskTypeOK, DeskRequests
<1>9. \A x, y \in Triggers(deskCalls) : x = y
  BY DEF DeskInv, OneTriggerAtATime, Triggers
<1>10. \A x, y \in Triggers(deskCalls') : x = y
  BY <1>4, <1>5, <1>9 DEF Triggers
<1>11. Triggers(deskCalls') # {} => Triggers(deskCalls) # {}
  BY <1>4, <1>5 DEF Triggers
<1>12. DeskInv'
  BY <1>7, <1>10, <1>11 DEF DeskInv, OneTriggerAtATime, Triggers
<1>13. QED
  BY <1>8, <1>12

(* The end of a request leaves the pages pages; only that of a settlement  *)
(* touches `confirming'.                                                   *)
LEMMA EndsType ==
  ASSUME NEW d \in Desks, NEW c \in DeskRequests, NEW ok \in BOOLEAN,
         NEW preview \in {"empty", "some"}
  PROVE  /\ Ends(d, c, ok, preview) \in Desks
         /\ Ends(d, c, ok, preview).activeTab = d.activeTab
         /\ c.kind # "trigger" =>
              Ends(d, c, ok, preview).eod.confirming = d.eod.confirming
<1>1. d.eod \in EodPages /\ d.detail \in DetailPages /\ c.read \in SUBSET Settled
  BY DEF Desks, DeskRequests
<1>2. c.kind \in {"preview", "trigger", "detail", "return", "file"}
  BY DEF DeskRequests, EodKinds, DetailKinds
<1>3. ASSUME NEW e \in EodPages
      PROVE  /\ [d EXCEPT !.eod = e] \in Desks
             /\ [d EXCEPT !.eod = e].activeTab = d.activeTab
             /\ [d EXCEPT !.eod = e].eod = e
  BY DEF Desks
<1>4. ASSUME NEW p \in DetailPages
      PROVE  /\ [d EXCEPT !.detail = p] \in Desks
             /\ [d EXCEPT !.detail = p].activeTab = d.activeTab
             /\ [d EXCEPT !.detail = p].eod = d.eod
  BY DEF Desks
<1>5. CASE c.kind = "preview"
  <2>1. /\ PreviewEnds(d.eod, ok, preview) \in EodPages
        /\ PreviewEnds(d.eod, ok, preview).confirming = d.eod.confirming
    BY <1>1 DEF PreviewEnds, EodPages
  <2>2. Ends(d, c, ok, preview) = [d EXCEPT !.eod = PreviewEnds(d.eod, ok, preview)]
    BY <1>5 DEF Ends
  <2>3. QED
    BY <1>3, <2>1, <2>2
<1>6. CASE c.kind = "trigger"
  <2>1. TriggerEnds(d.eod, ok) \in EodPages
    BY <1>1 DEF TriggerEnds, EodPages
  <2>2. Ends(d, c, ok, preview) = [d EXCEPT !.eod = TriggerEnds(d.eod, ok)]
    BY <1>6 DEF Ends
  <2>3. QED
    BY <1>3, <1>6, <2>1, <2>2
<1>7. CASE c.kind = "detail"
  <2>1. DetailEnds(d.detail, ok, c.read) \in DetailPages
    BY <1>1 DEF DetailEnds, DetailPages
  <2>2. Ends(d, c, ok, preview) = [d EXCEPT !.detail = DetailEnds(d.detail, ok, c.read)]
    BY <1>7 DEF Ends
  <2>3. QED
    BY <1>4, <2>1, <2>2
<1>8. CASE c.kind = "return"
  <2>1. onSuccess(d.detail) \in DetailPages
    BY <1>1 DEF onSuccess, Refetching, DetailPages
  <2>2. ReturnFails(d.detail, c) \in DetailPages
    BY <1>1 DEF ReturnFails, DetailPages, DeskRequests
  <2>3. Ends(d, c, ok, preview) =
          [d EXCEPT !.detail = IF ok THEN onSuccess(d.detail) ELSE ReturnFails(d.detail, c)]
    BY <1>8 DEF Ends
  <2>4. QED
    BY <1>4, <2>1, <2>2, <2>3
<1>9. CASE c.kind = "file"
  <2>1. FileEnds(d.detail, ok) \in DetailPages
    BY <1>1 DEF FileEnds, DetailPages
  <2>2. Ends(d, c, ok, preview) = [d EXCEPT !.detail = FileEnds(d.detail, ok)]
    BY <1>9 DEF Ends
  <2>3. QED
    BY <1>4, <2>1, <2>2
<1>10. QED
  BY <1>2, <1>5, <1>6, <1>7, <1>8, <1>9

(* The answer to a request ends it; a confirmed return sends a new one.    *)
LEMMA AnswerKeeps ==
  ASSUME DeskTypeOK, DeskInv, NEW c \in deskCalls, DeskAnswered(c)
  PROVE  DeskTypeOK' /\ DeskInv'
<1> DEFINE rest == deskCalls \ {c}
           again == DeskCall(c.tag, "detail", NoReturn)
<1>1. /\ deskCalls \subseteq DeskRequests /\ rest \in SUBSET DeskRequests
      /\ c \in DeskRequests /\ desk \in Desks
  BY DEF DeskTypeOK, DeskRequests, Desks
<1>2. PICK ok \in BOOLEAN, preview \in {"empty", "some"} :
        /\ desk' = IF c.page THEN Ends(desk, c, ok, preview) ELSE desk
        /\ deskCalls' = IF c.kind = "return" /\ c.page /\ ok
                        THEN DialogGone(rest) \cup {again} ELSE rest
  <2>1. PICK lost \in BOOLEAN, preview \in {"empty", "some"} :
          LET ok == handleResponse(DeskRoute(c.kind), lost \/ ~c.ok) = "resolved"
          IN  /\ desk' = IF c.page THEN Ends(desk, c, ok, preview) ELSE desk
              /\ deskCalls' = IF c.kind = "return" /\ c.page /\ ok
                              THEN DialogGone(rest) \cup {again} ELSE rest
    BY DEF DeskAnswered
  <2> DEFINE ok == handleResponse(DeskRoute(c.kind), lost \/ ~c.ok) = "resolved"
  <2>2. ok \in BOOLEAN
    OBVIOUS
  <2>3. /\ desk' = IF c.page THEN Ends(desk, c, ok, preview) ELSE desk
        /\ deskCalls' = IF c.kind = "return" /\ c.page /\ ok
                        THEN DialogGone(rest) \cup {again} ELSE rest
    BY <2>1
  <2> HIDE DEF ok, rest, again
  <2>4. QED
    BY <2>2, <2>3
<1>3. again \in DeskRequests /\ again.kind = "detail"
  BY <1>1 DEF DeskCall, DeskRequests, DetailKinds
<1> HIDE DEF again
<1>4. /\ Triggers(rest) \subseteq Triggers(deskCalls)
      /\ DialogGone(rest) \subseteq DeskRequests
      /\ \A t \in Triggers(DialogGone(rest)) :
           \E e \in Triggers(rest) : t = [e EXCEPT !.dialog = FALSE]
  BY <1>1, GoneType DEF Triggers
<1>5. deskCalls' \subseteq DeskRequests
  BY <1>1, <1>2, <1>3, <1>4
<1>6. desk' \in Desks /\ desk'.activeTab = desk.activeTab
  BY <1>1, <1>2, EndsType
<1>7. DeskTypeOK'
  <2>1. UNCHANGED bounced
    BY DEF DeskAnswered
  <2>2. QED
    BY <1>5, <1>6, <2>1 DEF DeskTypeOK, Desks, DeskRequests
<1>8. CASE c \in Triggers(deskCalls)
  <2>1. \A x \in Triggers(deskCalls) : x = c
    BY <1>8 DEF DeskInv, OneTriggerAtATime, Triggers
  <2>2. deskCalls' = rest
    BY <1>2, <1>8 DEF Triggers
  <2>3. Triggers(deskCalls') = {}
    BY <2>1, <2>2 DEF Triggers
  <2>4. QED
    BY <1>7, <2>3, NoneUnderWay
<1>9. CASE c \notin Triggers(deskCalls)
  <2>1. desk'.eod.confirming = desk.eod.confirming
    BY <1>1, <1>2, <1>9, EndsType DEF Triggers
  <2>2. CASE deskCalls' = rest
    BY <1>4, <1>6, <1>7, <2>1, <2>2, DeskKeeps
  <2>3. CASE deskCalls' = DialogGone(rest) \cup {again}
    <3>1. Triggers(deskCalls') = Triggers(DialogGone(rest))
      BY <1>3, <2>3 DEF Triggers
    <3>2. \A t \in Triggers(deskCalls') :
            \E e \in Triggers(deskCalls) : t = [e EXCEPT !.dialog = FALSE]
      BY <1>4, <3>1
    <3>3. QED
      BY <1>6, <1>7, <2>1, <3>2, DeskKeeps
  <2>4. QED
    BY <1>2, <2>2, <2>3
<1>10. QED
  BY <1>8, <1>9

(* Requests keep what they are for, and a return is sent for the deposit   *)
(* the open dialog is about.                                               *)
LEMMA NextReturnsNamed ==
  ASSUME DeskTypeOK, ReturnsNamed, [DeskNext]_deskVars
  PROVE  ReturnsNamed'
<1>1. /\ deskCalls \in SUBSET DeskRequests /\ NoReturn \in Settled \cup {NoReturn}
      /\ {"preview", "trigger", "detail", "return", "file"} \subseteq EodKinds \cup DetailKinds
  BY DEF DeskTypeOK, DeskRequests, EodKinds, DetailKinds
<1>2. /\ PageGone(deskCalls) \in SUBSET DeskRequests
      /\ \A c \in PageGone(deskCalls) : c.kind = "return" => c.deposit \in Settled
      /\ \A e \in deskCalls : [e EXCEPT !.dialog = FALSE].kind = e.kind
                             /\ [e EXCEPT !.dialog = FALSE].deposit = e.deposit
  <2>1. ASSUME NEW e \in deskCalls
        PROVE  /\ [e EXCEPT !.page = FALSE, !.dialog = FALSE].kind = e.kind
               /\ [e EXCEPT !.page = FALSE, !.dialog = FALSE].deposit = e.deposit
               /\ [e EXCEPT !.dialog = FALSE].kind = e.kind
               /\ [e EXCEPT !.dialog = FALSE].deposit = e.deposit
    BY <1>1 DEF DeskRequests
  <2>2. ASSUME NEW c \in PageGone(deskCalls), c.kind = "return" PROVE c.deposit \in Settled
    <3>1. PICK e \in deskCalls : c = [e EXCEPT !.page = FALSE, !.dialog = FALSE]
      BY DEF PageGone
    <3>2. QED
      BY <2>1, <2>2, <3>1 DEF ReturnsNamed
  <2>3. QED
    BY <1>1, <2>1, <2>2, GoneType
<1>3. ASSUME NEW d, NEW tab, OpenTab(d, tab) PROVE ReturnsNamed'
  <2>1. CASE deskCalls' = PageGone(deskCalls)
    BY <1>2, <2>1 DEF ReturnsNamed
  <2>2. CASE SendFrom(PageGone(deskCalls), "detail", NoReturn)
    <3>1. \E c \in DeskRequests :
            deskCalls' = PageGone(deskCalls) \cup {c} /\ c.kind = "detail"
      BY <1>1, <1>2, <2>2, SendType
    <3>2. QED
      BY <1>2, <3>1 DEF ReturnsNamed
  <2>3. QED
    BY <1>3, <2>1, <2>2 DEF OpenTab
<1>4. ASSUME NEW kind \in {"preview", "trigger", "file"}, SendFrom(deskCalls, kind, NoReturn)
      PROVE  ReturnsNamed'
  <2>1. \E c \in DeskRequests : deskCalls' = deskCalls \cup {c} /\ c.kind = kind
    BY <1>1, <1>4, SendType
  <2>2. QED
    BY <2>1 DEF ReturnsNamed
<1>5. CASE handleConfirm
  <2>1. PICK d \in Settled : d = desk.detail.returnModal
    BY <1>5 DEF handleConfirm, ModalShown, DeskTypeOK, DetailPages
  <2>2. SendFrom(deskCalls, "return", d)
    BY <1>5, <2>1 DEF handleConfirm
  <2>3. \E c \in DeskRequests : deskCalls' = deskCalls \cup {c} /\ c.deposit = d
    BY <1>1, <2>2, SendType
  <2>4. QED
    BY <2>3 DEF ReturnsNamed
<1>6. CASE UNCHANGED deskCalls
  BY <1>6 DEF ReturnsNamed
<1>7. ASSUME NEW calls \in SUBSET deskCalls,
             \/ deskCalls' \subseteq calls
             \/ deskCalls' = DialogGone(calls)
             \/ \E t : deskCalls' = DialogGone(calls) \cup {DeskCall(t, "detail", NoReturn)}
      PROVE  ReturnsNamed'
  <2>1. \A c \in DialogGone(calls) : \E e \in deskCalls : c.kind = e.kind /\ c.deposit = e.deposit
    BY <1>2 DEF DialogGone
  <2>2. \A t : DeskCall(t, "detail", NoReturn).kind = "detail"
    BY DEF DeskCall
  <2>3. QED
    BY <1>7, <2>1, <2>2 DEF ReturnsNamed
<1>8. ASSUME NEW c \in deskCalls, ServeDesk(c) PROVE ReturnsNamed'
  <2>1. PICK done, read :
          deskCalls' = (deskCalls \ {c}) \cup
                         {[c EXCEPT !.served = TRUE, !.ok = done, !.read = read]}
    BY <1>8 DEF ServeDesk
  <2>2. LET s == [c EXCEPT !.served = TRUE, !.ok = done, !.read = read]
        IN  s.kind = c.kind /\ s.deposit = c.deposit
    BY <1>1 DEF DeskRequests
  <2>3. QED
    BY <2>1, <2>2 DEF ReturnsNamed
<1>9. ASSUME NEW c \in deskCalls, DeskAnswered(c) PROVE ReturnsNamed'
  <2>1. \/ deskCalls' = deskCalls \ {c}
        \/ deskCalls' = DialogGone(deskCalls \ {c}) \cup {DeskCall(c.tag, "detail", NoReturn)}
    BY <1>9 DEF DeskAnswered
  <2>2. QED
    BY <1>7, <2>1
<1>10. CASE CloseModal
  BY <1>7, <1>10 DEF CloseModal
<1>11. CASE handleSelectBatch \/ \E tab \in {"batches", "detail", "eod"} : handleTabClick(tab)
  BY <1>3, <1>11 DEF handleSelectBatch, handleTabClick
<1>12. CASE \/ \E fails \in BOOLEAN : fetchStatusEnds(fails)
            \/ ClosePreview \/ ReasonsArrive \/ \E d \in Settled : setReturnModal(d)
            \/ UNCHANGED deskVars
  BY <1>6, <1>12 DEF fetchStatusEnds, ClosePreview, ReasonsArrive, setReturnModal, deskVars
<1>13. CASE handleTriggerClick \/ handleConfirmSettlement \/ handleViewFile
  BY <1>4, <1>6, <1>13 DEF handleTriggerClick, handleConfirmSettlement, handleViewFile
<1>14. QED
  BY <1>5, <1>8, <1>9, <1>10, <1>11, <1>12, <1>13 DEF DeskNext

(* Every step of the console keeps its types and its invariant.            *)
LEMMA NextDesk ==
  DeskTypeOK /\ ReturnsNamed /\ DeskInv /\ [DeskNext]_deskVars
    => (DeskTypeOK /\ ReturnsNamed /\ DeskInv)'
<1> SUFFICES ASSUME DeskTypeOK, ReturnsNamed, DeskInv, [DeskNext]_deskVars
             PROVE  DeskTypeOK' /\ DeskInv'
  BY NextReturnsNamed
<1>1. desk \in Desks
  BY DEF DeskTypeOK, Desks
<1>2. CASE handleSelectBatch
  <2>1. /\ [desk EXCEPT !.selectedBatch = TRUE] \in Desks
        /\ [desk EXCEPT !.selectedBatch = TRUE].visits = desk.visits
    BY <1>1 DEF Desks
  <2>2. QED
    BY <1>2, <2>1, OpenTabKeeps DEF handleSelectBatch
<1>3. ASSUME NEW tab \in {"batches", "detail", "eod"}, handleTabClick(tab)
      PROVE  DeskTypeOK' /\ DeskInv'
  <2>1. PICK to \in {"batches", "detail", "eod"} : OpenTab(desk, to)
    BY <1>3 DEF handleTabClick
  <2>2. QED
    BY <1>1, <2>1, OpenTabKeeps
<1>4. CASE UNCHANGED deskVars
  BY <1>4 DEF deskVars, DeskTypeOK, DeskInv, OneTriggerAtATime, Triggers
<1>5. QED
  BY <1>2, <1>3, <1>4, EodKeeps, DetailKeeps, ServeKeeps, AnswerKeeps DEF DeskNext

(* Initially the batches are shown and nothing is under way.               *)
LEMMA InitDesk == DeskInit => DeskTypeOK /\ ReturnsNamed /\ DeskInv
BY FreshDeskType, DeskAssumption
   DEF DeskInit, DeskTypeOK, ReturnsNamed, DeskInv, OneTriggerAtATime, Triggers

(* The end-of-day page never has two settlements under way, although its   *)
(* preview can be closed, or vanish with a failed poll, while one runs.    *)
THEOREM OneTrigger == DeskSpec => []OneTriggerAtATime
<1>1. DeskInv => OneTriggerAtATime
  BY DEF DeskInv
<1>2. QED
  BY <1>1, InitDesk, NextDesk, PTL DEF DeskSpec
===============================================================================
