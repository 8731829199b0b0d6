------------------------------ MODULE AdminView -------------------------------
(***************************************************************************)
(* The administrator's console (views/AdminView.jsx): the tabs, the trace  *)
(* of one deposit and the two actions.  The tabs that list all deposits    *)
(* and the health figures are in Listings.                                 *)
(*                                                                         *)
(* A tab is mounted afresh whenever it is opened.  The id handed over from *)
(* the list of deposits stays with the parent, so the trace tab fetches it *)
(* again each time.                                                        *)
(***************************************************************************)
EXTENDS Naturals, FiniteSets, Api

CONSTANTS Traced,       \* the ids that may be typed or handed over
          NoTrace,      \* no id
          AdminCallCap, \* bound: requests under way at once
          AdminVisits   \* bound: tabs opened

ASSUME AdminAssumption ==
  NoTrace \notin Traced /\ {AdminCallCap, AdminVisits} \subseteq Nat

VARIABLES admin,        \* AdminView and the tab that is open
          adminCalls    \* the requests under way

adminVars == <<admin, adminCalls>>

TraceIds == Traced \cup {NoTrace}

(* `asked' is for the property: the id of the last request.                *)
FreshTrace(id) ==
  [inputId |-> id, trace |-> NoTrace, loading |-> id # NoTrace, error |-> FALSE, asked |-> id]

TraceTabs ==
  [inputId : TraceIds, trace : TraceIds, loading : BOOLEAN, error : BOOLEAN,
   asked : TraceIds]

Idle == [busy |-> FALSE, result |-> FALSE, error |-> FALSE]
FreshActions ==
  [settle |-> Idle, return |-> Idle, returnReasons |-> FALSE, returnId |-> FALSE]

Requests == [busy : BOOLEAN, result : BOOLEAN, error : BOOLEAN]
ActionPages ==
  [settle : Requests, return : Requests, returnReasons : BOOLEAN, returnId : BOOLEAN]

AdminTypeOK ==
  /\ admin \in [activeTab : {"trace", "all", "actions", "health"},
                traceTransferId : TraceIds, visits : 0 .. AdminVisits,
                traceTab : TraceTabs, actions : ActionPages]
  /\ adminCalls \subseteq [tag : 1 .. AdminCallCap, kind : {"trace", "settle", "return"},
                           transfer : TraceIds, mounted : BOOLEAN]

AdminInit ==
  /\ admin = [activeTab |-> "trace", traceTransferId |-> NoTrace, visits |-> AdminVisits,
              traceTab |-> FreshTrace(NoTrace), actions |-> FreshActions]
  /\ adminCalls = {}

-------------------------------------------------------------------------------
FreeAdminTags == {t \in 1 .. AdminCallCap : \A c \in adminCalls : c.tag # t}

SendAdmin(calls, kind, transfer) ==
  /\ FreeAdminTags # {}
  /\ adminCalls' = calls \cup
       {[tag |-> CHOOSE t \in FreeAdminTags : TRUE, kind |-> kind, transfer |-> transfer,
         mounted |-> TRUE]}

Deserted(calls) == {[c EXCEPT !.mounted = FALSE] : c \in calls}

(* Opens a tab; the trace tab fetches the id it is handed, if any.         *)
OpenAdminTab(tab, handed) ==
  /\ tab # admin.activeTab /\ admin.visits > 0
  /\ admin' = [admin EXCEPT !.activeTab = tab, !.traceTransferId = handed,
                            !.visits = @ - 1, !.actions = FreshActions,
                            !.traceTab = FreshTrace(IF tab = "trace" THEN handed ELSE NoTrace)]
  /\ IF tab = "trace" /\ handed # NoTrace
     THEN SendAdmin(Deserted(adminCalls), "trace", handed)
     ELSE adminCalls' = Deserted(adminCalls)

setAdminTab(tab) == OpenAdminTab(tab, admin.traceTransferId)

handleTraceTransfer(id) == admin.activeTab = "all" /\ OpenAdminTab("trace", id)

-------------------------------------------------------------------------------
(* The trace tab.                                                          *)
TraceOpen == admin.activeTab = "trace"
SetTrace(t) == admin' = [admin EXCEPT !.traceTab = t]

EditTraceId(id) ==
  /\ TraceOpen /\ id # admin.traceTab.inputId
  /\ SetTrace([admin.traceTab EXCEPT !.inputId = id])
  /\ UNCHANGED adminCalls

(* Mutant: a second look-up may be sent before the first is answered.      *)
TraceAnytime == admin.traceTab.inputId # NoTrace

(* The button; pressing Enter in the field goes through it too.            *)
CanTrace == ~admin.traceTab.loading /\ admin.traceTab.inputId # NoTrace

handleTraceLookup ==
  /\ TraceOpen /\ CanTrace
  /\ SendAdmin(adminCalls, "trace", admin.traceTab.inputId)
  /\ SetTrace([admin.traceTab EXCEPT !.loading = TRUE, !.error = FALSE, !.trace = NoTrace,
                                     !.asked = admin.traceTab.inputId])

TraceEnds(t, id, ok) ==
  IF ok THEN [t EXCEPT !.loading = FALSE, !.trace = id]
  ELSE [t EXCEPT !.loading = FALSE, !.error = TRUE]

-------------------------------------------------------------------------------
(* The actions tab.                                                        *)
ActionsOpen == admin.activeTab = "actions"
SetActions(a) == admin' = [admin EXCEPT !.actions = a]

Busy == [busy |-> TRUE, result |-> FALSE, error |-> FALSE]

AdminReasonsArrive ==
  /\ ActionsOpen /\ ~admin.actions.returnReasons
  /\ SetActions([admin.actions EXCEPT !.returnReasons = TRUE])
  /\ UNCHANGED adminCalls

CanSettle == ~admin.actions.settle.busy

handleTriggerSettlement ==
  /\ ActionsOpen /\ CanSettle
  /\ SendAdmin(adminCalls, "settle", NoTrace)
  /\ SetActions([admin.actions EXCEPT !.settle = Busy])

(* The form gives way to the confirmation of a return until it is reset.   *)
ReturnFormOpen == ActionsOpen /\ ~admin.actions.return.result

EditReturnId ==
  /\ ReturnFormOpen
  /\ SetActions([admin.actions EXCEPT !.returnId = ~@])
  /\ UNCHANGED adminCalls

(* Mutant: the button stays enabled while a return is processed.           *)
ReturnAgain == admin.actions.returnId /\ admin.actions.returnReasons

CanReturn ==
  ~admin.actions.return.busy /\ admin.actions.returnId /\ admin.actions.returnReasons

handleReturn ==
  /\ ReturnFormOpen /\ CanReturn
  /\ SendAdmin(adminCalls, "return", NoTrace)
  /\ SetActions([admin.actions EXCEPT !.return = Busy])

ReturnAnother ==
  /\ ActionsOpen /\ admin.actions.return.result
  /\ SetActions([admin.actions EXCEPT !.return.result = FALSE, !.returnId = FALSE])
  /\ UNCHANGED adminCalls

ActionEnds(a, ok) ==
  IF ok THEN [a EXCEPT !.busy = FALSE, !.result = TRUE]
  ELSE [a EXCEPT !.busy = FALSE, !.error = TRUE]

-------------------------------------------------------------------------------
AdminRoute(kind) ==
  CASE kind = "trace"  -> AdminCalls.getDepositTrace
    [] kind = "settle" -> OperatorCalls.triggerSettlement
    [] kind = "return" -> OperatorCalls.returnDeposit

(* The server may grant or refuse whatever it is asked.                    *)
AdminAnswered(c) ==
  /\ c \in adminCalls /\ adminCalls' = adminCalls \ {c}
  /\ \E fails \in BOOLEAN :
       LET ok == handleResponse(AdminRoute(c.kind), fails) = "resolved" IN
       admin' = CASE ~c.mounted         -> admin
                  [] c.mounted /\ c.kind = "trace" ->
                       [admin EXCEPT !.traceTab = TraceEnds(@, c.transfer, ok)]
                  [] c.mounted /\ c.kind = "settle" ->
                       [admin EXCEPT !.actions.settle = ActionEnds(@, ok)]
                  [] c.mounted /\ c.kind = "return" ->
                       [admin EXCEPT !.actions.return = ActionEnds(@, ok)]

AdminNext ==
  \/ \E tab \in {"trace", "all", "actions", "health"} : setAdminTab(tab)
  \/ \E t \in Traced : handleTraceTransfer(t)
  \/ \E t \in TraceIds : EditTraceId(t)
  \/ handleTraceLookup
  \/ AdminReasonsArrive \/ handleTriggerSettlement
  \/ EditReturnId \/ handleReturn \/ ReturnAnother
  \/ \E c \in adminCalls : AdminAnswered(c)

AdminSpec == AdminInit /\ [][AdminNext]_adminVars

-------------------------------------------------------------------------------
(* The trace on the screen is that of the id asked for last, however       *)
(* look-ups, hand-overs and late answers interleave; and once "Loading..." *)
(* is over there is a trace or an error, never both.                       *)
TraceAnswersLastLookup ==
  LET t == admin.traceTab IN
  /\ t.trace \in {NoTrace, t.asked}
  /\ t.loading => t.trace = NoTrace /\ ~t.error
  /\ (~t.loading /\ t.asked # NoTrace) => (t.error <=> t.trace = NoTrace)

(* Each action of the page has one request under way at most, and shows    *)
(* one outcome, its last one's: no earlier success beside a new failure.   *)
OneOutcomePerAction ==
  \A kind \in {"settle", "return"} :
    LET a == admin.actions[kind]
        sent == {c \in adminCalls : c.kind = kind /\ c.mounted}
    IN  /\ Cardinality(sent) = (IF a.busy THEN 1 ELSE 0)
        /\ ~(a.result /\ a.error)
===============================================================================
