------------------------------- MODULE Listings -------------------------------
(***************************************************************************)
(* The views that show what one endpoint lists: the investor's deposits    *)
(* and ledger, the operator's queue and audit log, the batches and the     *)
(* end-of-day figures, the administrator's deposits and the health page.   *)
(* They share one shape (fetch when opened and when their key changes, an  *)
(* interval, loading and error flags) and differ in its details: what a    *)
(* key change resets, what a failure clears, which panels exclude which.   *)
(*                                                                         *)
(* One view is open at a time.  `listing' is its state, and the counter    *)
(* its parent keeps; `rows' is the table behind the endpoint, and a        *)
(* request carries what it read there once it was served.                  *)
(***************************************************************************)
EXTENDS Naturals, FiniteSets, InvestorAccounts, Api

CONSTANTS Items,        \* the rows there may be (of Health: what is connected)
          ItemKey,      \* the account each belongs to
          NoFilter,     \* the key of a view that lists everything
          ListSlots,    \* bound: requests under way at once
          ListBudget    \* bound: changes, switches, failures, views opened

ASSUME ListingAssumption ==
  /\ IsFiniteSet(Items) /\ ItemKey \in [Items -> AccountIds] /\ NoFilter \notin AccountIds
  /\ ListSlots \in Nat /\ ListBudget \in [{"changes", "switches", "failures", "visits"} -> Nat]

VARIABLES rows, listing, listCalls, listBudget

listVars == <<rows, listing, listCalls, listBudget>>

AccountViews == {"DepositList", "LedgerView"}
ListViews == AccountViews \cup
  {"ReviewQueue", "AuditLogTab", "BatchesTab", "EODStatusTab", "AllDepositsTab", "HealthTab"}

(* LedgerView is fetched when its account changes and by its button only.  *)
PolledViews == ListViews \ {"LedgerView"}
RefreshedViews == {"LedgerView", "HealthTab"}

(* The keys a view can be switched to; it may start on the start account.  *)
Keys == AccountIds \cup {NoFilter}
KeysOf(v) ==
  IF v \in AccountViews THEN ACCOUNTS
  ELSE IF v \in {"AllDepositsTab", "AuditLogTab"} THEN Keys ELSE {NoFilter}

ListCallOf(v) ==
  CASE v = "DepositList"    -> DepositCalls.listDeposits
    [] v = "LedgerView"     -> DepositCalls.getLedger
    [] v = "ReviewQueue"    -> OperatorCalls.getQueue
    [] v = "AuditLogTab"    -> OperatorCalls.getAuditLog
    [] v = "BatchesTab"     -> SettlementCalls.listBatches
    [] v = "EODStatusTab"   -> SettlementCalls.getEODStatus
    [] v = "AllDepositsTab" -> AdminCalls.listAllDeposits
    [] v = "HealthTab"      -> AdminCalls.getHealth

NoView == "none"

ListingTypeOK ==
  /\ rows \subseteq Items
  /\ listing \in [view : ListViews \cup {NoView}, key : Keys, data : SUBSET Items,
                  loaded : BOOLEAN, loading : BOOLEAN, error : BOOLEAN,
                  queueCount : 0 .. Cardinality(Items)]
  /\ Cardinality(listCalls) <= ListSlots
  /\ \A c \in listCalls : c.view \in ListViews /\ c.answer \subseteq Items
  /\ \A b \in DOMAIN listBudget : listBudget[b] \in 0 .. ListBudget[b]

Closing(count) ==
  [view |-> NoView, key |-> NoFilter, data |-> {}, loaded |-> FALSE, loading |-> FALSE,
   error |-> FALSE, queueCount |-> count]

ListingInit ==
  /\ rows = {} /\ listing = Closing(0) /\ listCalls = {} /\ listBudget = ListBudget

-------------------------------------------------------------------------------
SpendOn(what) ==
  /\ listBudget[what] > 0
  /\ listBudget' = [listBudget EXCEPT ![what] = @ - 1]

RowsOf(key) == {i \in rows : key \in {NoFilter, ItemKey[i]}}

(* The audit log is filtered by the client, the other lists by the server. *)
AskedKey(v, key) == IF v = "AuditLogTab" THEN NoFilter ELSE key
Kept(v, key, data) ==
  IF v = "AuditLogTab" THEN {i \in data : key \in {NoFilter, ItemKey[i]}} ELSE data

(* "first" is the fetch whose end DepositList waits for before it says     *)
(* that it has loaded; elsewhere every fetch ends loading.                 *)
ListRequest(v, key, first) ==
  [view |-> v, key |-> AskedKey(v, key), first |-> first, served |-> FALSE,
   answer |-> {}, mounted |-> TRUE]

SendList(r) ==
  /\ Cardinality(listCalls) < ListSlots
  /\ listCalls' = listCalls \cup {r}

Opened(v, key) ==
  [Closing(listing.queueCount) EXCEPT !.view = v, !.key = key, !.loading = TRUE]

OpenView(v) ==
  /\ listing.view = NoView /\ SpendOn("visits")
  /\ \E key \in IF v \in AccountViews THEN AccountIds ELSE {NoFilter} :
       listing' = Opened(v, key) /\ SendList(ListRequest(v, key, TRUE))
  /\ UNCHANGED rows

(* Another account or filter: what the view resets before it fetches.      *)
Rekeyed(l, key) ==
  CASE l.view = "DepositList" -> [l EXCEPT !.key = key, !.loading = TRUE]
    [] l.view = "LedgerView"  -> [l EXCEPT !.key = key, !.loading = TRUE, !.error = FALSE]
    [] OTHER                  -> [l EXCEPT !.key = key]

SwitchKey(key) ==
  /\ listing.view # NoView /\ key \in KeysOf(listing.view) \ {listing.key}
  /\ SpendOn("switches")
  /\ listing' = Rekeyed(listing, key)
  /\ IF listing.view = "AuditLogTab" THEN UNCHANGED listCalls
     ELSE SendList(ListRequest(listing.view, key, TRUE))
  /\ UNCHANGED rows

(* Mutant: the interval asks for the account of the first render.          *)
FirstKey(l) == IF l.view \in AccountViews THEN StartAccount ELSE l.key

(* The interval asks for the key of the render that set it; a key change   *)
(* clears it and sets another.                                             *)
PolledKey(l) == l.key

PollView ==
  /\ listing.view \in PolledViews
  /\ SendList(ListRequest(listing.view, PolledKey(listing), FALSE))
  /\ UNCHANGED <<rows, listing, listBudget>>

CanRefresh ==
  \/ listing.view = "LedgerView" /\ ~listing.loading
  \/ listing.view = "HealthTab" /\ listing.loaded

RefreshView ==
  /\ CanRefresh
  /\ SendList(ListRequest(listing.view, listing.key, TRUE))
  /\ listing' = IF listing.view = "LedgerView" THEN Rekeyed(listing, listing.key) ELSE listing
  /\ UNCHANGED <<rows, listBudget>>

ServeList(c) ==
  /\ c \in listCalls /\ ~c.served
  /\ listCalls' = (listCalls \ {c}) \cup
       {[c EXCEPT !.served = TRUE, !.answer = RowsOf(c.key)]}
  /\ UNCHANGED <<rows, listing, listBudget>>

EndsLoading(c) == c.view # "DepositList" \/ c.first

Loaded(l, c) ==
  [l EXCEPT !.data = c.answer, !.loaded = TRUE, !.error = FALSE,
            !.loading = @ /\ ~EndsLoading(c)]

(* A failed fetch keeps what is shown; the ledger and the health page do   *)
(* not, and the health page has a status of its own to show instead.       *)
LoadFailed(l, c) ==
  [l EXCEPT !.error = TRUE, !.loading = @ /\ ~EndsLoading(c),
            !.data = IF l.view \in RefreshedViews THEN {} ELSE @,
            !.loaded = IF l.view = "LedgerView" THEN FALSE
                       ELSE IF l.view = "HealthTab" THEN TRUE ELSE @]

(* The queue hands its length to its parent, also when it is closed.       *)
Counted(l, c) ==
  IF c.view = "ReviewQueue" THEN [l EXCEPT !.queueCount = Cardinality(c.answer)] ELSE l

(* The server answers 503 when anything is disconnected, and the client    *)
(* takes that for a failure: it never shows which of them it is.           *)
Degraded(c) == c.view = "HealthTab" /\ c.answer # Items

ListAnswered(c) ==
  /\ c \in listCalls /\ c.served
  /\ LET ok == handleResponse(ListCallOf(c.view), Degraded(c)) = "resolved"
         shown == CASE ~c.mounted      -> listing
                    [] c.mounted /\ ok -> Loaded(listing, c)
                    [] OTHER           -> LoadFailed(listing, c)
     IN  listing' = Counted(shown, c)
  /\ listCalls' = listCalls \ {c}
  /\ UNCHANGED <<rows, listBudget>>

ListFailed(c) ==
  /\ c \in listCalls /\ SpendOn("failures")
  /\ listing' = IF c.mounted THEN LoadFailed(listing, c) ELSE listing
  /\ listCalls' = listCalls \ {c}
  /\ UNCHANGED rows

CloseView ==
  /\ listing.view # NoView
  /\ listing' = Closing(listing.queueCount)
  /\ listCalls' = {[c EXCEPT !.mounted = FALSE] : c \in listCalls}
  /\ UNCHANGED <<rows, listBudget>>

(* Meanwhile rows come and, from the queue for instance, go.               *)
RowChanges(i) ==
  /\ SpendOn("changes")
  /\ rows' = IF i \in rows THEN rows \ {i} ELSE rows \cup {i}
  /\ UNCHANGED <<listing, listCalls>>

ListingNext ==
  \/ \E v \in ListViews : OpenView(v)
  \/ \E key \in Keys : SwitchKey(key)
  \/ PollView \/ RefreshView \/ CloseView
  \/ \E c \in listCalls : ServeList(c) \/ ListAnswered(c) \/ ListFailed(c)
  \/ \E i \in Items : RowChanges(i)

(* The interval fires; no request is kept waiting by those after it, and   *)
(* polls in particular do not keep the first fetch waiting.                *)
ListingFairness ==
  /\ WF_listVars(PollView)
  /\ \A first \in BOOLEAN :
       /\ WF_listVars(\E c \in listCalls : c.first = first /\ ServeList(c))
       /\ WF_listVars(\E c \in listCalls : c.first = first /\ ListAnswered(c))

ListingSpec == ListingInit /\ [][ListingNext]_listVars /\ ListingFairness

-------------------------------------------------------------------------------
(* The panels on the screen, as each view's conditions have them.          *)
Panels ==
  LET l == listing
      shown == Kept(l.view, l.key, l.data)
  IN  CASE l.view \in {"ReviewQueue", "BatchesTab", "EODStatusTab"} ->
             IF l.loading THEN {"loading"} ELSE IF l.error THEN {"error"}
             ELSE IF shown = {} /\ l.view # "EODStatusTab" THEN {"empty"} ELSE {"rows"}
        [] l.view = "DepositList" ->
             {p \in {"loading", "error", "empty", "rows"} :
                \/ p = "error"   /\ l.error
                \/ p = "loading" /\ l.loading /\ shown = {}
                \/ p = "empty"   /\ ~l.loading /\ ~l.error /\ shown = {}
                \/ p = "rows"    /\ shown # {}}
        [] l.view \in {"AuditLogTab", "AllDepositsTab"} ->
             {p \in {"loading", "error", "empty", "rows"} :
                \/ p = "error"   /\ l.error
                \/ p = "loading" /\ l.loading
                \/ p = "empty"   /\ ~l.loading /\ shown = {}
                \/ p = "rows"    /\ shown # {}}
        [] l.view = "LedgerView" ->
             {p \in {"loading", "error", "rows"} :
                \/ p = "error"   /\ l.error
                \/ p = "loading" /\ l.loading /\ ~l.loaded
                \/ p = "rows"    /\ l.loaded}
        [] l.view = "HealthTab" ->
             {p \in {"loading", "rows"} :
                \/ p = "loading" /\ l.loading
                \/ p = "rows"    /\ l.loaded}
        [] OTHER -> {}

Expected ==
  IF listing.view = "HealthTab" /\ rows # Items THEN {} ELSE RowsOf(listing.key)

Answering ==
  IF Expected = {} /\ listing.view \notin {"EODStatusTab", "HealthTab"}
  THEN {"empty"} ELSE {"rows"}

ListingIsCurrent ==
  /\ Kept(listing.view, listing.key, listing.data) = Expected
  /\ Panels = Answering
  /\ listing.view = "HealthTab" => (listing.error <=> rows # Items)
  /\ listing.view = "ReviewQueue" => listing.queueCount = Cardinality(RowsOf(NoFilter))

(* A polled view that stays open ends up showing just what its endpoint    *)
(* has for the account or filter on the screen (the health page: whether   *)
(* everything is connected): neither a late answer for the previous one,   *)
(* nor a failure that is over, nor "loading" stays.                        *)
ListingSettles == <>[](listing.view \in PolledViews => ListingIsCurrent)
===============================================================================
