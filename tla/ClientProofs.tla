----------------------------- MODULE ClientProofs -----------------------------
(***************************************************************************)
(* The screens of the web client together: the types of the transfer view, *)
(* the inbox and the list views, and that what is proved of each screen    *)
(* holds of the client, whichever screen the others are beside.            *)
(***************************************************************************)
EXTENDS MCClients, InvestorProofs, ConsoleProofs, SettlementViewProofs

(* The transfer view.                                                      *)

Trackers ==
  [prop : Ids, inputId : Ids, seenStatus : Statuses \cup {NoRow},
   transfer : [id : Ids, status : Statuses \cup {NoRow}],
   loading : BOOLEAN, error : BOOLEAN, pollRef : Ids,
   strays : SUBSET Transfers, mounted : BOOLEAN, upsets : SUBSET Upsets]

Fetches ==
  [kind : {"initial", "lookup", "poll"}, id : Transfers, sent : Statuses,
   wasFinal : BOOLEAN]

(* TrackerTypeOK, with its records named.                                  *)
LEMMA TrackerTypes ==
  TrackerTypeOK <=> /\ posted \in [Transfers -> Statuses]
                    /\ tracker \in Trackers
                    /\ fetches \in [Slots -> Fetches \cup {NoFetch}]
BY DEF TrackerTypeOK, Trackers, Fetches

(* Initially nothing is shown and nothing is under way.                    *)
LEMMA InitTracker == TrackerInit => TrackerTypeOK
<1> SUFFICES ASSUME TrackerInit PROVE TrackerTypeOK
  OBVIOUS
<1>1. posted \in [Transfers -> Statuses]
  BY DEF TrackerInit, Statuses
<1>2. tracker \in Trackers
  BY DEF TrackerInit, Trackers, Ids, NoTransfer
<1>3. fetches \in [Slots -> Fetches \cup {NoFetch}]
  BY DEF TrackerInit
<1>4. QED
  BY <1>1, <1>2, <1>3, TrackerTypes

(* What the helpers of the component make of its state.                    *)
LEMMA TrackerHelpers ==
  ASSUME NEW v \in Trackers
  PROVE  /\ stopPolling(v) \in Trackers
         /\ \A t \in Ids : setPoll(v, t) \in Trackers
         /\ \A t \in Ids, s \in Statuses : Fetched(v, t, s) \in Trackers
         /\ FetchFailed(v) \in Trackers
         /\ Unmounted(v) \in Trackers
<1>1. \A w \in Trackers : stopPolling(w) \in Trackers
  BY DEF stopPolling, Trackers, Ids
<1>2. ASSUME NEW t \in Ids PROVE setPoll(v, t) \in Trackers
  <2>1. (IF v.pollRef = NoId THEN v.strays ELSE v.strays \cup {v.pollRef}) \in SUBSET Transfers
    BY DEF Trackers, Ids
  <2>2. QED
    BY <2>1 DEF setPoll, Trackers
<1>3. ASSUME NEW t \in Ids, NEW s \in Statuses PROVE Fetched(v, t, s) \in Trackers
  <2>1. [v EXCEPT !.transfer = [id |-> t, status |-> s], !.error = FALSE] \in Trackers
    BY DEF Trackers
  <2>2. QED
    BY <1>1, <2>1 DEF Fetched
<1>4. FetchFailed(v) \in Trackers
  <2>1. [v EXCEPT !.error = TRUE] \in Trackers
    BY DEF Trackers
  <2>2. QED
    BY <1>1, <2>1 DEF FetchFailed
<1>5. Unmounted(v) \in Trackers
  BY DEF Unmounted, Trackers, NoTransfer, Ids
<1>6. QED
  BY <1>1, <1>2, <1>3, <1>4, <1>5

(* A request that is sent.                                                 *)
LEMMA SendTracker ==
  ASSUME TrackerTypeOK, NEW t \in Transfers, NEW k \in {"initial", "lookup", "poll"},
         NEW b \in BOOLEAN, Send(FetchOf(t, k, b))
  PROVE  fetches' \in [Slots -> Fetches \cup {NoFetch}]
<1>1. FetchOf(t, k, b) \in Fetches
  BY TrackerTypes DEF FetchOf, Fetches
<1>2. QED
  BY <1>1, TrackerTypes DEF Send

(* A transfer moves to a status.                                           *)
LEMMA VisibleStatuses ==
  ASSUME NEW s \in Statuses
  PROVE  VisibleMoves(s) \subseteq Statuses
BY DEF VisibleMoves, Allowed, Statuses

(* Upsets are added to a tracker's, and to nothing else.                   *)
LEMMA TrackerUpsets ==
  ASSUME NEW v \in Trackers, NEW t \in Ids, NEW b \in BOOLEAN
  PROVE  /\ v.upsets \cup Overlap(t) \in SUBSET Upsets
         /\ v.upsets \cup UpsetIf(b, "lapse") \in SUBSET Upsets
         /\ v.upsets \cup Overlap(t) \cup UpsetIf(b, "lapse") \in SUBSET Upsets
BY DEF Trackers, Overlap, UpsetIf, Upsets

(* Every step of the transfer view keeps the types.                        *)
LEMMA NextTracker == TrackerTypeOK /\ [TrackerNext]_trackerVars => TrackerTypeOK'
<1> SUFFICES ASSUME TrackerTypeOK, [TrackerNext]_trackerVars PROVE TrackerTypeOK'
  OBVIOUS
<1>1. /\ posted \in [Transfers -> Statuses] /\ tracker \in Trackers
      /\ fetches \in [Slots -> Fetches \cup {NoFetch}]
  BY TrackerTypes
<1>2. ASSUME /\ posted' \in [Transfers -> Statuses] /\ tracker' \in Trackers
             /\ fetches' \in [Slots -> Fetches \cup {NoFetch}]
      PROVE  TrackerTypeOK'
  BY <1>2 DEF TrackerTypeOK, Trackers, Fetches
<1>3. stopPolling(tracker) \in Trackers
  BY <1>1, TrackerHelpers
<1>4. ASSUME NEW v \in Trackers, NEW b \in SUBSET Upsets, NEW t \in Ids
      PROVE  /\ [v EXCEPT !.prop = t, !.inputId = t, !.loading = TRUE, !.upsets = b]
                   \in Trackers
             /\ [v EXCEPT !.inputId = t, !.upsets = b] \in Trackers
             /\ [v EXCEPT !.loading = TRUE, !.error = FALSE, !.transfer = NoTransfer,
                          !.seenStatus = NoRow, !.upsets = b] \in Trackers
             /\ [v EXCEPT !.upsets = b] \in Trackers
  <2>1. NoTransfer \in [id : Ids, status : Statuses \cup {NoRow}]
    BY DEF NoTransfer, Ids
  <2>2. QED
    BY <2>1 DEF Trackers
<1>5. ASSUME NEW t \in Transfers, SelectTransfer(t) PROVE TrackerTypeOK'
  <2>1. stopPolling(tracker).upsets \cup Overlap(t)
          \cup UpsetIf(tracker.transfer # NoTransfer, "lapse") \in SUBSET Upsets
    BY <1>3, TrackerUpsets DEF Ids
  <2>2. tracker' \in Trackers
    BY <1>3, <1>4, <1>5, <2>1 DEF SelectTransfer, Ids
  <2>3. fetches' \in [Slots -> Fetches \cup {NoFetch}]
    BY <1>5, SendTracker DEF SelectTransfer
  <2>4. QED
    BY <1>1, <1>2, <1>5, <2>2, <2>3 DEF SelectTransfer
<1>6. ASSUME NEW t \in Edits, EditId(t) PROVE TrackerTypeOK'
  <2>1. t \in Ids
    BY TrackerAssumption DEF Ids
  <2>2. tracker.upsets \cup UpsetIf(t = NoId, "lapse") \in SUBSET Upsets
    BY <1>1, <2>1, TrackerUpsets
  <2>3. tracker' \in Trackers
    BY <1>1, <1>4, <1>6, <2>1, <2>2 DEF EditId
  <2>4. QED
    BY <1>1, <1>2, <1>6, <2>3 DEF EditId
<1>7. CASE handleLookup
  <2>1. stopPolling(tracker).upsets \cup Overlap(tracker.inputId) \in SUBSET Upsets
        /\ (tracker.transfer.status \in TERMINAL_STATES) \in BOOLEAN
    <3>1. tracker.inputId \in Ids
      BY <1>1 DEF Trackers
    <3>2. stopPolling(tracker).upsets \cup Overlap(tracker.inputId) \in SUBSET Upsets
      BY <1>3, <3>1, TrackerUpsets
    <3>3. QED
      BY <3>2
  <2>2. tracker' \in Trackers
    BY <1>3, <1>4, <1>7, <2>1 DEF handleLookup, Ids
  <2>3. tracker.inputId \in Transfers
    BY <1>1, <1>7 DEF handleLookup, CanLookUp, Trackers, Ids
  <2>4. fetches' \in [Slots -> Fetches \cup {NoFetch}]
    BY <1>7, <2>1, <2>3, SendTracker DEF handleLookup
  <2>5. QED
    BY <1>1, <1>2, <1>7, <2>2, <2>4 DEF handleLookup
<1>8. CASE StatusEffect
  <2> DEFINE v == [tracker EXCEPT !.seenStatus = tracker.transfer.status]
  <2>1. v \in Trackers
    BY <1>1 DEF Trackers
  <2>2. stopPolling(v) \in Trackers /\ v.inputId \in Ids
    BY <2>1, TrackerHelpers DEF Trackers
  <2>3. setPoll(stopPolling(v), v.inputId) \in Trackers
    BY <2>2, TrackerHelpers
  <2>4. tracker' \in Trackers
    BY <1>8, <2>1, <2>3 DEF StatusEffect
  <2>5. QED
    BY <1>1, <1>2, <1>8, <2>4 DEF StatusEffect
<1>9. ASSUME NEW t \in Transfers, Tick(t) PROVE TrackerTypeOK'
  <2>1. tracker.upsets \cup Overlap(t) \in SUBSET Upsets
    BY <1>1, TrackerUpsets DEF Ids
  <2>2. tracker' \in Trackers
    BY <1>1, <1>4, <1>9, <2>1 DEF Tick, Ids
  <2>3. fetches' \in [Slots -> Fetches \cup {NoFetch}]
    BY <1>9, SendTracker DEF Tick
  <2>4. QED
    BY <1>1, <1>2, <1>9, <2>2, <2>3 DEF Tick
<1>10. ASSUME NEW k \in Slots, FetchAnswered(k) PROVE TrackerTypeOK'
  <2>1. fetches[k] \in Fetches
    BY <1>1, <1>10 DEF FetchAnswered
  <2>2. /\ fetches[k].id \in Ids /\ fetches[k].sent \in Statuses
        /\ posted[fetches[k].id] \in Statuses
    BY <1>1, <2>1 DEF Fetches, Ids
  <2>3. ASSUME NEW v \in Trackers PROVE Unmounted(AfterFetch(v, fetches[k])) \in Trackers
    <3>1. [v EXCEPT !.loading = FALSE] \in Trackers
      BY DEF Trackers
    <3>2. AfterFetch(v, fetches[k]) \in Trackers
      BY <2>2, <3>1, TrackerHelpers DEF AfterFetch
    <3>3. QED
      BY <3>2, TrackerHelpers
  <2>4. ASSUME NEW b \in BOOLEAN
        PROVE  [tracker EXCEPT !.upsets = @ \cup UpsetIf(b, "lapse")] \in Trackers
    <3>1. tracker.upsets \cup UpsetIf(b, "lapse") \in SUBSET Upsets
      BY <1>1, <2>2, TrackerUpsets
    <3>2. QED
      BY <1>1, <1>4, <3>1 DEF Ids
  <2>5. FetchFailed([tracker EXCEPT !.upsets = @ \cup {"lapse"}]) \in Trackers
    BY <2>4, TrackerHelpers DEF UpsetIf
  <2>6. ASSUME NEW s \in Read(fetches[k]), NEW b \in BOOLEAN
        PROVE  Fetched([tracker EXCEPT !.upsets = @ \cup UpsetIf(b, "lapse")],
                       fetches[k].id, s) \in Trackers
    <3>1. s \in Statuses
      BY <2>2 DEF Read
    <3>2. QED
      BY <2>2, <2>4, <3>1, TrackerHelpers
  <2>7. tracker' \in Trackers
    BY <1>10, <2>3, <2>5, <2>6 DEF FetchAnswered
  <2>8. fetches' \in [Slots -> Fetches \cup {NoFetch}]
    BY <1>1, <1>10 DEF FetchAnswered
  <2>9. QED
    BY <1>1, <1>2, <1>10, <2>7, <2>8 DEF FetchAnswered
<1>11. CASE LeaveTracker
  <2>1. [tracker EXCEPT !.mounted = FALSE] \in Trackers
    BY <1>1 DEF Trackers
  <2>2. tracker' \in Trackers
    BY <1>11, <2>1, TrackerHelpers DEF LeaveTracker
  <2>3. QED
    BY <1>1, <1>2, <1>11, <2>2 DEF LeaveTracker
<1>12. ASSUME NEW t \in Transfers, TransferMoves(t) PROVE TrackerTypeOK'
  <2>1. posted' \in [Transfers -> Statuses]
    BY <1>1, <1>12, VisibleStatuses DEF TransferMoves
  <2>2. QED
    BY <1>1, <1>2, <1>12, <2>1 DEF TransferMoves
<1>13. CASE UNCHANGED trackerVars
  BY <1>1, <1>2, <1>13 DEF trackerVars
<1>14. QED
  BY <1>5, <1>6, <1>7, <1>8, <1>9, <1>10, <1>11, <1>12, <1>13, TrackerAssumption
     DEF TrackerNext

-------------------------------------------------------------------------------
(* The inbox.                                                              *)

Panes ==
  [accountId : AccountIds, polls : AccountIds, mounted : BOOLEAN,
   notifications : [Notices -> Marks],
   unreadCount : 0 .. Cardinality(Notices), badge : 0 .. Cardinality(Notices)]

InboxRequests ==
  [kind : {"list", "mark", "markAll"}, account : AccountIds,
   notice : Notices \cup AccountIds, seen : 0 .. Cardinality(Notices), served : BOOLEAN,
   answer : [Notices -> Marks], mounted : BOOLEAN]

InboxBudgets == [visits : 0 .. Visits, outages : 0 .. Outages]

(* The inductive strengthening of InboxTypeOK: the counts that calls carry *)
(* are counts of notices.                                                  *)
InboxTypeInv ==
  /\ inbox \in [Notices -> Marks]
  /\ panel \in Panes
  /\ inboxBudget \in InboxBudgets
  /\ inboxCalls \subseteq InboxRequests

LEMMA InboxTypes == InboxTypeInv => InboxTypeOK
BY DEF InboxTypeInv, InboxTypeOK, Panes, InboxRequests, InboxBudgets

(* There are at most as many unread notices as notices.                    *)
LEMMA UnreadCounts ==
  /\ Cardinality(Notices) \in Nat /\ 0 \in 0 .. Cardinality(Notices)
  /\ \A list : UnreadOf(list) \in 0 .. Cardinality(Notices)
<1>1. Cardinality(Notices) \in Nat
  BY InboxAssumption, FS_CardinalityType
<1>2. ASSUME NEW list PROVE UnreadOf(list) \in 0 .. Cardinality(Notices)
  <2> DEFINE unread == {n \in Notices : list[n] = "unread"}
  <2>1. unread \subseteq Notices
    OBVIOUS
  <2>2. IsFiniteSet(unread) /\ Cardinality(unread) <= Cardinality(Notices)
    BY <2>1, InboxAssumption, FS_Subset
  <2>3. Cardinality(unread) \in Nat
    BY <2>2, FS_CardinalityType
  <2> HIDE DEF unread
  <2>4. Cardinality(unread) \in 0 .. Cardinality(Notices)
    BY <1>1, <2>2, <2>3
  <2>5. QED
    BY <2>4 DEF UnreadOf, unread
<1>3. QED
  BY <1>1, <1>2

(* The lists that the server and the component make are lists of marks.    *)
LEMMA ListsOfMarks ==
  ASSUME inbox \in [Notices -> Marks]
  PROVE  /\ NothingShown \in [Notices -> Marks]
         /\ \A a : GetByAccount(a) \in [Notices -> Marks]
         /\ \A ns : MarkRead(ns) \in [Notices -> Marks]
         /\ \A ns : \A list \in [Notices -> Marks] :
              AsRead(list, ns) \in [Notices -> Marks]
BY DEF NothingShown, GetByAccount, MarkRead, AsRead, Marks

(* What the component's helpers make of its state.                         *)
LEMMA PanelHelpers ==
  ASSUME NEW v \in Panes, NEW a \in AccountIds, InboxTypeInv
  PROVE  /\ Poll(v, a) \in Panes /\ Closed(v, a) \in Panes
         /\ [v EXCEPT !.accountId = a] \in Panes
         /\ [Poll(v, a) EXCEPT !.mounted = TRUE] \in Panes
         /\ ListCall(a) \in InboxRequests
<1>1. 0 \in 0 .. Cardinality(Notices) /\ NothingShown \in [Notices -> Marks]
  BY UnreadCounts, ListsOfMarks DEF InboxTypeInv
<1>2. QED
  BY <1>1 DEF Poll, Closed, ListCall, Panes, InboxRequests

(* What an answer makes of it.                                             *)
LEMMA AnsweredType ==
  ASSUME NEW v \in Panes, NEW c \in InboxRequests, InboxTypeInv
  PROVE  Answered(v, c) \in Panes
<1>1. ASSUME NEW shown \in [Notices -> Marks], NEW count \in 0 .. Cardinality(Notices)
      PROVE  [v EXCEPT !.badge = count,
                       !.notifications = IF c.mounted THEN shown ELSE v.notifications,
                       !.unreadCount = IF c.mounted THEN count ELSE v.unreadCount] \in Panes
  BY DEF Panes
<1>2. /\ c.answer \in [Notices -> Marks] /\ v.notifications \in [Notices -> Marks]
      /\ c.seen \in 0 .. Cardinality(Notices)
      /\ c.kind \in {"list", "mark", "markAll"}
  BY DEF InboxRequests, Panes
<1>3. CASE c.kind = "list"
  BY <1>1, <1>2, <1>3, UnreadCounts DEF Answered
<1>4. CASE c.kind = "mark"
  <2>1. Less(c.seen) \in 0 .. Cardinality(Notices)
    BY <1>2, UnreadCounts DEF Less
  <2>2. AsRead(v.notifications, {c.notice}) \in [Notices -> Marks]
    BY <1>2, ListsOfMarks DEF InboxTypeInv
  <2>3. QED
    BY <1>1, <1>4, <2>1, <2>2 DEF Answered
<1>5. CASE c.kind = "markAll"
  <2>1. AsRead(v.notifications, Notices) \in [Notices -> Marks]
    BY <1>2, ListsOfMarks DEF InboxTypeInv
  <2>2. QED
    BY <1>1, <1>5, <2>1, UnreadCounts DEF Answered
<1>6. QED
  BY <1>2, <1>3, <1>4, <1>5

(* What is left of the bounds.                                             *)
LEMMA SpendType ==
  ASSUME InboxTypeInv, NEW what \in {"visits", "outages"}, Spend(what)
  PROVE  inboxBudget' \in InboxBudgets
<1>1. inboxBudget \in InboxBudgets /\ Visits \in Nat /\ Outages \in Nat
  BY InboxAssumption DEF InboxTypeInv
<1>2. CASE what = "visits"
  <2>1. inboxBudget.visits - 1 \in 0 .. Visits
    BY <1>1, <1>2 DEF Spend, InboxBudgets
  <2>2. QED
    BY <1>1, <1>2, <2>1 DEF Spend, InboxBudgets
<1>3. CASE what = "outages"
  <2>1. inboxBudget.outages - 1 \in 0 .. Outages
    BY <1>1, <1>3 DEF Spend, InboxBudgets
  <2>2. QED
    BY <1>1, <1>3, <2>1 DEF Spend, InboxBudgets
<1>4. QED
  BY <1>2, <1>3

(* What is left of the calls of a list that is gone.                       *)
LEMMA OrphansType ==
  ASSUME NEW calls \in SUBSET InboxRequests
  PROVE  Orphans(calls) \subseteq InboxRequests
BY DEF Orphans, InboxRequests

(* Initially the inbox is empty and closed.                                *)
LEMMA InitInbox == InboxInit => InboxTypeInv
<1> SUFFICES ASSUME InboxInit PROVE InboxTypeInv
  OBVIOUS
<1>1. NothingShown \in [Notices -> Marks] /\ StartAccount \in AccountIds
  BY DEF NothingShown, Marks, AccountIds
<1>2. panel \in Panes
  BY <1>1, UnreadCounts DEF InboxInit, Panes
<1>3. inboxBudget \in InboxBudgets
  BY InboxAssumption DEF InboxInit, InboxBudgets
<1>4. QED
  BY <1>1, <1>2, <1>3 DEF InboxInit, InboxTypeInv

(* Every step of the inbox keeps the types.                                *)
LEMMA NextInbox == InboxTypeInv /\ [InboxNext]_inboxVars => InboxTypeInv'
<1> SUFFICES ASSUME InboxTypeInv, [InboxNext]_inboxVars PROVE InboxTypeInv'
  OBVIOUS
<1>1. /\ inbox \in [Notices -> Marks] /\ panel \in Panes
      /\ inboxBudget \in InboxBudgets /\ inboxCalls \subseteq InboxRequests
      /\ panel.accountId \in AccountIds /\ panel.polls \in AccountIds
  BY DEF InboxTypeInv, Panes
<1>2. ASSUME NEW n \in Notices, CreateNotice(n) PROVE InboxTypeInv'
  BY <1>1, <1>2 DEF CreateNotice, InboxTypeInv, Marks
<1>3. ASSUME NEW n \in Notices, handleClick(n) PROVE InboxTypeInv'
  <2>1. ListCall(panel.accountId) \in InboxRequests
    BY <1>1, PanelHelpers
  <2>2. panel.unreadCount \in 0 .. Cardinality(Notices)
    BY <1>1 DEF Panes
  <2>3. [ListCall(panel.accountId) EXCEPT !.kind = "mark", !.notice = n,
                                          !.seen = panel.unreadCount] \in InboxRequests
    BY <2>1, <2>2 DEF InboxRequests
  <2>4. inboxCalls' \subseteq InboxRequests
    BY <1>1, <1>3, <2>3 DEF handleClick, SendInbox
  <2>5. QED
    BY <1>1, <1>3, <2>4 DEF handleClick, InboxTypeInv
<1>4. ASSUME NEW n \in Notices, StartNewDeposit(n) PROVE InboxTypeInv'
  <2>1. Addressee[n] \in AccountIds
    BY InboxAssumption
  <2>2. QED
    BY <1>1, <1>4, <2>1, PanelHelpers, OrphansType DEF StartNewDeposit, InboxTypeInv
<1>5. ASSUME NEW c \in inboxCalls, ServeInbox(c) PROVE InboxTypeInv'
  <2>1. c \in InboxRequests /\ c.kind \in {"list", "mark", "markAll"}
    BY <1>1 DEF InboxRequests
  <2>2. inbox' \in [Notices -> Marks]
    BY <1>1, <1>5, <2>1, ListsOfMarks DEF ServeInbox
  <2>3. \A list \in [Notices -> Marks] :
          [c EXCEPT !.served = TRUE, !.answer = list] \in InboxRequests
    BY <2>1 DEF InboxRequests
  <2>4. (IF c.kind = "list" THEN GetByAccount(c.account) ELSE c.answer) \in [Notices -> Marks]
    BY <1>1, <2>1, ListsOfMarks DEF InboxRequests
  <2>5. inboxCalls' \subseteq InboxRequests
    BY <1>1, <1>5, <2>3, <2>4 DEF ServeInbox
  <2>6. QED
    BY <1>1, <1>5, <2>2, <2>5 DEF ServeInbox, InboxTypeInv
<1>6. ASSUME NEW c \in inboxCalls, InboxAnswered(c) PROVE InboxTypeInv'
  <2>1. panel' \in Panes
    BY <1>1, <1>6, AnsweredType DEF InboxAnswered
  <2>2. QED
    BY <1>1, <1>6, <2>1 DEF InboxAnswered, InboxTypeInv
<1>7. ASSUME NEW c \in inboxCalls, InboxFailed(c) PROVE InboxTypeInv'
  BY <1>1, <1>7, SpendType DEF InboxFailed, InboxTypeInv
<1>8. ASSUME NEW a \in ACCOUNTS, SwitchInboxAccount(a) PROVE InboxTypeInv'
  <2>1. a \in AccountIds
    BY DEF AccountIds
  <2>2. panel' \in Panes
    BY <1>1, <1>8, <2>1, PanelHelpers DEF SwitchInboxAccount
  <2>3. inboxCalls' \subseteq InboxRequests
    <3>1. ListCall(a) \in InboxRequests
      BY <1>1, <2>1, PanelHelpers
    <3>2. inboxCalls' = inboxCalls \/ inboxCalls' = inboxCalls \cup {ListCall(a)}
      BY <1>8 DEF SwitchInboxAccount, SendInbox
    <3>3. QED
      BY <1>1, <3>1, <3>2
  <2>4. inboxBudget' \in InboxBudgets
    BY <1>8, SpendType DEF SwitchInboxAccount
  <2>5. QED
    BY <1>1, <1>8, <2>2, <2>3, <2>4 DEF SwitchInboxAccount, InboxTypeInv
<1>9. CASE OpenPanel
  <2>1. inboxBudget' \in InboxBudgets
    BY <1>9, SpendType DEF OpenPanel
  <2>2. QED
    BY <1>1, <1>9, <2>1, PanelHelpers DEF OpenPanel, SendInbox, InboxTypeInv
<1>10. CASE PollInbox
  BY <1>1, <1>10, PanelHelpers DEF PollInbox, SendInbox, InboxTypeInv
<1>11. CASE handleMarkAllRead
  <2>1. ListCall(panel.accountId) \in InboxRequests
    BY <1>1, PanelHelpers
  <2>2. [ListCall(panel.accountId) EXCEPT !.kind = "markAll"] \in InboxRequests
    BY <2>1 DEF InboxRequests
  <2>3. QED
    BY <1>1, <1>11, <2>2 DEF handleMarkAllRead, SendInbox, InboxTypeInv
<1>12. CASE LeavePanel
  BY <1>1, <1>12, PanelHelpers, OrphansType DEF LeavePanel, InboxTypeInv
<1>13. CASE UNCHANGED inboxVars
  BY <1>1, <1>13 DEF inboxVars, InboxTypeInv
<1>14. QED
  BY <1>2, <1>3, <1>4, <1>5, <1>6, <1>7, <1>8, <1>9, <1>10, <1>11, <1>12, <1>13 DEF InboxNext

-------------------------------------------------------------------------------
(* The list views.                                                         *)

ListingStates ==
  [view : ListViews \cup {NoView}, key : Keys, data : SUBSET Items,
   loaded : BOOLEAN, loading : BOOLEAN, error : BOOLEAN,
   queueCount : 0 .. Cardinality(Items)]

ListRequests ==
  [view : ListViews, key : Keys, first : BOOLEAN, served : BOOLEAN,
   answer : SUBSET Items, mounted : BOOLEAN]

Spendable == {"changes", "switches", "failures", "visits"}

(* The inductive strengthening of ListingTypeOK.                           *)
ListingTypeInv ==
  /\ rows \subseteq Items
  /\ listing \in ListingStates
  /\ listCalls \subseteq ListRequests
  /\ IsFiniteSet(listCalls) /\ Cardinality(listCalls) <= ListSlots
  /\ listBudget \in [Spendable -> Nat]
  /\ \A b \in Spendable : listBudget[b] <= ListBudget[b]

LEMMA ListingTypes == ListingTypeInv => ListingTypeOK
<1> SUFFICES ASSUME ListingTypeInv PROVE ListingTypeOK
  OBVIOUS
<1>1. \A b \in DOMAIN listBudget : listBudget[b] \in 0 .. ListBudget[b]
  BY ListingAssumption DEF ListingTypeInv, Spendable
<1>2. QED
  BY <1>1 DEF ListingTypeInv, ListingTypeOK, ListingStates, ListRequests

(* What is handed to the queue's counter counts rows.                      *)
LEMMA RowCounts ==
  /\ Cardinality(Items) \in Nat
  /\ \A S \in SUBSET Items : Cardinality(S) \in 0 .. Cardinality(Items)
<1>1. Cardinality(Items) \in Nat
  BY ListingAssumption, FS_CardinalityType
<1>2. ASSUME NEW S \in SUBSET Items PROVE Cardinality(S) \in 0 .. Cardinality(Items)
  <2>1. IsFiniteSet(S) /\ Cardinality(S) <= Cardinality(Items)
    BY ListingAssumption, FS_Subset
  <2>2. Cardinality(S) \in Nat
    BY <2>1, FS_CardinalityType
  <2>3. QED
    BY <1>1, <2>1, <2>2
<1>3. QED
  BY <1>1, <1>2

(* What the views' helpers make of their state.                            *)
LEMMA ListingHelpers ==
  ASSUME NEW l \in ListingStates, NEW c \in ListRequests
  PROVE  /\ Closing(l.queueCount) \in ListingStates
         /\ \A key \in Keys : Rekeyed(l, key) \in ListingStates
         /\ Loaded(l, c) \in ListingStates /\ LoadFailed(l, c) \in ListingStates
         /\ Counted(l, c) \in ListingStates
<1>1. Closing(l.queueCount) \in ListingStates
  BY DEF Closing, ListingStates, Keys
<1>2. \A key \in Keys : Rekeyed(l, key) \in ListingStates
  BY DEF Rekeyed, ListingStates
<1>3. (l.loading /\ ~EndsLoading(c)) \in BOOLEAN
  OBVIOUS
<1>4. \A b \in BOOLEAN, data \in SUBSET Items, d \in BOOLEAN :
        /\ [l EXCEPT !.data = data, !.loaded = TRUE, !.error = FALSE, !.loading = b]
             \in ListingStates
        /\ [l EXCEPT !.error = TRUE, !.loading = b, !.data = data, !.loaded = d]
             \in ListingStates
  BY DEF ListingStates
<1>5. Loaded(l, c) \in ListingStates
  BY <1>3, <1>4 DEF Loaded, ListRequests
<1>6. LoadFailed(l, c) \in ListingStates
  <2>1. /\ (IF l.view \in RefreshedViews THEN {} ELSE l.data) \in SUBSET Items
        /\ (IF l.view = "LedgerView" THEN FALSE
            ELSE IF l.view = "HealthTab" THEN TRUE ELSE l.loaded) \in BOOLEAN
    BY DEF ListingStates
  <2>2. QED
    BY <1>3, <1>4, <2>1 DEF LoadFailed
<1>7. Counted(l, c) \in ListingStates
  <2>1. Cardinality(c.answer) \in 0 .. Cardinality(Items)
    BY RowCounts DEF ListRequests
  <2>2. QED
    BY <2>1 DEF Counted, ListingStates
<1>8. QED
  BY <1>1, <1>2, <1>5, <1>6, <1>7

(* What is left of the bounds.                                             *)
LEMMA SpendOnType ==
  ASSUME ListingTypeInv, NEW what \in Spendable, SpendOn(what)
  PROVE  /\ listBudget' \in [Spendable -> Nat]
         /\ \A b \in Spendable : listBudget'[b] <= ListBudget[b]
<1>1. /\ listBudget \in [Spendable -> Nat] /\ ListBudget \in [Spendable -> Nat]
      /\ \A b \in Spendable : listBudget[b] <= ListBudget[b]
  BY ListingAssumption DEF ListingTypeInv, Spendable
<1>2. listBudget[what] - 1 \in Nat /\ listBudget[what] - 1 <= ListBudget[what]
  BY <1>1 DEF SpendOn
<1>3. listBudget' = [listBudget EXCEPT ![what] = listBudget[what] - 1]
  BY DEF SpendOn
<1> HIDE DEF Spendable
<1>4. QED
  BY <1>1, <1>2, <1>3

(* A request that is sent.                                                 *)
LEMMA SendListType ==
  ASSUME ListingTypeInv, NEW v \in ListViews, NEW key \in Keys, NEW first \in BOOLEAN,
         SendList(ListRequest(v, key, first))
  PROVE  /\ listCalls' \subseteq ListRequests
         /\ IsFiniteSet(listCalls') /\ Cardinality(listCalls') <= ListSlots
<1>1. ListRequest(v, key, first) \in ListRequests
  BY DEF ListRequest, ListRequests, AskedKey, Keys
<1>2. /\ IsFiniteSet(listCalls')
      /\ Cardinality(listCalls') = IF ListRequest(v, key, first) \in listCalls
                                   THEN Cardinality(listCalls) ELSE Cardinality(listCalls) + 1
  BY FS_AddElement DEF ListingTypeInv, SendList
<1>3. Cardinality(listCalls) \in Nat /\ ListSlots \in Nat /\ Cardinality(listCalls) < ListSlots
  BY FS_CardinalityType, ListingAssumption DEF ListingTypeInv, SendList
<1>4. Cardinality(listCalls') <= ListSlots
  BY <1>2, <1>3
<1>5. listCalls' \subseteq ListRequests
  BY <1>1 DEF ListingTypeInv, SendList
<1>6. QED
  BY <1>2, <1>4, <1>5

(* A request that is answered or fails.                                    *)
LEMMA EndListType ==
  ASSUME ListingTypeInv, NEW c \in listCalls, listCalls' = listCalls \ {c}
  PROVE  /\ listCalls' \subseteq ListRequests
         /\ IsFiniteSet(listCalls') /\ Cardinality(listCalls') <= ListSlots
<1>1. IsFiniteSet(listCalls') /\ Cardinality(listCalls') <= Cardinality(listCalls)
  BY FS_Subset DEF ListingTypeInv
<1>2. /\ Cardinality(listCalls) \in Nat /\ Cardinality(listCalls') \in Nat
      /\ ListSlots \in Nat /\ Cardinality(listCalls) <= ListSlots
  BY <1>1, FS_CardinalityType, ListingAssumption DEF ListingTypeInv
<1>3. Cardinality(listCalls') <= ListSlots
  BY <1>1, <1>2
<1>4. QED
  BY <1>1, <1>3 DEF ListingTypeInv

(* A request that is served.                                               *)
LEMMA ServeListType ==
  ASSUME ListingTypeInv, NEW c \in listCalls, ServeList(c)
  PROVE  /\ listCalls' \subseteq ListRequests
         /\ IsFiniteSet(listCalls') /\ Cardinality(listCalls') <= ListSlots
<1> DEFINE d == [c EXCEPT !.served = TRUE, !.answer = RowsOf(c.key)]
           rest == listCalls \ {c}
<1>1. d \in ListRequests
  BY DEF ListingTypeInv, ListRequests, RowsOf
<1>2. IsFiniteSet(rest) /\ Cardinality(rest) = Cardinality(listCalls) - 1
  BY FS_RemoveElement DEF ListingTypeInv
<1>3. listCalls' = rest \cup {d}
  BY DEF ServeList
<1>4. listCalls' \subseteq ListRequests
  BY <1>1, <1>3 DEF ListingTypeInv
<1> HIDE DEF d, rest
<1>5. /\ IsFiniteSet(listCalls')
      /\ Cardinality(listCalls') = IF d \in rest THEN Cardinality(rest) ELSE Cardinality(rest) + 1
  BY <1>2, <1>3, FS_AddElement
<1>6. /\ Cardinality(listCalls) \in Nat /\ ListSlots \in Nat
      /\ Cardinality(listCalls) <= ListSlots
  BY FS_CardinalityType, ListingAssumption DEF ListingTypeInv
<1>7. Cardinality(listCalls') <= ListSlots
  BY <1>2, <1>5, <1>6
<1>8. QED
  BY <1>4, <1>5, <1>7

(* The requests of a view that is closed.                                  *)
LEMMA CloseListType ==
  ASSUME ListingTypeInv, listCalls' = {[c EXCEPT !.mounted = FALSE] : c \in listCalls}
  PROVE  /\ listCalls' \subseteq ListRequests
         /\ IsFiniteSet(listCalls') /\ Cardinality(listCalls') <= ListSlots
<1> DEFINE f == [c \in listCalls |-> [c EXCEPT !.mounted = FALSE]]
<1>1. f \in Surjection(listCalls, listCalls')
  BY DEF Surjection
<1>2. IsFiniteSet(listCalls') /\ Cardinality(listCalls') <= Cardinality(listCalls)
  BY <1>1, FS_Surjection DEF ListingTypeInv
<1>3. /\ Cardinality(listCalls) \in Nat /\ Cardinality(listCalls') \in Nat
      /\ ListSlots \in Nat /\ Cardinality(listCalls) <= ListSlots
  BY <1>2, FS_CardinalityType, ListingAssumption DEF ListingTypeInv
<1>4. Cardinality(listCalls') <= ListSlots
  BY <1>2, <1>3
<1>5. listCalls' \subseteq ListRequests
  BY DEF ListingTypeInv, ListRequests
<1>6. QED
  BY <1>2, <1>4, <1>5

(* Initially no view is open.                                              *)
LEMMA InitListing == ListingInit => ListingTypeInv
<1> SUFFICES ASSUME ListingInit PROVE ListingTypeInv
  OBVIOUS
<1>1. listing \in ListingStates
  BY RowCounts DEF ListingInit, Closing, ListingStates, Keys
<1>2. /\ IsFiniteSet(listCalls) /\ Cardinality(listCalls) <= ListSlots
      /\ listCalls \subseteq ListRequests
  BY FS_EmptySet, ListingAssumption DEF ListingInit
<1>3. /\ listBudget \in [Spendable -> Nat]
      /\ \A b \in Spendable : listBudget[b] <= ListBudget[b]
  BY ListingAssumption DEF ListingInit, Spendable
<1>4. QED
  BY <1>1, <1>2, <1>3 DEF ListingInit, ListingTypeInv

(* Every step of the list views keeps the types.                           *)
LEMMA NextListing == ListingTypeInv /\ [ListingNext]_listVars => ListingTypeInv'
<1> SUFFICES ASSUME ListingTypeInv, [ListingNext]_listVars PROVE ListingTypeInv'
  OBVIOUS
<1>1. /\ listing \in ListingStates /\ listCalls \subseteq ListRequests
      /\ listing.view \in ListViews \cup {NoView} /\ listing.key \in Keys
  BY DEF ListingTypeInv, ListingStates
<1>2. ASSUME /\ rows' \subseteq Items
             /\ listing' \in ListingStates
             /\ UNCHANGED listCalls \/
                  (/\ listCalls' \subseteq ListRequests
                   /\ IsFiniteSet(listCalls') /\ Cardinality(listCalls') <= ListSlots)
             /\ UNCHANGED listBudget \/ \E what \in Spendable : SpendOn(what)
      PROVE  ListingTypeInv'
  <2>1. /\ listBudget' \in [Spendable -> Nat]
        /\ \A b \in Spendable : listBudget'[b] <= ListBudget[b]
    BY <1>2, SpendOnType DEF ListingTypeInv
  <2>2. /\ listCalls' \subseteq ListRequests
        /\ IsFiniteSet(listCalls') /\ Cardinality(listCalls') <= ListSlots
    BY <1>2 DEF ListingTypeInv
  <2>3. QED
    BY <1>2, <2>1, <2>2 DEF ListingTypeInv
<1>3. rows \subseteq Items
  BY DEF ListingTypeInv
<1>4. /\ "changes" \in Spendable /\ "switches" \in Spendable
      /\ "failures" \in Spendable /\ "visits" \in Spendable
  BY DEF Spendable
<1>5. ASSUME NEW v \in ListViews, OpenView(v) PROVE ListingTypeInv'
  <2>1. PICK key \in Keys : /\ listing' = Opened(v, key)
                            /\ SendList(ListRequest(v, key, TRUE))
    BY <1>5 DEF OpenView, Keys
  <2>2. Opened(v, key) \in ListingStates
    BY <1>1 DEF Opened, Closing, ListingStates, Keys
  <2>3. QED
    BY <1>2, <1>3, <1>4, <1>5, <2>1, <2>2, SendListType DEF OpenView
<1>6. ASSUME NEW key \in Keys, SwitchKey(key) PROVE ListingTypeInv'
  <2>1. listing.view \in ListViews
    BY <1>1, <1>6 DEF SwitchKey
  <2>2. Rekeyed(listing, key) \in ListingStates
    BY <1>1 DEF Rekeyed, ListingStates
  <2>3. QED
    BY <1>2, <1>3, <1>4, <1>6, <2>1, <2>2, SendListType DEF SwitchKey
<1>7. CASE PollView
  <2>1. listing.view \in ListViews
    BY <1>7 DEF PollView, PolledViews
  <2>2. QED
    BY <1>1, <1>2, <1>3, <1>7, <2>1, SendListType DEF PollView, PolledKey
<1>8. CASE RefreshView
  <2>1. listing.view \in ListViews
    BY <1>8 DEF RefreshView, CanRefresh, ListViews, AccountViews
  <2>2. Rekeyed(listing, listing.key) \in ListingStates
    BY <1>1 DEF Rekeyed, ListingStates
  <2>3. QED
    BY <1>1, <1>2, <1>3, <1>8, <2>1, <2>2, SendListType DEF RefreshView
<1>9. CASE CloseView
  <2>1. Closing(listing.queueCount) \in ListingStates
    BY <1>1 DEF Closing, ListingStates, Keys
  <2>2. QED
    BY <1>2, <1>3, <1>9, <2>1, CloseListType DEF CloseView
<1>10. ASSUME NEW c \in listCalls, ServeList(c) PROVE ListingTypeInv'
  BY <1>1, <1>2, <1>3, <1>10, ServeListType DEF ServeList
<1>11. ASSUME NEW c \in listCalls, ListAnswered(c) PROVE ListingTypeInv'
  <2>1. PICK shown \in {listing, Loaded(listing, c), LoadFailed(listing, c)} :
          listing' = Counted(shown, c)
    BY <1>11 DEF ListAnswered
  <2>2. c \in ListRequests
    BY <1>1
  <2>3. shown \in ListingStates
    BY <1>1, <2>2, ListingHelpers
  <2>4. listing' \in ListingStates
    BY <2>1, <2>2, <2>3, ListingHelpers
  <2>5. QED
    BY <1>2, <1>3, <1>11, <2>4, EndListType DEF ListAnswered
<1>12. ASSUME NEW c \in listCalls, ListFailed(c) PROVE ListingTypeInv'
  <2>1. listing' \in ListingStates
    BY <1>1, <1>12, ListingHelpers DEF ListFailed
  <2>2. QED
    BY <1>2, <1>3, <1>4, <1>12, <2>1, EndListType DEF ListFailed
<1>13. ASSUME NEW i \in Items, RowChanges(i) PROVE ListingTypeInv'
  <2>1. rows' \subseteq Items
    BY <1>3, <1>13 DEF RowChanges
  <2>2. QED
    BY <1>1, <1>2, <1>4, <1>13, <2>1 DEF RowChanges
<1>14. CASE UNCHANGED listVars
  BY <1>1, <1>2, <1>3, <1>14 DEF listVars
<1>15. QED
  BY <1>5, <1>6, <1>7, <1>8, <1>9, <1>10, <1>11, <1>12, <1>13, <1>14 DEF ListingNext

-------------------------------------------------------------------------------
(* The screens together.                                                   *)

(* The inductive invariants of all the screens.                            *)
ClientInv ==
  /\ TrackerTypeOK
  /\ InboxTypeInv
  /\ InvestorTypeInv /\ FormInv /\ CentsInv
  /\ ListingTypeInv
  /\ OperatorTypeOK /\ OperatorInv
  /\ DeskTypeOK /\ ReturnsNamed /\ DeskInv
  /\ AdminTypeOK /\ AdminInv

(* A step of the client is, for each screen, a step of it or none.         *)
LEMMA ScreensApart ==
  ASSUME [ClientNext]_clientVars
  PROVE  /\ [TrackerNext]_trackerVars /\ [InboxNext]_inboxVars
         /\ [InvestorNext]_investorVars /\ [ListingNext]_listVars
         /\ [OperatorNext]_operatorVars /\ [DeskNext]_deskVars /\ [AdminNext]_adminVars
BY DEF ClientNext, clientVars

(* So the invariants of the screens hold of the client.                    *)
LEMMA ClientInvariant == ClientSpec => []ClientInv
<1>1. ClientInit => ClientInv
  BY InitTracker, InitInbox, InitInvestorType, InitInvestorInv, InitListing,
     InitOperator, InitDesk, InitAdmin
     DEF ClientInit, ClientInv
<1>2. ClientInv /\ [ClientNext]_clientVars => ClientInv'
  BY ScreensApart, NextTracker, NextInbox, NextInvestorType, NextInvestorInv, NextListing,
     NextOperatorType, NextOperatorInv, NextDesk, NextAdmin
     DEF ClientInv
<1>3. QED
  BY <1>1, <1>2, PTL DEF ClientSpec

(* In every reachable state of the client every screen is well typed.      *)
THEOREM ClientType == ClientSpec => []ClientTypeOK
<1>1. ClientInv => ClientTypeOK
  BY InboxTypes, ListingTypes, InvestorTypes DEF ClientInv, ClientTypeOK
<1>2. QED
  BY <1>1, ClientInvariant, PTL

(* What is proved of a screen on its own holds of the client: the form's   *)
(* outcomes and checks, the operator's rulings and amounts, the one        *)
(* settlement at a time, the administrator's traces and actions.           *)
THEOREM ClientKeepsPromises ==
  ClientSpec => [](/\ OutcomesExclusive /\ FormNeverRefused
                   /\ OneRulingPerVisit /\ VerifiedForThisDeposit
                   /\ OneTriggerAtATime
                   /\ TraceAnswersLastLookup /\ OneOutcomePerAction)
<1>1. ClientInv => OutcomesExclusive /\ FormNeverRefused
  BY FeedbackAlone, CentsPass DEF ClientInv
<1>2. ClientInv => OneRulingPerVisit /\ VerifiedForThisDeposit
  BY RulingsAlone DEF ClientInv, OperatorInv
<1>3. ClientInv => OneTriggerAtATime
  BY DEF ClientInv, DeskInv
<1>4. ClientInv => TraceAnswersLastLookup /\ OneOutcomePerAction
  BY ActionsAlone DEF ClientInv, AdminInv, TraceInv, TraceAnswersLastLookup
<1>5. QED
  BY <1>1, <1>2, <1>3, <1>4, ClientInvariant, PTL
===============================================================================
