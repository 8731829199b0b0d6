-------------------------- MODULE NotificationPanel ---------------------------
(***************************************************************************)
(* The investor's inbox (components/NotificationPanel.jsx), the unread     *)
(* badge InvestorView keeps for it, and the inbox on the server.           *)
(*                                                                         *)
(* A call is served at one moment and answered at a later one, and calls   *)
(* may overtake each other: a list that was read before a mark may be      *)
(* shown after it.  A click sends its mark with the unread count of the    *)
(* render it happened in, and writes that count minus one when the answer  *)
(* comes.                                                                  *)
(***************************************************************************)
EXTENDS Integers, FiniteSets, InvestorAccounts, Api

CONSTANTS Notices,     \* the notices that will be written
          Addressee,   \* the account each is for
          Actionable,  \* those of type returned or rejected
          InboxSlots,  \* bound: calls under way at once
          Visits,      \* bound: account switches and returns to the tab
          Outages      \* bound: failed calls

ASSUME InboxAssumption ==
  /\ Addressee \in [Notices -> AccountIds]
  /\ Actionable \subseteq Notices /\ IsFiniteSet(Notices)
  /\ {InboxSlots, Visits, Outages} \subseteq Nat

VARIABLES inbox,       \* the notifications table: each notice's mark
          panel,       \* the component, with the parent's account and badge
          inboxCalls,  \* calls under way
          inboxBudget  \* what the bounds leave

inboxVars == <<inbox, panel, inboxCalls, inboxBudget>>

Marks == {"absent", "unread", "read"}
NothingShown == [n \in Notices |-> "absent"]

InboxTypeOK ==
  /\ inbox \in [Notices -> Marks]
  /\ panel \in [accountId : AccountIds, polls : AccountIds, mounted : BOOLEAN,
                notifications : [Notices -> Marks],
                unreadCount : 0 .. Cardinality(Notices),
                badge : 0 .. Cardinality(Notices)]
  /\ inboxBudget \in [visits : 0 .. Visits, outages : 0 .. Outages]
  /\ \A c \in inboxCalls :
       /\ c.kind \in {"list", "mark", "markAll"}
       /\ c.answer \in [Notices -> Marks]

InboxInit ==
  /\ inbox = NothingShown
  /\ panel = [accountId |-> StartAccount, polls |-> StartAccount, mounted |-> FALSE,
              notifications |-> NothingShown, unreadCount |-> 0, badge |-> 0]
  /\ inboxCalls = {}
  /\ inboxBudget = [visits |-> Visits, outages |-> Outages]

-------------------------------------------------------------------------------
(* The server.                                                             *)

UnreadOf(list) == Cardinality({n \in Notices : list[n] = "unread"})

(* List: the account's rows, read and unread.                              *)
GetByAccount(accountId) ==
  [n \in Notices |-> IF Addressee[n] = accountId THEN inbox[n] ELSE "absent"]

MarkRead(ns) ==
  [n \in Notices |-> IF n \in ns /\ inbox[n] = "unread" THEN "read" ELSE inbox[n]]

CreateNotice(n) ==
  /\ inbox[n] = "absent"
  /\ inbox' = [inbox EXCEPT ![n] = "unread"]
  /\ UNCHANGED <<panel, inboxCalls, inboxBudget>>

(* A call reaches the database.                                            *)
ServeInbox(c) ==
  /\ c \in inboxCalls /\ ~c.served
  /\ inbox' = CASE c.kind = "list"    -> inbox
                [] c.kind = "mark"    -> MarkRead({c.notice})
                [] c.kind = "markAll" -> MarkRead({n \in Notices : Addressee[n] = c.account})
  /\ inboxCalls' = (inboxCalls \ {c}) \cup
       {[c EXCEPT !.served = TRUE,
                  !.answer = IF c.kind = "list" THEN GetByAccount(c.account) ELSE @]}
  /\ UNCHANGED <<panel, inboxBudget>>

-------------------------------------------------------------------------------
(* The component.                                                          *)

ListCall(accountId) ==
  [kind |-> "list", account |-> accountId, notice |-> accountId, seen |-> 0,
   served |-> FALSE, answer |-> NothingShown, mounted |-> TRUE]

SendInbox(c) ==
  /\ Cardinality(inboxCalls) < InboxSlots
  /\ inboxCalls' = inboxCalls \cup {c}

Spend(what) ==
  /\ inboxBudget[what] > 0
  /\ inboxBudget' = [inboxBudget EXCEPT ![what] = @ - 1]

(* Mutant: the interval keeps the account of the first render.             *)
PollFirst(v, accountId) == [v EXCEPT !.accountId = accountId]

(* The effect keyed on the account: fetch at once, and poll this account.  *)
Poll(v, accountId) == [v EXCEPT !.accountId = accountId, !.polls = accountId]

Orphans(calls) == {[c EXCEPT !.mounted = FALSE] : c \in calls}

OpenPanel ==
  /\ ~panel.mounted /\ Spend("visits")
  /\ panel' = [Poll(panel, panel.accountId) EXCEPT !.mounted = TRUE]
  /\ SendInbox(ListCall(panel.accountId))
  /\ UNCHANGED inbox

SwitchInboxAccount(a) ==
  /\ a # panel.accountId /\ Spend("visits")
  /\ IF panel.mounted
     THEN panel' = Poll(panel, a) /\ SendInbox(ListCall(a))
     ELSE panel' = [panel EXCEPT !.accountId = a] /\ UNCHANGED inboxCalls
  /\ UNCHANGED inbox

PollInbox ==
  /\ panel.mounted
  /\ SendInbox(ListCall(panel.polls))
  /\ UNCHANGED <<inbox, panel, inboxBudget>>

(* A click on a row; the transfer is handed over in TransferStatus.        *)
handleClick(n) ==
  /\ panel.mounted /\ panel.notifications[n] = "unread"
  /\ SendInbox([ListCall(panel.accountId) EXCEPT
                  !.kind = "mark", !.notice = n, !.seen = panel.unreadCount])
  /\ UNCHANGED <<inbox, panel, inboxBudget>>

(* The link is on the screen while something is unread.                    *)
CanMarkAll == panel.mounted /\ panel.unreadCount > 0

handleMarkAllRead ==
  /\ CanMarkAll
  /\ SendInbox([ListCall(panel.accountId) EXCEPT !.kind = "markAll"])
  /\ UNCHANGED <<inbox, panel, inboxBudget>>

AsRead(list, ns) ==
  [n \in Notices |-> IF n \in ns /\ list[n] # "absent" THEN "read" ELSE list[n]]

(* Mutant: no floor.                                                       *)
LessAlways(count) == count - 1

Less(count) == IF count > 0 THEN count - 1 ELSE 0

(* What an answer changes: list, count and the parent's badge.             *)
Answered(v, c) ==
  LET shown == CASE c.kind = "list"    -> c.answer
                 [] c.kind = "mark"    -> AsRead(v.notifications, {c.notice})
                 [] c.kind = "markAll" -> AsRead(v.notifications, Notices)
      count == CASE c.kind = "list"    -> UnreadOf(c.answer)
                 [] c.kind = "mark"    -> Less(c.seen)
                 [] c.kind = "markAll" -> 0
  IN  [v EXCEPT !.badge = count,
                !.notifications = IF c.mounted THEN shown ELSE @,
                !.unreadCount = IF c.mounted THEN count ELSE @]

InboxRoute(c) ==
  CASE c.kind = "list"    -> NotificationCalls.getNotifications
    [] c.kind = "mark"    -> NotificationCalls.markNotificationRead
    [] c.kind = "markAll" -> NotificationCalls.markAllNotificationsRead

InboxAnswered(c) ==
  /\ c \in inboxCalls /\ c.served
  /\ handleResponse(InboxRoute(c), FALSE) = "resolved"
  /\ panel' = Answered(panel, c)
  /\ inboxCalls' = inboxCalls \ {c}
  /\ UNCHANGED <<inbox, inboxBudget>>

(* All three are silent when they fail, before or after they were served.  *)
InboxFailed(c) ==
  /\ c \in inboxCalls /\ Spend("outages")
  /\ inboxCalls' = inboxCalls \ {c}
  /\ UNCHANGED <<inbox, panel>>

(* Another tab: the list is gone, the parent's badge stays.                *)
Closed(v, a) ==
  [v EXCEPT !.mounted = FALSE, !.notifications = NothingShown, !.unreadCount = 0,
            !.accountId = a]

LeavePanel ==
  /\ panel.mounted
  /\ panel' = Closed(panel, panel.accountId)
  /\ inboxCalls' = Orphans(inboxCalls)
  /\ UNCHANGED <<inbox, inboxBudget>>

(* The button of a returned or rejected deposit opens the deposit form on  *)
(* the account of the notice.                                              *)
StartNewDeposit(n) ==
  /\ panel.mounted /\ n \in Actionable /\ panel.notifications[n] # "absent"
  /\ panel' = Closed(panel, Addressee[n])
  /\ inboxCalls' = Orphans(inboxCalls)
  /\ UNCHANGED <<inbox, inboxBudget>>

InboxNext ==
  \/ \E n \in Notices : CreateNotice(n) \/ handleClick(n) \/ StartNewDeposit(n)
  \/ \E c \in inboxCalls : ServeInbox(c) \/ InboxAnswered(c) \/ InboxFailed(c)
  \/ \E a \in ACCOUNTS : SwitchInboxAccount(a)
  \/ OpenPanel \/ PollInbox \/ handleMarkAllRead \/ LeavePanel

(* The interval fires and every call is served and answered or fails.      *)
InboxFairness ==
  /\ WF_inboxVars(PollInbox)
  /\ WF_inboxVars(\E c \in inboxCalls : ServeInbox(c))
  /\ WF_inboxVars(\E c \in inboxCalls : InboxAnswered(c))

InboxSpec == InboxInit /\ [][InboxNext]_inboxVars /\ InboxFairness

-------------------------------------------------------------------------------
InboxIsCurrent ==
  /\ panel.notifications = GetByAccount(panel.accountId)
  /\ panel.unreadCount = UnreadOf(panel.notifications)
  /\ panel.badge = panel.unreadCount

(* However clicks, marks, polls, account switches and their late answers   *)
(* interleave, an open inbox ends up showing the account's notices as the  *)
(* server has them, with the count and the badge that go with them.        *)
InboxSettles == <>[](panel.mounted => InboxIsCurrent)
===============================================================================
