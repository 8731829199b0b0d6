------------------------------ MODULE MCClients -------------------------------
(***************************************************************************)
(* The screens of the web client, for TLC.  They share no state, so the    *)
(* model is one of them at a time: `screen' says which from the start, and *)
(* the others stay as they were mounted.  A property of a screen holds     *)
(* trivially in the behaviours of the others.                              *)
(***************************************************************************)
EXTENDS TransferStatus, NotificationPanel, InvestorView, Listings,
        OperatorView, SettlementView, AdminView

CONSTANTS a0, a1, i1, i2, n1, n2

VARIABLE screen

clientVars == <<screen, trackerVars, inboxVars, investorVars, listVars, operatorVars,
                deskVars, adminVars>>

(* Both notices are for the account the investor starts on; one row of the *)
(* listings belongs to each account.                                       *)
MCAddressee == [n \in {n1, n2} |-> a0]
MCItemKey == [i \in {i1, i2} |-> IF i = i1 THEN a0 ELSE a1]
MCListBudget == [changes |-> 2, switches |-> 1, failures |-> 1, visits |-> 1]

ClientInit ==
  /\ screen \in {"tracker", "inbox", "form", "listing", "operator", "settlement", "admin"}
  /\ TrackerInit /\ InboxInit /\ InvestorInit /\ ListingInit
  /\ OperatorInit /\ DeskInit /\ AdminInit

ClientNext ==
  \/ /\ screen = "tracker" /\ TrackerNext
     /\ UNCHANGED <<screen, inboxVars, investorVars, listVars, operatorVars, deskVars, adminVars>>
  \/ /\ screen = "inbox" /\ InboxNext
     /\ UNCHANGED <<screen, trackerVars, investorVars, listVars, operatorVars, deskVars, adminVars>>
  \/ /\ screen = "form" /\ InvestorNext
     /\ UNCHANGED <<screen, trackerVars, inboxVars, listVars, operatorVars, deskVars, adminVars>>
  \/ /\ screen = "listing" /\ ListingNext
     /\ UNCHANGED <<screen, trackerVars, inboxVars, investorVars, operatorVars, deskVars, adminVars>>
  \/ /\ screen = "operator" /\ OperatorNext
     /\ UNCHANGED <<screen, trackerVars, inboxVars, investorVars, listVars, deskVars, adminVars>>
  \/ /\ screen = "settlement" /\ DeskNext
     /\ UNCHANGED <<screen, trackerVars, inboxVars, investorVars, listVars, operatorVars, adminVars>>
  \/ /\ screen = "admin" /\ AdminNext
     /\ UNCHANGED <<screen, trackerVars, inboxVars, investorVars, listVars, operatorVars, deskVars>>

ClientSpec ==
  /\ ClientInit /\ [][ClientNext]_clientVars
  /\ TrackerFairness /\ InboxFairness /\ InvestorFairness /\ ListingFairness /\ DeskFairness

(* Every screen's state has its type.                                      *)
ClientTypeOK ==
  /\ TrackerTypeOK /\ InboxTypeOK /\ InvestorTypeOK /\ ListingTypeOK
  /\ OperatorTypeOK /\ DeskTypeOK /\ AdminTypeOK
===============================================================================
