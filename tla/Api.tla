--------------------------------- MODULE Api ----------------------------------
(***************************************************************************)
(* The web client's calls (src/web/src/api.js) and the routes of the       *)
(* server they have to meet (cmd/server/main.go).  A call is a method, the *)
(* router group and path it names, and the headers it carries.  Query      *)
(* strings and bodies are the data of the modules that make the call.      *)
(***************************************************************************)
EXTENDS Naturals

investorHeaders == {"Authorization"}
operatorHeaders == {"X-Operator-ID"}

Call(method, group, path, headers) ==
  [method |-> method, group |-> group, path |-> path, headers |-> headers]

DepositCalls ==
  [submitDeposit |-> Call("POST", "api", "deposits", investorHeaders),
   getDeposit    |-> Call("GET", "api", "deposits/:id", investorHeaders),
   listDeposits  |-> Call("GET", "api", "deposits", investorHeaders),
   getLedger     |-> Call("GET", "api", "ledger/:account", investorHeaders)]

OperatorCalls ==
  [getQueue         |-> Call("GET", "operator", "queue", operatorHeaders),
   approveDeposit   |-> Call("POST", "operator", "deposits/:id/approve", operatorHeaders),
   rejectDeposit    |-> Call("POST", "operator", "deposits/:id/reject", operatorHeaders),
   triggerSettlement |-> Call("POST", "operator", "settlement/trigger", operatorHeaders),
   retrySettlement  |-> Call("POST", "operator", "settlement/retry/:batch", operatorHeaders),
   overrideContributionType |->
     Call("PATCH", "operator", "deposits/:id/contribution-type", operatorHeaders),
   getReturnReasons |-> Call("GET", "open", "returns/reasons", {}),
   returnDeposit    |-> Call("POST", "operator", "deposits/:id/return", operatorHeaders),
   getAuditLog      |-> Call("GET", "operator", "audit", operatorHeaders)]

SettlementCalls ==
  [listBatches    |-> Call("GET", "settlement", "batches", operatorHeaders),
   getBatch       |-> Call("GET", "settlement", "batches/:id", operatorHeaders),
   getEODStatus   |-> Call("GET", "settlement", "eod-status", operatorHeaders),
   getSettlementPreview |-> Call("GET", "settlement", "preview", operatorHeaders),
   getSettlementFileContents |->
     Call("GET", "settlement", "batches/:id/file", operatorHeaders),
   downloadSettlementFile |->
     Call("GET", "settlement", "batches/:id/download", operatorHeaders)]

AdminCalls ==
  [getDepositTrace |-> Call("GET", "admin", "deposits/:id/trace", operatorHeaders),
   listAllDeposits |-> Call("GET", "admin", "deposits", operatorHeaders),
   getHealth       |-> Call("GET", "open", "health", {})]

NotificationCalls ==
  [getNotifications |-> Call("GET", "api", "notifications", investorHeaders),
   getUnreadCount   |-> Call("GET", "api", "notifications/unread-count", investorHeaders),
   markNotificationRead |-> Call("POST", "api", "notifications/:id/read", investorHeaders),
   markAllNotificationsRead |->
     Call("POST", "api", "notifications/read-all", investorHeaders)]

(* The routes of the server, by group, and the header each group demands.  *)
Routes ==
  [open |-> {<<"GET", "health">>, <<"GET", "returns/reasons">>},
   api  |-> {<<"POST", "deposits">>, <<"GET", "deposits">>, <<"GET", "deposits/:id">>,
             <<"GET", "ledger/:account">>, <<"GET", "notifications">>,
             <<"GET", "notifications/unread-count">>,
             <<"POST", "notifications/:id/read">>, <<"POST", "notifications/read-all">>},
   operator |-> {<<"GET", "queue">>, <<"POST", "deposits/:id/approve">>,
             <<"POST", "deposits/:id/reject">>, <<"PATCH", "deposits/:id/contribution-type">>,
             <<"GET", "audit">>, <<"POST", "deposits/:id/return">>,
             <<"POST", "settlement/trigger">>, <<"POST", "settlement/retry/:batch">>},
   settlement |-> {<<"GET", "batches">>, <<"GET", "batches/:id">>,
             <<"GET", "batches/:id/file">>, <<"GET", "batches/:id/download">>,
             <<"GET", "eod-status">>, <<"GET", "preview">>},
   admin |-> {<<"GET", "deposits/:id/trace">>, <<"GET", "deposits">>}]

Guards ==
  [open |-> {}, api |-> {"Authorization"}, operator |-> {"X-Operator-ID"},
   settlement |-> {"X-Operator-ID"}, admin |-> {"X-Operator-ID"}]

Accepted(call) ==
  /\ <<call.method, call.path>> \in Routes[call.group]
  /\ Guards[call.group] \subseteq call.headers

(* The promise of a call resolves with the body of a 2xx answer and is     *)
(* rejected with the body of any other.                                    *)
handleResponse(call, fails) ==
  IF Accepted(call) /\ ~fails THEN "resolved" ELSE "rejected"

(* Every call of the client names a route of the server and carries the    *)
(* header its group demands.                                               *)
ASSUME EveryCallIsRouted ==
  /\ \A name \in DOMAIN DepositCalls : Accepted(DepositCalls[name])
  /\ \A name \in DOMAIN OperatorCalls : Accepted(OperatorCalls[name])
  /\ \A name \in DOMAIN SettlementCalls : Accepted(SettlementCalls[name])
  /\ \A name \in DOMAIN AdminCalls : Accepted(AdminCalls[name])
  /\ \A name \in DOMAIN NotificationCalls : Accepted(NotificationCalls[name])
===============================================================================
