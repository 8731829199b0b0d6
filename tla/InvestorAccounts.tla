--------------------------- MODULE InvestorAccounts ---------------------------
(***************************************************************************)
(* The accounts the investor can pick (accounts.js) and what the client    *)
(* knows of them.  InvestorView starts on an account id that is not in     *)
(* this list: the client knows nothing of it and lets it pass.             *)
(***************************************************************************)
EXTENDS FundingRules

CONSTANTS ACCOUNTS,      \* the ids of the list
          Ineligible,    \* those listed as suspended or closed
          StartAccount   \* the id InvestorView starts on

AccountIds == ACCOUNTS \cup {StartAccount}

ASSUME AccountsAssumption ==
  Ineligible \subseteq ACCOUNTS /\ AccountIds \subseteq Accounts

isAccountIneligible(accountId) == accountId \in Ineligible
===============================================================================
