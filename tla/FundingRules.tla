----------------------------- MODULE FundingRules -----------------------------
(***************************************************************************)
(* internal/funding: the collect-all business rules.  The account table is *)
(* seed data that no code path writes, so it is a set of constants.  The   *)
(* stub answers every readable check with the same MICR line, so the Redis *)
(* key of a check is determined by its amount.                             *)
(***************************************************************************)
EXTENDS Integers

CONSTANTS
  Accounts,     \* the account ids a request may name
  Known,        \* those with a row in accounts
  Active,       \* those whose row says 'active'
  Retirement,   \* those of a retirement account type
  Limit,        \* MaxDepositAmountCents
  Cap           \* MaxRetirementContributionCents

ASSUME FundingAssumption ==
  /\ Known \subseteq Accounts
  /\ Active \subseteq Known
  /\ Retirement \subseteq Known
  /\ Limit \in Nat
  /\ Cap \in Nat

Violations(acct, a, duplicate) ==
  {v \in {"account_ineligible", "over_limit", "contribution_cap_exceeded",
          "duplicate_funding"} :
     \/ v = "account_ineligible"        /\ acct \notin Active
     \/ v = "over_limit"                /\ a > Limit
     \/ v = "contribution_cap_exceeded" /\ acct \in Retirement /\ a > Cap
     \/ v = "duplicate_funding"         /\ duplicate}

(* ApplyRules returns without error: the account resolves and nothing is   *)
(* violated.                                                               *)
RulesPass(acct, a, duplicate) ==
  acct \in Known /\ Violations(acct, a, duplicate) = {}

ContributionType(acct) == IF acct \in Retirement THEN "INDIVIDUAL" ELSE ""
===============================================================================
