---------------------------- MODULE TransferStore ----------------------------
(***************************************************************************)
(* What Postgres keeps about transfers, and the transactions that change   *)
(* it.  Every transaction of the services updates one transfers row first  *)
(* (taking its row lock) and otherwise only inserts, so a transaction is   *)
(* one atomic step.                                                        *)
(***************************************************************************)
EXTENDS Integers, Sequences, TransferStates

CONSTANTS
  Deposits,     \* transfer ids; each POST /deposits draws a fresh one
  Reviews,      \* requests to the operator endpoints
  ReturnFee     \* RETURN_FEE_CENTS

ASSUME StoreAssumption == ReturnFee \in Int

VARIABLES
  status,       \* transfers.status, or NoRow
  flag,         \* transfers.flag_reason; flagged iff not "none"
  amount,       \* transfers.amount_cents
  ctype,        \* transfers.contribution_type
  ledger,       \* ledger_entries of each transfer, oldest first
  history,      \* state_transitions of each transfer, oldest first
  audit         \* audit_logs

rows  == <<flag, amount, ctype>>
store == <<status, flag, amount, ctype, ledger, history, audit>>

Entry(sub, a) == [sub |-> sub, amount |-> a]

(* The CHECK (amount_cents > 0) of ledger_entries and transfers.           *)
Postable(a) == a > 0

Move(from, to, by) == [from |-> from, to |-> to, by |-> by]

NoLock(d, from) == TRUE

(* The optimistic lock: WHERE id = $2 AND status = $3.                     *)
Holds(d, from) == status[d] = from

(* state.Machine.Transition committed in a transaction of its own.         *)
Transition(d, from, to, by) ==
  /\ IsValid(from, to)
  /\ Holds(d, from)
  /\ status' = [status EXCEPT ![d] = to]
  /\ history' = [history EXCEPT ![d] = Append(@, Move(from, to, by))]

(* Analyzing -> Approved, the DEPOSIT entry, Approved -> FundsPosted: one  *)
(* transaction, in deposit.ApproveAndPost and in operator.Approve.         *)
PostFunds(d, a, by) ==
  /\ IsValid("analyzing", "approved") /\ IsValid("approved", "funds_posted")
  /\ Holds(d, "analyzing")
  /\ Postable(a)
  /\ status' = [status EXCEPT ![d] = "funds_posted"]
  /\ history' = [history EXCEPT ![d] =
                   Append(Append(@, Move("analyzing", "approved", by)),
                          Move("approved", "funds_posted", by))]
  /\ ledger' = [ledger EXCEPT ![d] = Append(@, Entry("DEPOSIT", a))]

(* Completed -> Returned with the REVERSAL and RETURN_FEE entries.         *)
ReturnFunds(d, a) ==
  /\ Postable(a) /\ Postable(ReturnFee)
  /\ Transition(d, "completed", "returned", "operator")
  /\ ledger' = [ledger EXCEPT ![d] =
                 Append(Append(@, Entry("REVERSAL", a)),
                        Entry("RETURN_FEE", ReturnFee))]

LogNothing(o, action, d) == UNCHANGED audit

(* operator.LogActionTx: the audit row of request o.                       *)
LogAction(o, action, d) ==
  audit' = audit \cup {[req |-> o, action |-> action, on |-> d]}
===============================================================================
