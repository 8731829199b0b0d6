----------------------------- MODULE LedgerProofs -----------------------------
(***************************************************************************)
(* Type correctness of CheckDeposit, and that the ledger of every transfer *)
(* agrees with its status in every reachable state.  LedgerInv is          *)
(* inductive: an approval and a return write the amount they read before   *)
(* their transaction, so the invariant also says that what they carry is   *)
(* still current.                                                          *)
(***************************************************************************)
EXTENDS CheckDeposit, SequenceTheorems, TLAPS

(* Initially every transfer is absent and every request idle.              *)
LEMMA InitType == Init => TypeOK
<1> SUFFICES ASSUME Init PROVE TypeOK
  OBVIOUS
<1>1. /\ ledger \in [Deposits -> Seq(Entries)]
      /\ history \in [Deposits -> Seq(Moves)]
  <2>1. << >> \in Seq(Entries) /\ << >> \in Seq(Moves)
    OBVIOUS
  <2>2. QED
    BY <2>1 DEF Init
<1>2. /\ status \in [Deposits -> Statuses \cup {NoRow}]
      /\ flag \in [Deposits -> FlagReasons]
      /\ amount \in [Deposits -> Nat]
      /\ ctype \in [Deposits -> CTypes]
  BY DEF Init, FlagReasons, CTypes
<1>3. /\ pc \in [Deposits -> SubmitSteps]
      /\ answer \in [Deposits -> Answers]
      /\ rpc \in [Reviews -> ReviewSteps]
      /\ held \in [Reviews -> Nat]
  BY DEF Init, SubmitSteps, Answers, ReviewSteps
<1>4. QED
  BY <1>1, <1>2, <1>3 DEF Init, TypeOK

(* The amount of a form is an integer.                                     *)
LEMMA FormAmount == TypeOK => \A d \in Deposits : form[d].amount \in Int
BY DepositAssumption DEF TypeOK, Forms

(* A transition in a transaction of its own keeps the types of status and  *)
(* history (Machine.Transition).                                           *)
LEMMA TransitionType ==
  ASSUME TypeOK, NEW d \in Deposits, NEW from \in Statuses, NEW to \in Statuses,
         NEW by \in Origins, Transition(d, from, to, by)
  PROVE  /\ status' \in [Deposits -> Statuses \cup {NoRow}]
         /\ history' \in [Deposits -> Seq(Moves)]
<1>1. status' \in [Deposits -> Statuses \cup {NoRow}]
  BY DEF TypeOK, Transition
<1>2. Move(from, to, by) \in Moves
  BY DEF Move, Moves
<1>3. history' \in [Deposits -> Seq(Moves)]
  BY <1>2 DEF TypeOK, Transition
<1>4. QED
  BY <1>1, <1>3

(* Posting the funds keeps the types of status, history and ledger.        *)
LEMMA PostFundsType ==
  ASSUME TypeOK, NEW d \in Deposits, NEW a \in Int, NEW by \in Origins,
         PostFunds(d, a, by)
  PROVE  /\ status' \in [Deposits -> Statuses \cup {NoRow}]
         /\ history' \in [Deposits -> Seq(Moves)]
         /\ ledger' \in [Deposits -> Seq(Entries)]
<1>1. status' \in [Deposits -> Statuses \cup {NoRow}]
  BY DEF TypeOK, PostFunds, Statuses
<1>2. /\ Move("analyzing", "approved", by) \in Moves
      /\ Move("approved", "funds_posted", by) \in Moves
  BY DEF Move, Moves, Statuses
<1>3. history' \in [Deposits -> Seq(Moves)]
  BY <1>2 DEF TypeOK, PostFunds
<1>4. Entry("DEPOSIT", a) \in Entries
  BY DEF PostFunds, Postable, Entry, Entries
<1>5. ledger' \in [Deposits -> Seq(Entries)]
  BY <1>4 DEF TypeOK, PostFunds
<1>6. QED
  BY <1>1, <1>3, <1>5

(* A return keeps the types of status, history and ledger.                 *)
LEMMA ReturnFundsType ==
  ASSUME TypeOK, NEW d \in Deposits, NEW a \in Int, ReturnFunds(d, a)
  PROVE  /\ status' \in [Deposits -> Statuses \cup {NoRow}]
         /\ history' \in [Deposits -> Seq(Moves)]
         /\ ledger' \in [Deposits -> Seq(Entries)]
<1>1. /\ status' \in [Deposits -> Statuses \cup {NoRow}]
      /\ history' \in [Deposits -> Seq(Moves)]
  BY TransitionType DEF ReturnFunds, Statuses, Origins
<1>2. Entry("REVERSAL", a) \in Entries /\ Entry("RETURN_FEE", ReturnFee) \in Entries
  BY StoreAssumption DEF ReturnFunds, Postable, Entry, Entries
<1>3. ledger' \in [Deposits -> Seq(Entries)]
  BY <1>2 DEF TypeOK, ReturnFunds
<1>4. QED
  BY <1>1, <1>3

(* One step of a submission keeps the types.                               *)
LEMMA SubmitType ==
  ASSUME TypeOK, NEW d \in Deposits,
         \/ Create(d) \/ RefuseForm(d) \/ SubmitStep(d) \/ Abort(d) \/ Settle(d)
  PROVE  TypeOK'
<1> USE DEF Goto, Finish, SubmitSteps, Answers, rows, submitVars, reviewVars, store
<1>1. CASE Create(d)
  <2>1. form[d].amount \in Nat
    BY <1>1, FormAmount DEF Create, FormAccepted
  <2>2. /\ amount' \in [Deposits -> Nat]
        /\ status' \in [Deposits -> Statuses \cup {NoRow}]
    BY <1>1, <2>1 DEF Create, TypeOK, Statuses
  <2>3. QED
    BY <1>1, <2>2 DEF Create, TypeOK
<1>2. CASE RefuseForm(d)
  BY <1>2 DEF RefuseForm, TypeOK
<1>3. CASE BeginValidation(d)
  BY <1>3, TransitionType
     DEF BeginValidation, UncheckedTransition, TypeOK, Statuses, Origins
<1>4. CASE VendorFails(d)
  BY <1>4, TransitionType DEF VendorFails, UncheckedTransition, TypeOK, Statuses, Origins
<1>5. CASE Analyze(d)
  BY <1>5, TransitionType DEF Analyze, FlagColumn, FlagReason, FlagReasons,
                              TypeOK, Statuses, Origins
<1>6. CASE AnalyzeConflict(d)
  BY <1>6 DEF AnalyzeConflict, TypeOK
<1>7. CASE CheckRules(d)
  BY <1>7 DEF CheckRules, TypeOK
<1>8. CASE RefuseByRules(d)
  BY <1>8, TransitionType DEF RefuseByRules, UncheckedTransition, TypeOK, Statuses, Origins
<1>9. CASE MarkCheck(d)
  BY <1>9, DepositAssumption DEF MarkCheck, AfterMark, SetMark, TypeOK, Forms
<1>10. CASE SetContribution(d)
  BY <1>10 DEF SetContribution, ContributionType, CTypes, TypeOK
<1>11. CASE AutoPost(d)
  BY <1>11, FormAmount, PostFundsType DEF AutoPost, TypeOK, Origins
<1>12. CASE AutoPostFails(d)
  BY <1>12 DEF AutoPostFails, TypeOK
<1>13. CASE Abort(d)
  BY <1>13 DEF Abort, TypeOK
<1>14. CASE Settle(d)
  BY <1>14, TransitionType DEF Settle, TypeOK, Statuses, Origins
<1>15. QED
  BY <1>1, <1>2, <1>3, <1>4, <1>5, <1>6, <1>7, <1>8, <1>9, <1>10, <1>11, <1>12,
     <1>13, <1>14 DEF SubmitStep
(* One step of an operator request keeps the types.                        *)
LEMMA ReviewType ==
  ASSUME TypeOK, NEW o \in Reviews,
         \/ ReadToApprove(o) \/ ReadToReject(o) \/ ReadToOverride(o) \/ ReadToReturn(o)
         \/ ReviewStep(o) \/ ReviewDies(o)
  PROVE  TypeOK'
<1> USE DEF Review, ReviewSteps, Decisions, Tell, rows, submitVars, store
<1>0. /\ about[o] \in Deposits
      /\ held[o] \in Nat
      /\ amount[about[o]] \in Nat
  BY DEF TypeOK
<1>1. CASE ReadToApprove(o)
  <2>1. PICK v \in Amounts :
          /\ flag[about[o]] = "amount_mismatch" => VerifiedOk(v)
          /\ held' = [held EXCEPT ![o] = PostingAmount(about[o], v)]
    BY <1>1 DEF ReadToApprove
  <2>2. PostingAmount(about[o], v) \in Nat
    <3>1. CASE flag[about[o]] = "amount_mismatch"
      <4>1. v \in Int /\ v > 0
        BY <2>1, <3>1, DepositAssumption DEF VerifiedOk
      <4>2. QED
        BY <3>1, <4>1 DEF PostingAmount
    <3>2. CASE flag[about[o]] # "amount_mismatch"
      BY <1>0, <3>2 DEF PostingAmount
    <3>3. QED
      BY <3>1, <3>2
  <2>3. held' \in [Reviews -> Nat]
    BY <2>1, <2>2 DEF TypeOK
  <2>4. rpc' \in [Reviews -> ReviewSteps] /\ UNCHANGED <<about, notices>>
    BY <1>1 DEF ReadToApprove, TypeOK
  <2>5. UNCHANGED <<store, submitVars, marked>>
    BY <1>1 DEF ReadToApprove
  <2>6. QED
    BY <2>3, <2>4, <2>5 DEF TypeOK
<1>2. CASE CommitApprove(o)
  <2>1. CASE PostFunds(about[o], held[o], "reviewer") /\ StoreVerified(o, about[o])
             /\ LogAction(o, "approve", about[o])
             /\ \E c \in Overrides \cup {ctype[about[o]]} :
                  ctype' = [ctype EXCEPT ![about[o]] = c]
    <3>1. ctype' \in [Deposits -> CTypes]
      BY <1>0, <2>1 DEF TypeOK, CTypes
    <3>2. amount' \in [Deposits -> Nat]
      BY <1>0, <2>1 DEF TypeOK, StoreVerified
    <3>3. audit' \subseteq [req : Reviews, action : {"approve", "reject", "override"},
                           on : Deposits]
      BY <1>0, <2>1 DEF TypeOK, LogAction
    <3>4. /\ status' \in [Deposits -> Statuses \cup {NoRow}]
          /\ history' \in [Deposits -> Seq(Moves)]
          /\ ledger' \in [Deposits -> Seq(Entries)]
      <4>1. held[o] \in Int /\ "reviewer" \in Origins
        BY <1>0 DEF Origins
      <4>2. QED
        BY <1>0, <2>1, <4>1, PostFundsType
    <3>5. rpc' \in [Reviews -> ReviewSteps] /\ UNCHANGED <<about, notices>>
      BY <1>2 DEF CommitApprove, TypeOK
    <3>6. UNCHANGED <<flag, submitVars, marked, held>>
      BY <1>2 DEF CommitApprove
    <3>7. QED
      BY <3>1, <3>2, <3>3, <3>4, <3>5, <3>6 DEF TypeOK
  <2>2. CASE UNCHANGED <<status, history, ledger, amount, ctype, audit>>
    BY <1>2, <2>2 DEF CommitApprove, TypeOK
  <2>3. QED
    BY <1>2, <2>1, <2>2 DEF CommitApprove, RolledBack
<1>3. CASE ReadToReject(o)
  BY <1>3 DEF ReadToReject, TypeOK
<1>4. CASE CommitReject(o)
  <2>1. CASE Transition(about[o], "analyzing", "rejected", "reviewer")
             /\ LogAction(o, "reject", about[o])
    <3>1. audit' \subseteq [req : Reviews, action : {"approve", "reject", "override"},
                           on : Deposits]
      BY <1>0, <2>1 DEF TypeOK, LogAction
    <3>2. QED
      BY <1>0, <1>4, <2>1, <3>1, TransitionType
         DEF CommitReject, TypeOK, Statuses, Origins
  <2>2. CASE UNCHANGED <<status, history, audit>>
    BY <1>4, <2>2 DEF CommitReject, TypeOK
  <2>3. QED
    BY <1>4, <2>1, <2>2 DEF CommitReject
<1>5. CASE ReadToOverride(o)
  BY <1>5 DEF ReadToOverride, TypeOK
<1>6. CASE CommitOverride(o)
  <2>1. ctype' \in [Deposits -> CTypes]
    BY <1>0, <1>6 DEF CommitOverride, TypeOK, CTypes
  <2>2. audit' \subseteq [req : Reviews, action : {"approve", "reject", "override"},
                         on : Deposits]
    BY <1>0, <1>6 DEF CommitOverride, LogAction, TypeOK
  <2>3. QED
    BY <1>6, <2>1, <2>2 DEF CommitOverride, TypeOK
<1>7. CASE ReadToReturn(o)
  BY <1>0, <1>7 DEF ReadToReturn, TypeOK
<1>8. CASE CommitReturn(o)
  <2>1. /\ status' \in [Deposits -> Statuses \cup {NoRow}]
        /\ history' \in [Deposits -> Seq(Moves)]
        /\ ledger' \in [Deposits -> Seq(Entries)]
    <3>1. CASE ReturnFunds(about[o], held[o])
      BY <1>0, <3>1, ReturnFundsType
    <3>2. CASE UNCHANGED <<status, history, ledger>>
      BY <3>2 DEF TypeOK
    <3>3. QED
      BY <1>8, <3>1, <3>2 DEF CommitReturn
  <2>2. rpc' \in [Reviews -> ReviewSteps] /\ UNCHANGED <<about, notices>>
    BY <1>8 DEF CommitReturn, TypeOK
  <2>3. UNCHANGED <<rows, audit, submitVars, marked, held>>
    BY <1>8 DEF CommitReturn
  <2>4. QED
    BY <2>1, <2>2, <2>3 DEF TypeOK
<1>9. CASE ReviewDies(o)
  BY <1>9 DEF ReviewDies, TypeOK
<1>10. CASE Notify(o)
  <2>1. [by |-> o, on |-> about[o], says |-> rpc[o]]
          \in [by : Reviews, on : Deposits, says : Decisions]
    BY <1>0, <1>10 DEF Notify
  <2>2. notices' \subseteq [by : Reviews, on : Deposits, says : Decisions]
    BY <1>10, <2>1 DEF Notify, TypeOK
  <2>3. QED
    BY <1>10, <2>2 DEF Notify, TypeOK
<1>11. QED
  BY <1>1, <1>2, <1>3, <1>4, <1>5, <1>6, <1>7, <1>8, <1>9, <1>10 DEF ReviewStep

(* Every variable keeps its type, whatever the constants.                  *)
THEOREM TypeCorrect == Spec => []TypeOK
<1>1. TypeOK /\ [Next]_vars => TypeOK'
  <2> SUFFICES ASSUME TypeOK, [Next]_vars PROVE TypeOK'
    OBVIOUS
  <2>1. CASE UNCHANGED vars
    BY <2>1 DEF vars, store, submitVars, reviewVars, TypeOK
  <2>2. CASE Quiet
    BY <2>1, <2>2 DEF Quiet
  <2>3. ASSUME NEW d \in Deposits,
               Create(d) \/ RefuseForm(d) \/ SubmitStep(d) \/ Abort(d) \/ Settle(d)
        PROVE  TypeOK'
    BY <2>3, SubmitType
  <2>4. ASSUME NEW o \in Reviews,
               \/ ReadToApprove(o) \/ ReadToReject(o) \/ ReadToOverride(o)
               \/ ReadToReturn(o) \/ ReviewStep(o) \/ ReviewDies(o)
        PROVE  TypeOK'
    BY <2>4, ReviewType
  <2>5. QED
    BY <2>1, <2>2, <2>3, <2>4 DEF Next
<1>2. QED
  BY <1>1, InitType, PTL DEF Spec

-------------------------------------------------------------------------------
(* The part of LedgerInv that is not typing. *)
Agreement ==
  /\ RowsAreAccepted
  /\ AmountChangeIsApproved
  /\ HeldIsCurrent
  /\ LedgerMatchesStatus

(* No request is put into the step before an approval or a return commits, *)
(* no submission goes back to its start.                                   *)
Onward ==
  /\ UNCHANGED <<form, about, held>>
  /\ \A e \in Deposits : pc'[e] = "idle" => pc[e] = "idle"
  /\ \A o \in Reviews : rpc'[o] \in {"approve", "return"} => rpc'[o] = rpc[o]

(* Every operator request names a transfer.                                *)
LEMMA AboutType == TypeOK => \A o \in Reviews : about[o] \in Deposits
BY DEF TypeOK

(* Appending to a sequence of one explicit element.                        *)
LEMMA AppendToOne ==
  ASSUME NEW S, NEW x \in S, NEW y \in S
  PROVE  Append(<<x>>, y) = <<x, y>>
<1>1. <<x>> \in Seq(S) /\ Len(<<x>>) = 1 /\ <<x>>[1] = x
  OBVIOUS
<1>2. <<x, y>> \in Seq(S) /\ Len(<<x, y>>) = 2 /\ <<x, y>>[1] = x /\ <<x, y>>[2] = y
  OBVIOUS
<1>3. /\ Append(<<x>>, y) \in Seq(S) /\ Len(Append(<<x>>, y)) = 2
      /\ Append(<<x>>, y)[1] = x /\ Append(<<x>>, y)[2] = y
  BY <1>1, AppendProperties
<1>4. \A i \in 1 .. 2 : Append(<<x>>, y)[i] = <<x, y>>[i]
  BY <1>2, <1>3
<1>5. QED
  BY <1>2, <1>3, <1>4, SeqEqual

(* The same for a sequence of two.                                        *)
LEMMA AppendToTwo ==
  ASSUME NEW S, NEW x \in S, NEW y \in S, NEW z \in S
  PROVE  Append(<<x, y>>, z) = <<x, y, z>>
<1>1. <<x, y>> \in Seq(S) /\ Len(<<x, y>>) = 2 /\ <<x, y>>[1] = x /\ <<x, y>>[2] = y
  OBVIOUS
<1>2. /\ <<x, y, z>> \in Seq(S) /\ Len(<<x, y, z>>) = 3
      /\ <<x, y, z>>[1] = x /\ <<x, y, z>>[2] = y /\ <<x, y, z>>[3] = z
  OBVIOUS
<1>3. /\ Append(<<x, y>>, z) \in Seq(S) /\ Len(Append(<<x, y>>, z)) = 3
      /\ Append(<<x, y>>, z)[1] = x /\ Append(<<x, y>>, z)[2] = y
      /\ Append(<<x, y>>, z)[3] = z
  BY <1>1, AppendProperties
<1>4. \A i \in 1 .. 3 : Append(<<x, y>>, z)[i] = <<x, y, z>>[i]
  BY <1>2, <1>3
<1>5. QED
  BY <1>2, <1>3, <1>4, SeqEqual

(* A step that leaves status, flag, amount and ledger alone.               *)
LEMMA StoreKept ==
  ASSUME Agreement, Onward, UNCHANGED <<status, flag, amount, ledger>>
  PROVE  Agreement'
<1>1. RowsAreAccepted'
  BY DEF Agreement, Onward, RowsAreAccepted, FormAccepted
<1>2. AmountChangeIsApproved'
  BY DEF Agreement, Onward, AmountChangeIsApproved
<1>3. HeldIsCurrent'
  BY DEF Agreement, Onward, HeldIsCurrent
<1>4. LedgerMatchesStatus'
  BY DEF Agreement, LedgerMatchesStatus, Books, Entry
<1>5. QED
  BY <1>1, <1>2, <1>3, <1>4 DEF Agreement

(* The moves of the table that end before the funds are posted.            *)
LEMMA EarlyMoves ==
  ASSUME NEW from, NEW to \in {"validating", "analyzing", "rejected"},
         IsValid(from, to)
  PROVE  /\ from \in {"requested", "validating", "analyzing", "approved"}
         /\ to = "validating" => from = "requested"
         /\ to = "analyzing" => from = "validating"
BY DEF IsValid, Allowed, Statuses

(* A move of one transfer that ends before its funds are posted; the flag  *)
(* may be set by the move out of validating.                               *)
LEMMA EarlyMove ==
  ASSUME TypeOK, Agreement, Onward, UNCHANGED <<amount, ledger>>,
         NEW d \in Deposits, NEW to \in {"validating", "analyzing", "rejected"},
         IsValid(status[d], to), status[d] # "approved",
         status' = [status EXCEPT ![d] = to],
         \A e \in Deposits :
           flag'[e] = flag[e] \/ (e = d /\ status[d] = "validating")
  PROVE  Agreement'
<1>1. /\ status[d] \in {"requested", "validating", "analyzing"}
      /\ to = "validating" => status[d] = "requested"
      /\ to = "analyzing" => status[d] = "validating"
  BY EarlyMoves
<1>2. /\ status'[d] = to
      /\ \A e \in Deposits : e # d => status'[e] = status[e]
  BY DEF TypeOK
<1>3. RowsAreAccepted'
  BY <1>1, <1>2 DEF Agreement, Onward, RowsAreAccepted, FormAccepted, NoRow
<1>4. AmountChangeIsApproved'
  BY <1>1, <1>2 DEF Agreement, Onward, AmountChangeIsApproved, Funded, Credited, NoRow
<1>5. HeldIsCurrent'
  BY <1>1, <1>2 DEF Agreement, Onward, HeldIsCurrent, TypeOK, NoRow
<1>6. LedgerMatchesStatus'
  BY <1>1, <1>2 DEF Agreement, LedgerMatchesStatus, Books, Entry, Credited
<1>7. QED
  BY <1>3, <1>4, <1>5, <1>6 DEF Agreement

(* The move into the table's funded part that writes the credit: whatever  *)
(* amount it writes, it leaves in the row.                                 *)
LEMMA CreditMove ==
  ASSUME TypeOK, Agreement, Onward, UNCHANGED flag,
         NEW d \in Deposits, NEW a \in 1 .. Limit, NEW by,
         PostFunds(d, a, by),
         amount' = [amount EXCEPT ![d] = a],
         a # form[d].amount => flag[d] = "amount_mismatch"
  PROVE  Agreement'
<1>1. /\ status[d] = "analyzing"
      /\ status'[d] = "funds_posted"
      /\ \A e \in Deposits : e # d => status'[e] = status[e]
  BY DEF PostFunds, Holds, TypeOK
<1>2. /\ amount'[d] = a
      /\ \A e \in Deposits : e # d => amount'[e] = amount[e]
  BY DEF TypeOK
<1>3. /\ ledger'[d] = Append(ledger[d], Entry("DEPOSIT", a))
      /\ \A e \in Deposits : e # d => ledger'[e] = ledger[e]
  BY DEF PostFunds, TypeOK
<1>4. ledger[d] = << >>
  BY <1>1 DEF Agreement, LedgerMatchesStatus, Books, Credited
<1>5. RowsAreAccepted'
  BY <1>1, <1>2 DEF Agreement, Onward, RowsAreAccepted, FormAccepted, NoRow
<1>6. AmountChangeIsApproved'
  BY <1>1, <1>2 DEF Agreement, Onward, AmountChangeIsApproved, Funded, Credited, NoRow
<1>7. HeldIsCurrent'
  BY <1>1, <1>2 DEF Agreement, Onward, HeldIsCurrent, TypeOK, NoRow
<1>8. LedgerMatchesStatus'
  <2>1. ledger'[d] = <<Entry("DEPOSIT", a)>>
    BY <1>3, <1>4
  <2>2. QED
    BY <1>1, <1>2, <1>3, <2>1 DEF Agreement, LedgerMatchesStatus, Books, Credited, Entry
<1>9. QED
  BY <1>5, <1>6, <1>7, <1>8 DEF Agreement

(* Settlement moves a credited transfer on; its credit stands.             *)
LEMMA SettleMove ==
  ASSUME TypeOK, Agreement, NEW d \in Deposits, Settle(d)
  PROVE  Agreement'
<1>1. /\ status[d] = "funds_posted"
      /\ status'[d] = "completed"
      /\ \A e \in Deposits : e # d => status'[e] = status[e]
  BY DEF Settle, Transition, Holds, TypeOK
<1>2. UNCHANGED <<flag, amount, ledger, form, pc, rpc, about, held>>
  BY DEF Settle, rows, submitVars, reviewVars
<1>3. RowsAreAccepted'
  BY <1>1, <1>2 DEF Agreement, RowsAreAccepted, FormAccepted, NoRow
<1>4. AmountChangeIsApproved'
  BY <1>1, <1>2 DEF Agreement, AmountChangeIsApproved, Funded, Credited, NoRow
<1>5. HeldIsCurrent'
  BY <1>1, <1>2, AboutType DEF Agreement, HeldIsCurrent, NoRow
<1>6. LedgerMatchesStatus'
  BY <1>1, <1>2 DEF Agreement, LedgerMatchesStatus, Books, Credited, Entry
<1>7. QED
  BY <1>3, <1>4, <1>5, <1>6 DEF Agreement

(* A return reverses the amount it read, which is still the one credited.  *)
LEMMA ReturnMove ==
  ASSUME TypeOK, Agreement, Onward, UNCHANGED <<flag, amount>>,
         NEW d \in Deposits, ReturnFunds(d, amount[d])
  PROVE  Agreement'
<1>1. /\ status[d] = "completed"
      /\ status'[d] = "returned"
      /\ \A e \in Deposits : e # d => status'[e] = status[e]
  BY DEF ReturnFunds, Transition, Holds, TypeOK
<1>2. /\ ledger'[d] = Append(Append(ledger[d], Entry("REVERSAL", amount[d])),
                             Entry("RETURN_FEE", ReturnFee))
      /\ \A e \in Deposits : e # d => ledger'[e] = ledger[e]
  BY DEF ReturnFunds, TypeOK
<1>3. ledger[d] = <<Entry("DEPOSIT", amount[d])>>
  BY <1>1 DEF Agreement, LedgerMatchesStatus, Books, Credited
<1>4. RowsAreAccepted'
  BY <1>1 DEF Agreement, Onward, RowsAreAccepted, FormAccepted, NoRow
<1>5. AmountChangeIsApproved'
  BY <1>1 DEF Agreement, Onward, AmountChangeIsApproved, Funded, Credited, NoRow
<1>6. HeldIsCurrent'
  BY <1>1, AboutType DEF Agreement, Onward, HeldIsCurrent, NoRow
<1>7. LedgerMatchesStatus'
  <2>1. ledger'[d] = <<Entry("DEPOSIT", amount[d]), Entry("REVERSAL", amount[d]),
                       Entry("RETURN_FEE", ReturnFee)>>
    <3> DEFINE S == {Entry("DEPOSIT", amount[d]), Entry("REVERSAL", amount[d]),
                     Entry("RETURN_FEE", ReturnFee)}
    <3>1. /\ Entry("DEPOSIT", amount[d]) \in S /\ Entry("REVERSAL", amount[d]) \in S
          /\ Entry("RETURN_FEE", ReturnFee) \in S
      OBVIOUS
    <3> HIDE DEF S
    <3>2. Append(<<Entry("DEPOSIT", amount[d])>>, Entry("REVERSAL", amount[d]))
            = <<Entry("DEPOSIT", amount[d]), Entry("REVERSAL", amount[d])>>
      BY <3>1, AppendToOne
    <3>3. Append(<<Entry("DEPOSIT", amount[d]), Entry("REVERSAL", amount[d])>>,
                 Entry("RETURN_FEE", ReturnFee))
            = <<Entry("DEPOSIT", amount[d]), Entry("REVERSAL", amount[d]),
                Entry("RETURN_FEE", ReturnFee)>>
      BY <3>1, AppendToTwo
    <3>4. QED
      BY <1>2, <1>3, <3>2, <3>3
  <2>2. QED
    BY <1>1, <1>2, <2>1 DEF Agreement, LedgerMatchesStatus, Books, Credited, Entry
<1>8. QED
  BY <1>4, <1>5, <1>6, <1>7 DEF Agreement

(* A submission's steps keep the books.                                    *)
LEMMA SubmitKeeps ==
  ASSUME TypeOK, Agreement, NEW d \in Deposits,
         \/ Create(d) \/ RefuseForm(d) \/ SubmitStep(d) \/ Abort(d) \/ Settle(d)
  PROVE  Agreement'
<1>1. CASE Create(d)
  <2>1. /\ status[d] = NoRow
        /\ status'[d] = "requested"
        /\ \A e \in Deposits : e # d => status'[e] = status[e]
    BY <1>1 DEF Create, Goto, Agreement, RowsAreAccepted, TypeOK
  <2>2. /\ amount'[d] = form[d].amount
        /\ \A e \in Deposits : e # d => amount'[e] = amount[e]
    BY <1>1 DEF Create, TypeOK
  <2>3. /\ form[d].amount \in 1 .. Limit
        /\ FormAccepted(form[d])
    BY <1>1, FormAmount DEF Create, FormAccepted
  <2>4. /\ UNCHANGED <<form, flag, ledger, about, held, rpc>>
        /\ \A e \in Deposits : pc'[e] = "idle" => pc[e] = "idle"
        /\ pc'[d] # "idle"
    BY <1>1 DEF Create, Goto, TypeOK, reviewVars
  <2>5. RowsAreAccepted'
    BY <2>1, <2>2, <2>3, <2>4 DEF Agreement, RowsAreAccepted, FormAccepted
  <2>6. AmountChangeIsApproved'
    BY <2>1, <2>2, <2>4 DEF Agreement, AmountChangeIsApproved
  <2>7. HeldIsCurrent'
    BY <2>1, <2>2, <2>4, AboutType DEF Agreement, HeldIsCurrent, NoRow
  <2>8. LedgerMatchesStatus'
    BY <2>1, <2>2, <2>4 DEF Agreement, LedgerMatchesStatus, Books, Credited, Entry, NoRow
  <2>9. QED
    BY <2>5, <2>6, <2>7, <2>8 DEF Agreement
<1>2. CASE \/ RefuseForm(d) \/ AnalyzeConflict(d) \/ CheckRules(d) \/ MarkCheck(d)
           \/ SetContribution(d) \/ AutoPostFails(d) \/ Abort(d)
  <2>1. Onward
    BY <1>2 DEF RefuseForm, AnalyzeConflict, CheckRules, MarkCheck, SetContribution,
                AutoPostFails, Abort, Goto, Finish, AfterMark, Onward, reviewVars, TypeOK
  <2>2. UNCHANGED <<status, flag, amount, ledger>>
    BY <1>2 DEF RefuseForm, AnalyzeConflict, CheckRules, MarkCheck, SetContribution,
                AutoPostFails, Abort, store
  <2>3. QED
    BY <2>1, <2>2, StoreKept
<1>3. CASE BeginValidation(d) \/ VendorFails(d) \/ Analyze(d) \/ RefuseByRules(d)
  <2>1. Onward
    BY <1>3 DEF BeginValidation, VendorFails, Analyze, RefuseByRules, Goto, Finish,
                Onward, reviewVars, TypeOK
  <2>2. UNCHANGED <<amount, ledger>>
    BY <1>3 DEF BeginValidation, VendorFails, Analyze, RefuseByRules, rows
  <2>3. CASE UNCHANGED <<status, flag>>
    BY <2>1, <2>2, <2>3, StoreKept
  <2>4. CASE ~UNCHANGED <<status, flag>>
    <3>1. PICK to \in {"validating", "analyzing", "rejected"} :
            /\ IsValid(status[d], to) /\ status[d] # "approved"
            /\ status' = [status EXCEPT ![d] = to]
            /\ \/ UNCHANGED flag
               \/ status[d] = "validating" /\ FlagColumn(d)
      BY <1>3, <2>4
         DEF BeginValidation, VendorFails, Analyze, RefuseByRules, UncheckedTransition,
             Transition, Holds, rows
    <3>2. \A e \in Deposits :
             flag'[e] = flag[e] \/ (e = d /\ status[d] = "validating")
      <4>1. flag \in [Deposits -> FlagReasons]
        BY DEF TypeOK
      <4>2. CASE UNCHANGED flag
        BY <4>2
      <4>3. CASE status[d] = "validating" /\ FlagColumn(d)
        BY <4>1, <4>3 DEF FlagColumn
      <4>4. QED
        BY <3>1, <4>2, <4>3
    <3>3. QED
      BY <2>1, <2>2, <3>1, <3>2, EarlyMove
  <2>5. QED
    BY <2>3, <2>4
<1>4. CASE AutoPost(d)
  <2>1. Onward /\ UNCHANGED <<flag, amount>>
    BY <1>4 DEF AutoPost, Finish, Onward, reviewVars, rows, TypeOK
  <2>2. PostFunds(d, form[d].amount, "system") /\ status[d] = "analyzing"
    BY <1>4 DEF AutoPost, PostFunds, Holds
  <2>3. form[d].amount = amount[d] /\ amount[d] \in 1 .. Limit
    BY <2>2 DEF Agreement, AmountChangeIsApproved, RowsAreAccepted, Funded, Credited, NoRow
  <2>4. amount' = [amount EXCEPT ![d] = form[d].amount]
    BY <2>1, <2>3 DEF TypeOK
  <2>5. QED
    BY <2>1, <2>2, <2>3, <2>4, CreditMove
<1>5. CASE Settle(d)
  BY <1>5, SettleMove
<1>6. QED
  BY <1>1, <1>2, <1>3, <1>4, <1>5 DEF SubmitStep

(* The steps of an operator request keep the books.                        *)
LEMMA ReviewKeeps ==
  ASSUME TypeOK, Agreement, NEW o \in Reviews,
         \/ ReadToApprove(o) \/ ReadToReject(o) \/ ReadToOverride(o) \/ ReadToReturn(o)
         \/ ReviewStep(o) \/ ReviewDies(o)
  PROVE  Agreement'
<1>0. /\ about[o] \in Deposits
      /\ rpc \in [Reviews -> ReviewSteps]
      /\ held \in [Reviews -> Nat]
      /\ amount \in [Deposits -> Nat]
      /\ flag[about[o]] \in FlagReasons
  BY DEF TypeOK
<1>1. CASE ReadToApprove(o) \/ ReadToReturn(o)
  <2>1. UNCHANGED <<status, flag, amount, ledger, form, pc, about>>
    BY <1>1 DEF ReadToApprove, ReadToReturn, Review, store, submitVars
  <2>2. \A p \in Reviews : p # o => rpc'[p] = rpc[p] /\ held'[p] = held[p]
    BY <1>0, <1>1 DEF ReadToApprove, ReadToReturn, Review
  <2>3. CASE ReadToApprove(o)
    <3>1. PICK v \in Amounts :
            /\ flag[about[o]] = "amount_mismatch" => VerifiedOk(v)
            /\ held' = [held EXCEPT ![o] = PostingAmount(about[o], v)]
      BY <2>3 DEF ReadToApprove
    <3>2. rpc'[o] = "approve" /\ held'[o] = PostingAmount(about[o], v)
      BY <1>0, <2>3, <3>1 DEF ReadToApprove, Review
    <3>3. /\ status[about[o]] = "analyzing"
          /\ flag[about[o]] \in {"micr_failure", "amount_mismatch"}
      BY <1>0, <2>3 DEF ReadToApprove, Reviewable, FlagReasons
    <3>4. /\ amount[about[o]] \in 1 .. Limit
          /\ amount[about[o]] = form[about[o]].amount
      BY <1>0, <3>3 DEF Agreement, RowsAreAccepted, AmountChangeIsApproved, Funded,
                        Credited, NoRow
    <3>5. held'[o] \in 1 .. Limit
      <4>1. CASE flag[about[o]] = "amount_mismatch"
        <5>1. v \in Int /\ v > 0 /\ v <= Limit
          BY <3>1, <4>1, DepositAssumption DEF VerifiedOk
        <5>2. held'[o] = v
          BY <3>2, <4>1 DEF PostingAmount
        <5>3. QED
          BY <5>1, <5>2, FundingAssumption
      <4>2. CASE flag[about[o]] # "amount_mismatch"
        BY <3>2, <3>4, <4>2 DEF PostingAmount
      <4>3. QED
        BY <4>1, <4>2
    <3>6. flag[about[o]] = "micr_failure" => held'[o] = form[about[o]].amount
      BY <3>2, <3>4 DEF PostingAmount
    <3>7. HeldIsCurrent'
      BY <1>0, <2>1, <2>2, <3>2, <3>3, <3>5, <3>6 DEF Agreement, HeldIsCurrent, NoRow
    <3>8. QED
      BY <2>1, <3>7 DEF Agreement, RowsAreAccepted, FormAccepted, AmountChangeIsApproved,
                        LedgerMatchesStatus, Books, Entry
  <2>4. CASE ReadToReturn(o)
    <3>1. /\ rpc'[o] = "return" /\ held'[o] = amount[about[o]]
          /\ status[about[o]] = "completed"
      BY <1>0, <2>4 DEF ReadToReturn, Review
    <3>2. HeldIsCurrent'
      BY <2>1, <2>2, <3>1 DEF Agreement, HeldIsCurrent
    <3>3. QED
      BY <2>1, <3>2 DEF Agreement, RowsAreAccepted, FormAccepted, AmountChangeIsApproved,
                        LedgerMatchesStatus, Books, Entry
  <2>5. QED
    BY <1>1, <2>3, <2>4
<1>2. CASE ~(ReadToApprove(o) \/ ReadToReturn(o))
  <2>1. Onward
    BY <1>0, <1>2 DEF ReadToReject, ReadToOverride, ReviewStep, CommitApprove,
         CommitReject, CommitOverride, CommitReturn, Notify, ReviewDies, Review, Tell,
         Decisions, Onward, submitVars
  <2>2. CASE UNCHANGED <<status, flag, amount, ledger>>
    BY <2>1, <2>2, StoreKept
  <2>3. CASE CommitReject(o) /\ ~UNCHANGED <<status, flag, amount, ledger>>
    <3>1. /\ Transition(about[o], "analyzing", "rejected", "reviewer")
          /\ UNCHANGED <<flag, amount, ledger>>
      BY <2>3 DEF CommitReject, rows
    <3>2. QED
      BY <1>0, <2>1, <3>1, EarlyMove DEF Transition, Holds
  <2>4. CASE CommitReturn(o) /\ ~UNCHANGED <<status, flag, amount, ledger>>
    <3>1. ReturnFunds(about[o], held[o]) /\ UNCHANGED <<flag, amount>>
      BY <2>4 DEF CommitReturn, rows
    <3>2. held[o] = amount[about[o]]
      BY <2>4 DEF CommitReturn, Review, Agreement, HeldIsCurrent
    <3>3. QED
      BY <1>0, <2>1, <3>1, <3>2, ReturnMove
  <2>5. CASE CommitApprove(o) /\ ~UNCHANGED <<status, flag, amount, ledger>>
    <3>1. /\ PostFunds(about[o], held[o], "reviewer")
          /\ StoreVerified(o, about[o])
          /\ UNCHANGED flag
      BY <2>5 DEF CommitApprove, RolledBack
    <3>2. /\ status[about[o]] = "analyzing"
          /\ rpc[o] = "approve"
      BY <2>5, <3>1 DEF CommitApprove, Review, PostFunds, Holds
    <3>3. /\ held[o] \in 1 .. Limit
          /\ flag[about[o]] \in {"micr_failure", "amount_mismatch"}
          /\ flag[about[o]] = "micr_failure" => held[o] = form[about[o]].amount
      BY <3>2 DEF Agreement, HeldIsCurrent
    <3>4. amount[about[o]] = form[about[o]].amount
      BY <1>0, <3>2 DEF Agreement, AmountChangeIsApproved, Funded, Credited, NoRow
    <3>5. amount' = [amount EXCEPT ![about[o]] = held[o]]
      BY <1>0, <3>1, <3>3, <3>4 DEF StoreVerified
    <3>6. QED
      BY <1>0, <2>1, <3>1, <3>3, <3>5, CreditMove
  <2>6. CASE \/ ReadToReject(o) \/ ReadToOverride(o) \/ CommitOverride(o)
             \/ Notify(o) \/ ReviewDies(o)
    <3>1. UNCHANGED <<status, flag, amount, ledger>>
      BY <2>6 DEF ReadToReject, ReadToOverride, CommitOverride, Notify, ReviewDies, store
    <3>2. QED
      BY <2>1, <3>1, StoreKept
  <2>7. QED
    BY <1>2, <2>2, <2>3, <2>4, <2>5, <2>6 DEF ReviewStep
<1>3. QED
  BY <1>1, <1>2

(* Initially there is nothing in any ledger.                               *)
LEMMA InitAgreement == Init => Agreement
<1> SUFFICES ASSUME Init PROVE Agreement
  OBVIOUS
<1>1. RowsAreAccepted /\ AmountChangeIsApproved
  BY DEF Init, RowsAreAccepted, AmountChangeIsApproved
<1>2. HeldIsCurrent
  BY DEF Init, HeldIsCurrent
<1>3. LedgerMatchesStatus
  BY DEF Init, LedgerMatchesStatus, Books, Credited, NoRow
<1>4. QED
  BY <1>1, <1>2, <1>3 DEF Agreement

(* LedgerInv holds in every reachable state.                               *)
THEOREM LedgerInvariant == Spec => []LedgerInv
<1>1. Init => LedgerInv
  BY InitType, InitAgreement DEF LedgerInv, Agreement
<1>2. LedgerInv /\ TypeOK' /\ [Next]_vars => LedgerInv'
  <2> SUFFICES ASSUME TypeOK, Agreement, [Next]_vars PROVE Agreement'
    BY DEF LedgerInv, Agreement
  <2>1. CASE UNCHANGED vars
    BY <2>1, StoreKept DEF vars, store, submitVars, reviewVars, Onward
  <2>2. CASE Quiet
    BY <2>1, <2>2 DEF Quiet
  <2>3. ASSUME NEW d \in Deposits,
               Create(d) \/ RefuseForm(d) \/ SubmitStep(d) \/ Abort(d) \/ Settle(d)
        PROVE  Agreement'
    BY <2>3, SubmitKeeps
  <2>4. ASSUME NEW o \in Reviews,
               \/ ReadToApprove(o) \/ ReadToReject(o) \/ ReadToOverride(o)
               \/ ReadToReturn(o) \/ ReviewStep(o) \/ ReviewDies(o)
        PROVE  Agreement'
    BY <2>4, ReviewKeeps
  <2>5. QED
    BY <2>1, <2>2, <2>3, <2>4 DEF Next
<1>3. QED
  BY <1>1, <1>2, TypeCorrect, PTL DEF Spec

(* The ledger of every transfer is what its status says, whatever the      *)
(* deposits, the operators' requests, their interleaving and the faults.   *)
THEOREM LedgerAgrees == Spec => []LedgerMatchesStatus
<1>1. LedgerInv => LedgerMatchesStatus
  BY DEF LedgerInv
<1>2. QED
  BY <1>1, LedgerInvariant, PTL

(* An amount other than the declared one comes from an approval.           *)
THEOREM AmountChangesApproved == Spec => []AmountChangeIsApproved
<1>1. LedgerInv => AmountChangeIsApproved
  BY DEF LedgerInv
<1>2. QED
  BY <1>1, LedgerInvariant, PTL

(* What Approve and Return read before their transaction is still good     *)
(* when the guarded update lets it through.                                *)
THEOREM ReadsStayCurrent == Spec => []HeldIsCurrent
<1>1. LedgerInv => HeldIsCurrent
  BY DEF LedgerInv
<1>2. QED
  BY <1>1, LedgerInvariant, PTL

(* No credit exceeds the per-check limit.                                  *)
THEOREM CreditBounded == Spec => []CreditWithinLimit
<1>1. LedgerInv => CreditWithinLimit
  <2> SUFFICES ASSUME LedgerInv, NEW d \in Deposits, NEW i \in 1 .. Len(ledger[d]),
                      ledger[d][i].sub = "DEPOSIT"
               PROVE  ledger[d][i].amount \in 1 .. Limit
    BY DEF CreditWithinLimit
  <2>1. ledger[d] = Books(d)
    BY DEF LedgerInv, LedgerMatchesStatus
  <2>2. Books(d) # << >>
    BY <2>1
  <2>3. ledger[d][i] = Entry("DEPOSIT", amount[d])
    BY <2>1, <2>2 DEF Books, Entry
  <2>4. status[d] # NoRow
    BY <2>2 DEF Books, Credited, NoRow
  <2>5. amount[d] \in 1 .. Limit
    BY <2>4 DEF LedgerInv, RowsAreAccepted
  <2>6. QED
    BY <2>3, <2>5 DEF Entry
<1>2. QED
  BY <1>1, LedgerInvariant, PTL
===============================================================================
