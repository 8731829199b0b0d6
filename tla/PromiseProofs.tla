----------------------------- MODULE PromiseProofs -----------------------------
(***************************************************************************)
(* What CheckDeposit promises: that terminal states, posted entries and    *)
(* credited amounts are never taken back, that it implements               *)
(* ProvisionalCredit, that answers and notices are true, and that what the *)
(* pipeline funds on its own went through the rules, once per check unless *)
(* submissions overlap.  All of it follows from LedgerInv, which fixes the *)
(* ledger by status and amount, from StepOf, which lists what a step does  *)
(* to a status, and from one small invariant about the requests under way  *)
(* for each.                                                               *)
(***************************************************************************)
EXTENDS MCCheckDeposit, HistoryProofs, FiniteSetTheorems

(* Nothing changes for the transfers other than d.                         *)
Elsewhere(d) ==
  \A e \in Deposits \ {d} : status'[e] = status[e] /\ ledger'[e] = ledger[e]

(* A step changes the status or the ledger of at most one transfer.        *)
LEMMA OneTransfer ==
  ASSUME TypeOK, [Next]_vars
  PROVE  UNCHANGED <<status, ledger>> \/ \E d \in Deposits : Elsewhere(d)
<1>1. ASSUME NEW d \in Deposits,
             Create(d) \/ RefuseForm(d) \/ SubmitStep(d) \/ Abort(d) \/ Settle(d)
      PROVE  Elsewhere(d)
  BY <1>1 DEF Create, RefuseForm, SubmitStep, Abort, Settle, BeginValidation, VendorFails,
       Analyze, AnalyzeConflict, CheckRules, RefuseByRules, MarkCheck, SetContribution,
       AutoPost, AutoPostFails, UncheckedTransition, Transition, PostFunds, Elsewhere,
       TypeOK, store
<1>2. ASSUME NEW o \in Reviews,
             \/ ReadToApprove(o) \/ ReadToReject(o) \/ ReadToOverride(o) \/ ReadToReturn(o)
             \/ ReviewStep(o) \/ ReviewDies(o)
      PROVE  Elsewhere(about[o]) /\ about[o] \in Deposits
  BY <1>2 DEF ReadToApprove, ReadToReject, ReadToOverride, ReadToReturn, ReviewStep,
       CommitApprove, CommitReject, CommitOverride, CommitReturn, Notify, ReviewDies,
       Transition, PostFunds, ReturnFunds, Elsewhere, TypeOK, store
<1>3. CASE UNCHANGED vars \/ Quiet
  BY <1>3 DEF Quiet, vars, store
<1>4. QED
  BY <1>1, <1>2, <1>3 DEF Next

(* An amount is written by the insertion of its row and by an approval.    *)
LEMMA AmountKept ==
  ASSUME TypeOK, RowsAreAccepted, [Next]_vars, NEW d \in Deposits, status[d] \in Funded
  PROVE  amount'[d] = amount[d]
<1>1. status[d] # NoRow /\ status[d] # "analyzing"
  BY DEF Funded, Credited, NoRow
<1>2. ASSUME NEW e \in Deposits,
             Create(e) \/ RefuseForm(e) \/ SubmitStep(e) \/ Abort(e) \/ Settle(e)
      PROVE  amount'[d] = amount[d]
  <2>1. CASE Create(e)
    BY <1>1, <2>1 DEF Create, Goto, RowsAreAccepted, TypeOK
  <2>2. CASE ~Create(e)
    BY <1>2, <2>2 DEF RefuseForm, SubmitStep, Abort, Settle, BeginValidation, VendorFails,
         Analyze, AnalyzeConflict, CheckRules, RefuseByRules, MarkCheck, SetContribution,
         AutoPost, AutoPostFails, store, rows
  <2>3. QED
    BY <2>1, <2>2
<1>3. ASSUME NEW o \in Reviews,
             \/ ReadToApprove(o) \/ ReadToReject(o) \/ ReadToOverride(o) \/ ReadToReturn(o)
             \/ ReviewStep(o) \/ ReviewDies(o)
      PROVE  amount'[d] = amount[d]
  <2>1. CASE CommitApprove(o)
    BY <1>1, <2>1 DEF CommitApprove, PostFunds, Holds, StoreVerified, RolledBack, TypeOK
  <2>2. CASE ~CommitApprove(o)
    BY <1>3, <2>2 DEF ReadToApprove, ReadToReject, ReadToOverride, ReadToReturn, ReviewStep,
         CommitReject, CommitOverride, CommitReturn, Notify, ReviewDies, store, rows
  <2>3. QED
    BY <2>1, <2>2
<1>4. CASE UNCHANGED vars \/ Quiet
  BY <1>4 DEF Quiet, vars, store
<1>5. QED
  BY <1>2, <1>3, <1>4 DEF Next

(* The successors of a status.                                             *)
Successors(s) ==
  CASE s = NoRow          -> {NoRow, "requested"}
    [] s = "requested"    -> {"requested", "validating"}
    [] s = "validating"   -> {"validating", "analyzing", "rejected"}
    [] s = "analyzing"    -> {"analyzing", "funds_posted", "rejected"}
    [] s = "funds_posted" -> {"funds_posted", "completed"}
    [] s = "completed"    -> {"completed", "returned"}
    [] OTHER              -> {s}

(* A step takes a status to itself or to one of its successors.            *)
LEMMA StatusMoves ==
  ASSUME NEW d \in Deposits, StepOf(d)
  PROVE  status'[d] \in Successors(status[d])
<1>1. CASE Kept(d) \/ Begun(d)
  BY <1>1 DEF Kept, Begun, Successors, NoRow
<1>2. CASE PlainMove(d) \/ RejectedBy(d)
  BY <1>2 DEF PlainMove, RejectedBy, Moved, Successors, NoRow
<1>3. CASE AutoPosted(d) \/ ApprovedBy(d)
  BY <1>3 DEF AutoPosted, ApprovedBy, Posted, Successors, NoRow
<1>4. QED
  BY <1>1, <1>2, <1>3 DEF StepOf

(* The first entry of a sequence of three.                                 *)
LEMMA FirstOfThree ==
  ASSUME NEW x, NEW y, NEW z
  PROVE  SubSeq(<<x, y, z>>, 1, 1) = <<x>>
<1> DEFINE S == {x, y, z}
           s == SubSeq(<<x, y, z>>, 1, 1)
<1>1. \A i \in 1 .. 1 : <<x, y, z>>[i] \in S /\ <<x, y, z>>[i] = x
  OBVIOUS
<1>2. s \in Seq(S) /\ Len(s) = 1 /\ s[1] = x
  BY <1>1, SubSeqProperties
<1>3. <<x>> \in Seq(S) /\ Len(<<x>>) = 1 /\ <<x>>[1] = x
  OBVIOUS
<1> HIDE DEF s
<1>4. \A i \in 1 .. 1 : s[i] = <<x>>[i]
  BY <1>2, <1>3
<1>5. s = <<x>>
  BY <1>2, <1>3, <1>4, SeqEqual
<1>6. QED
  BY <1>5 DEF s

(* No step rewrites or drops a ledger entry.                               *)
LEMMA LedgerOnlyGrows ==
  ASSUME LedgerInv, LedgerMatchesStatus', NEW d \in Deposits,
         status'[d] \in Successors(status[d]),
         status[d] \in Funded => amount'[d] = amount[d]
  PROVE  ledger[d] = SubSeq(ledger'[d], 1, Len(ledger[d]))
<1> DEFINE credit == Entry("DEPOSIT", amount[d])
<1>1. /\ ledger[d] = Books(d)
      /\ ledger'[d] = Books(d)'
      /\ status[d] \in Statuses \cup {NoRow}
      /\ ledger[d] \in Seq(Entries)
  BY DEF LedgerInv, LedgerMatchesStatus, TypeOK
<1>2. CASE status[d] \notin Funded
  <2>1. ledger[d] = << >>
    BY <1>1, <1>2 DEF Books, Funded
  <2>2. SubSeq(ledger'[d], 1, 0) = << >>
    BY SubSeqEmpty
  <2>3. QED
    BY <2>1, <2>2
<1>3. CASE ledger'[d] = ledger[d]
  BY <1>1, <1>3, SubSeqFull
<1>4. CASE status[d] = "completed" /\ status'[d] = "returned"
  <2>1. /\ ledger[d] = <<credit>>
        /\ ledger'[d] = <<credit, Entry("REVERSAL", amount[d]), Entry("RETURN_FEE", ReturnFee)>>
    BY <1>1, <1>4 DEF Books, Credited, Funded, Entry
  <2>2. Len(ledger[d]) = 1
    BY <2>1
  <2>3. QED
    BY <2>1, <2>2, FirstOfThree
<1>5. CASE status[d] \in Funded /\ ~(status[d] = "completed" /\ status'[d] = "returned")
  <2>1. /\ amount'[d] = amount[d]
        /\ (status[d] \in Credited /\ status'[d] \in Credited) \/ status'[d] = status[d]
    BY <1>5 DEF Successors, Funded, Credited, NoRow
  <2>2. ledger'[d] = ledger[d]
    BY <1>1, <2>1 DEF Books, Entry, Credited
  <2>3. QED
    BY <1>3, <2>2
<1>6. QED
  BY <1>2, <1>4, <1>5

(* Terminal states are final; what was credited keeps its amount, and the  *)
(* ledger is only ever appended to, whatever requests race or fail.        *)
THEOREM NothingGoesBack == Spec => NoGoingBack
<1> DEFINE Forward ==
      \A d \in Deposits :
        /\ status[d] # NoRow /\ IsTerminal(status[d]) => status'[d] = status[d]
        /\ status[d] \in Funded => amount'[d] = amount[d] /\ status'[d] \in Funded
        /\ ledger[d] = SubSeq(ledger'[d], 1, Len(ledger[d]))
<1>1. LedgerInv /\ LedgerInv' /\ Unflagged /\ [Next]_vars => [Forward]_vars
  <2> SUFFICES ASSUME LedgerInv, LedgerInv', Unflagged, [Next]_vars, NEW d \in Deposits
               PROVE  /\ status[d] # NoRow /\ IsTerminal(status[d]) => status'[d] = status[d]
                      /\ status[d] \in Funded => amount'[d] = amount[d] /\ status'[d] \in Funded
                      /\ ledger[d] = SubSeq(ledger'[d], 1, Len(ledger[d]))
    OBVIOUS
  <2>1. status'[d] \in Successors(status[d])
    BY StepMoves, StatusMoves
  <2>2. status[d] \in Statuses \cup {NoRow} /\ TypeOK /\ RowsAreAccepted
    BY DEF LedgerInv, TypeOK
  <2>3. status[d] # NoRow /\ IsTerminal(status[d]) => status'[d] = status[d]
    <3>1. status[d] \in Statuses /\ IsTerminal(status[d]) => status[d] \in {"rejected", "returned"}
      BY DEF IsTerminal, Allowed, Statuses
    <3>2. QED
      BY <2>1, <2>2, <3>1 DEF Successors, NoRow
  <2>4. status[d] \in Funded => amount'[d] = amount[d]
    BY <2>2, AmountKept
  <2>5. status[d] \in Funded => status'[d] \in Funded
    BY <2>1 DEF Successors, Funded, Credited, NoRow
  <2>6. LedgerMatchesStatus'
    BY DEF LedgerInv
  <2>7. ledger[d] = SubSeq(ledger'[d], 1, Len(ledger[d]))
    BY <2>1, <2>4, <2>6, LedgerOnlyGrows
  <2>8. QED
    BY <2>3, <2>4, <2>5, <2>7
<1>2. QED
  BY <1>1, HistoryInvariant, PTL DEF Spec, NoGoingBack

(* The books of a transfer as the investor sees them.                      *)
Shown(l) == [i \in 1 .. Len(l) |-> Signed(l[i])]

(* A credit is shown as its amount.                                        *)
LEMMA ShownCredit ==
  ASSUME NEW a \in Nat
  PROVE  Shown(<<Entry("DEPOSIT", a)>>) = <<a>>
<1>1. /\ <<Entry("DEPOSIT", a)>> = <<[sub |-> "DEPOSIT", amount |-> a]>>
      /\ Len(<<Entry("DEPOSIT", a)>>) = 1
  BY DEF Entry
<1>2. Signed([sub |-> "DEPOSIT", amount |-> a]) = a
  BY DEF Signed
<1>3. /\ Shown(<<Entry("DEPOSIT", a)>>) \in Seq(Nat)
      /\ Len(Shown(<<Entry("DEPOSIT", a)>>)) = 1
      /\ Shown(<<Entry("DEPOSIT", a)>>)[1] = a
  BY <1>1, <1>2 DEF Shown
<1>4. <<a>> \in Seq(Nat) /\ Len(<<a>>) = 1 /\ <<a>>[1] = a
  OBVIOUS
<1>5. \A i \in 1 .. 1 : Shown(<<Entry("DEPOSIT", a)>>)[i] = <<a>>[i]
  BY <1>3, <1>4
<1>6. QED
  BY <1>3, <1>4, <1>5, SeqEqual

(* A return is shown as the credit taken back, and the fee.                *)
LEMMA ShownReturn ==
  ASSUME NEW a \in Nat
  PROVE  Shown(<<Entry("DEPOSIT", a), Entry("REVERSAL", a), Entry("RETURN_FEE", ReturnFee)>>)
           = <<a, -a, -ReturnFee>>
<1> DEFINE l == <<Entry("DEPOSIT", a), Entry("REVERSAL", a), Entry("RETURN_FEE", ReturnFee)>>
           t == <<a, -a, -ReturnFee>>
<1>0. ReturnFee \in Int
  BY StoreAssumption
<1>1. /\ Len(l) = 3
      /\ l[1] = Entry("DEPOSIT", a)
      /\ l[2] = Entry("REVERSAL", a)
      /\ l[3] = Entry("RETURN_FEE", ReturnFee)
  OBVIOUS
<1>2. /\ Signed(Entry("DEPOSIT", a)) = a
      /\ Signed(Entry("REVERSAL", a)) = -a
      /\ Signed(Entry("RETURN_FEE", ReturnFee)) = -ReturnFee
  BY DEF Signed, Entry
<1> HIDE DEF l
<1>3. /\ Shown(l) = [i \in 1 .. 3 |-> Signed(l[i])]
      /\ Shown(l)[1] = a /\ Shown(l)[2] = -a /\ Shown(l)[3] = -ReturnFee
  BY <1>1, <1>2 DEF Shown
<1>4. /\ Shown(l) \in Seq(Int) /\ Len(Shown(l)) = 3
  <2>1. \A i \in 1 .. 3 : Signed(l[i]) \in Int
    BY <1>0, <1>1, <1>2
  <2>2. QED
    BY <1>3, <2>1
<1>5. t \in Seq(Int) /\ Len(t) = 3 /\ t[1] = a /\ t[2] = -a /\ t[3] = -ReturnFee
  BY <1>0
<1> HIDE DEF t
<1>6. \A i \in 1 .. 3 : Shown(l)[i] = t[i]
  BY <1>3, <1>5
<1>7. Shown(l) = t
  BY <1>4, <1>5, <1>6, SeqEqual
<1>8. QED
  BY <1>7 DEF l, t

(* What the refinement mapping shows of one transfer, by its status.       *)
LEMMA Mapped ==
  ASSUME LedgerInv, NEW d \in Deposits
  PROVE  /\ stageBar[d] = StageOf(status[d])
         /\ booksBar[d] = Shown(ledger[d])
         /\ status[d] \in Credited => booksBar[d] = <<amount[d]>>
         /\ status[d] = "returned" => booksBar[d] = <<amount[d], -amount[d], -ReturnFee>>
         /\ status[d] \in Funded => amount[d] \in 1 .. Limit
<1>1. /\ stageBar[d] = StageOf(status[d])
      /\ booksBar[d] = Shown(ledger[d])
  BY DEF stageBar, booksBar, Shown
<1>2. ledger[d] = Books(d) /\ amount[d] \in Nat
  BY DEF LedgerInv, LedgerMatchesStatus, TypeOK
<1>3. status[d] \in Credited => booksBar[d] = <<amount[d]>>
  BY <1>1, <1>2, ShownCredit DEF Books
<1>4. status[d] = "returned" => booksBar[d] = <<amount[d], -amount[d], -ReturnFee>>
  BY <1>1, <1>2, ShownReturn DEF Books, Credited
<1>5. status[d] \in Funded => amount[d] \in 1 .. Limit
  BY DEF LedgerInv, RowsAreAccepted, Funded, Credited, NoRow
<1>6. QED
  BY <1>1, <1>3, <1>4, <1>5

(* One step of CheckDeposit is one of the promise, or changes nothing the  *)
(* promise speaks of.                                                      *)
LEMMA StepKeepsPromise ==
  ASSUME LedgerInv, LedgerInv', [Next]_vars,
         \A d \in Deposits : status'[d] \in Successors(status[d])
  PROVE  [Promise!Next]_(Promise!vars)
<1>1. CASE UNCHANGED <<status, ledger>>
  BY <1>1 DEF Promise!vars, stageBar, booksBar
<1>2. ASSUME NEW d \in Deposits, Elsewhere(d)
      PROVE  [Promise!Next]_(Promise!vars)
  <2>1. /\ stageBar' = [stageBar EXCEPT ![d] = StageOf(status'[d])]
        /\ booksBar' = [booksBar EXCEPT ![d] = Shown(ledger'[d])]
        /\ stageBar[d] = StageOf(status[d])
    BY <1>2 DEF Elsewhere, stageBar, booksBar, Shown
  <2>2. /\ status[d] \in Funded => amount'[d] = amount[d]
        /\ status[d] \in Statuses \cup {NoRow}
        /\ status'[d] \in Successors(status[d])
        /\ ledger[d] = Books(d) /\ ledger'[d] = Books(d)'
    BY AmountKept DEF LedgerInv, TypeOK, LedgerMatchesStatus
  <2>3. CASE StageOf(status'[d]) = StageOf(status[d]) /\ ledger'[d] = ledger[d]
    <3>1. stageBar = [stageBar EXCEPT ![d] = StageOf(status[d])]
      BY DEF stageBar
    <3>2. booksBar = [booksBar EXCEPT ![d] = Shown(ledger[d])]
      BY DEF booksBar, Shown
    <3>3. QED
      BY <2>1, <2>3, <3>1, <3>2 DEF Promise!vars
  <2>4. CASE status'[d] = status[d]
    <3>1. ledger'[d] = ledger[d]
      BY <2>2, <2>4 DEF Books, Funded, Credited, Entry
    <3>2. QED
      BY <2>3, <2>4, <3>1
  <2>5. CASE status'[d] \in {"requested", "validating", "analyzing", "rejected"}
             /\ status'[d] # status[d]
    <3>1. /\ status[d] \in {NoRow, "requested", "validating", "analyzing"}
          /\ status[d] = NoRow => status'[d] = "requested"
      BY <2>2, <2>5 DEF Successors, NoRow, Statuses
    <3>2. ledger'[d] = ledger[d]
      BY <2>2, <2>5, <3>1 DEF Books, Credited, NoRow
    <3>3. booksBar' = booksBar
      BY <2>1, <3>2 DEF booksBar, Shown
    <3>4. CASE status[d] = NoRow
      <4>1. Promise!Receive(d)
        BY <2>1, <3>1, <3>3, <3>4 DEF Promise!Receive, Promise!Step, StageOf, NoRow
      <4>2. QED
        BY <4>1 DEF Promise!Next
    <3>5. CASE status'[d] = "rejected"
      <4>1. Promise!Decline(d)
        BY <2>1, <3>1, <3>3, <3>5 DEF Promise!Decline, Promise!Step, StageOf, NoRow, Successors
      <4>2. QED
        BY <4>1 DEF Promise!Next
    <3>6. CASE status[d] # NoRow /\ status'[d] # "rejected"
      BY <2>3, <2>5, <3>1, <3>2, <3>6 DEF StageOf, NoRow
    <3>7. QED
      BY <3>4, <3>5, <3>6
  <2>6. CASE status[d] = "analyzing" /\ status'[d] = "funds_posted"
    <3>1. /\ ledger'[d] = <<Entry("DEPOSIT", amount'[d])>>
          /\ amount'[d] \in 1 .. Limit
      BY <2>2, <2>6 DEF Books, Credited, LedgerInv, RowsAreAccepted, NoRow, Entry
    <3>2. Shown(ledger'[d]) = <<amount'[d]>>
      BY <3>1, ShownCredit
    <3>3. Promise!Credit(d)
      BY <2>1, <2>6, <3>1, <3>2 DEF Promise!Credit, Promise!Step, StageOf, NoRow
    <3>4. QED
      BY <3>3 DEF Promise!Next
  <2>7. CASE status[d] = "funds_posted" /\ status'[d] = "completed"
    <3>1. ledger'[d] = ledger[d]
      BY <2>2, <2>7 DEF Books, Funded, Credited, Entry
    <3>2. booksBar' = booksBar
      BY <2>1, <3>1 DEF booksBar, Shown
    <3>3. Promise!Clear(d)
      BY <2>1, <2>7, <3>2 DEF Promise!Clear, Promise!Step, StageOf, NoRow
    <3>4. QED
      BY <3>3 DEF Promise!Next
  <2>8. CASE status[d] = "completed" /\ status'[d] = "returned"
    <3>1. amount'[d] = amount[d] /\ amount[d] \in Nat
      BY <2>2, <2>8 DEF Funded, Credited, LedgerInv, TypeOK
    <3>2. booksBar[d] = <<amount[d]>>
      BY <2>8, Mapped DEF Credited
    <3>3. Shown(ledger'[d]) = <<amount[d], -amount[d], -ReturnFee>>
      BY <2>2, <2>8, <3>1, ShownReturn DEF Books, Credited, Entry
    <3>4. booksBar[d][1] = amount[d]
      BY <3>2
    <3>5. booksBar' = [booksBar EXCEPT ![d] = <<@[1], -@[1], -ReturnFee>>]
      BY <2>1, <3>3, <3>4
    <3>6. Promise!Bounce(d)
      BY <2>1, <2>8, <3>5 DEF Promise!Bounce, Promise!Step, StageOf, NoRow
    <3>7. QED
      BY <3>6 DEF Promise!Next
  <2>9. QED
    BY <2>2, <2>4, <2>5, <2>6, <2>7, <2>8 DEF Successors, Statuses, NoRow
<1>3. QED
  BY <1>1, <1>2, OneTransfer DEF LedgerInv

(* Through every race, fault and crash a deposit is declined, or credited  *)
(* once within the limit, and a return undoes exactly that.                *)
THEOREM PromiseKept == Spec => KeepsPromise
<1>1. Init => Promise!Init
  <2> SUFFICES ASSUME Init PROVE Promise!Init
    OBVIOUS
  <2>1. Shown(<< >>) = << >>
    BY DEF Shown
  <2>2. booksBar = [d \in Deposits |-> Shown(<< >>)]
    BY DEF Init, booksBar, Shown
  <2>3. stageBar = [d \in Deposits |-> "none"]
    BY DEF Init, stageBar, StageOf, NoRow
  <2>4. QED
    BY <2>1, <2>2, <2>3 DEF Promise!Init
<1>2. LedgerInv /\ LedgerInv' /\ Unflagged /\ [Next]_vars => [Promise!Next]_(Promise!vars)
  BY StepMoves, StatusMoves, StepKeepsPromise
<1>3. QED
  BY <1>1, <1>2, HistoryInvariant, PTL DEF Spec, KeepsPromise, Promise!Spec

(* Every status of a step follows the one before it.                       *)
Onwards == \A d \in Deposits : status'[d] \in Successors(status[d])

(* All statuses move on, or stay.                                          *)
LEMMA AllOnwards ==
  ASSUME LedgerInv, Unflagged, [Next]_vars
  PROVE  Onwards
BY StepMoves, StatusMoves DEF Onwards

(* Funded transfers stay funded; rejected and returned ones stay so.       *)
LEMMA StaysPut ==
  ASSUME Onwards, NEW d \in Deposits
  PROVE  /\ status[d] \in Funded => status'[d] \in Funded
         /\ status[d] = "rejected" => status'[d] = "rejected"
         /\ status[d] = "returned" => status'[d] = "returned"
BY DEF Onwards, Successors, Funded, Credited, NoRow

(* An answer is given by the step that makes it true.                      *)
LEMMA AnswersKept ==
  ASSUME TypeOK, Onwards, AnswerIsTrue, [Next]_vars
  PROVE  AnswerIsTrue'
<1>0. answer \in [Deposits -> Answers] /\ status \in [Deposits -> Statuses \cup {NoRow}]
  BY DEF TypeOK
<1>1. CASE UNCHANGED answer
  BY <1>1, StaysPut DEF AnswerIsTrue
<1>2. ASSUME NEW d \in Deposits,
             Create(d) \/ RefuseForm(d) \/ SubmitStep(d) \/ Abort(d) \/ Settle(d)
      PROVE  AnswerIsTrue'
  <2>1. \A e \in Deposits \ {d} : answer'[e] = answer[e]
    BY <1>0, <1>2 DEF Create, RefuseForm, SubmitStep, Abort, Settle, BeginValidation,
         VendorFails, Analyze, AnalyzeConflict, CheckRules, RefuseByRules, MarkCheck,
         SetContribution, AutoPost, AutoPostFails, Goto, Finish, submitVars
  <2>2. answer'[d] \in {answer[d], "refused", "error", "in_review"} \/ VendorFails(d)
          \/ RefuseByRules(d) \/ AutoPost(d)
    BY <1>0, <1>2 DEF Create, RefuseForm, SubmitStep, Abort, Settle, BeginValidation,
         Analyze, AnalyzeConflict, CheckRules, MarkCheck,
         SetContribution, AutoPostFails, Goto, Finish, submitVars
  <2>3. CASE VendorFails(d) \/ RefuseByRules(d)
    <3>1. answer'[d] \in {"rejected", "error"}
      BY <1>0, <2>3 DEF VendorFails, RefuseByRules, Finish
    <3>2. answer'[d] = "rejected" /\ "commit" \notin Faults => status'[d] = "rejected"
      BY <1>0, <2>3 DEF VendorFails, RefuseByRules, Finish, UncheckedTransition, Transition
    <3>3. QED
      BY <2>1, <3>1, <3>2, StaysPut DEF AnswerIsTrue
  <2>4. CASE AutoPost(d)
    <3>1. status'[d] \in Funded /\ answer'[d] \in {"posted", "error"}
      BY <1>0, <2>4 DEF AutoPost, PostFunds, Finish, Funded, Credited
    <3>2. QED
      BY <2>1, <3>1, StaysPut DEF AnswerIsTrue
  <2>5. CASE answer'[d] \in {answer[d], "refused", "error", "in_review"}
    BY <2>1, <2>5, StaysPut DEF AnswerIsTrue
  <2>6. QED
    BY <2>2, <2>3, <2>4, <2>5
<1>3. ASSUME NEW o \in Reviews,
             \/ ReadToApprove(o) \/ ReadToReject(o) \/ ReadToOverride(o) \/ ReadToReturn(o)
             \/ ReviewStep(o) \/ ReviewDies(o)
      PROVE  UNCHANGED answer
  BY <1>3 DEF ReadToApprove, ReadToReject, ReadToOverride, ReadToReturn, ReviewStep,
       CommitApprove, CommitReject, CommitOverride, CommitReturn, Notify, ReviewDies,
       submitVars
<1>4. CASE UNCHANGED vars \/ Quiet
  BY <1>1, <1>4 DEF Quiet, vars, submitVars
<1>5. QED
  BY <1>1, <1>2, <1>3, <1>4 DEF Next

(* A "funds_posted" told to an investor is undone by a return at most, and *)
(* a rejection told stands unless a commit was lost (Submit).              *)
THEOREM AnswersTrue == Spec => []AnswerIsTrue
<1>1. Init => AnswerIsTrue
  BY DEF Init, AnswerIsTrue
<1>2. LedgerInv /\ Unflagged /\ AnswerIsTrue /\ [Next]_vars => AnswerIsTrue'
  BY AllOnwards, AnswersKept DEF LedgerInv
<1>3. QED
  BY <1>1, <1>2, HistoryInvariant, PTL DEF Spec

(* Request o tells its investor of a decision, or has done so.             *)
Telling(o, says) == rpc[o] = says \/ \E n \in notices : n.by = o /\ n.says = says

Outcome(says) == IF says = "approved" THEN Funded ELSE {says}

NoticesOfTheirRequests ==
  \A n \in notices : about[n.by] = n.on /\ rpc[n.by] = "done"

ToldIsSo ==
  \A o \in Reviews : \A w \in Decisions : Telling(o, w) => status[about[o]] \in Outcome(w)

ToldByOne ==
  \A o, p \in Reviews : \A w \in Decisions :
    Telling(o, w) /\ Telling(p, w) /\ about[o] = about[p] => o = p

NoticeInv == NoticesOfTheirRequests /\ ToldIsSo /\ ToldByOne

(* An outcome, once it is so, stays so.                                    *)
LEMMA OutcomeStays ==
  ASSUME Onwards, NEW d \in Deposits, NEW w \in Decisions, status[d] \in Outcome(w)
  PROVE  status'[d] \in Outcome(w)
BY StaysPut DEF Outcome, Decisions

(* A step after which nobody tells more than before.                       *)
LEMMA TellsNoMore ==
  ASSUME TypeOK, Onwards, ToldIsSo, ToldByOne, UNCHANGED about,
         \A o \in Reviews : \A w \in Decisions : Telling(o, w)' => Telling(o, w)
  PROVE  ToldIsSo' /\ ToldByOne'
<1>1. \A o \in Reviews : about[o] \in Deposits
  BY DEF TypeOK
<1>2. ToldIsSo'
  BY <1>1, OutcomeStays DEF ToldIsSo, Outcome
<1>3. ToldByOne'
  BY DEF ToldByOne
<1>4. QED
  BY <1>2, <1>3

(* A decision that commits is the first of its kind about its transfer.    *)
LEMMA TellsFirst ==
  ASSUME TypeOK, Onwards, ToldIsSo, ToldByOne, NEW o \in Reviews, NEW v \in Decisions,
         UNCHANGED <<about, notices>>, rpc' = [rpc EXCEPT ![o] = v],
         status[about[o]] \notin Outcome(v), status'[about[o]] \in Outcome(v)
  PROVE  ToldIsSo' /\ ToldByOne'
<1>0. \A p \in Reviews : about[p] \in Deposits
  BY DEF TypeOK
<1>1. \A p \in Reviews : \A w \in Decisions :
        Telling(p, w)' => Telling(p, w) \/ (p = o /\ w = v)
  BY DEF Telling, TypeOK
<1>2. \A p \in Reviews : about[p] = about[o] => ~Telling(p, v)
  BY DEF ToldIsSo
<1>3. ToldIsSo'
  <2> SUFFICES ASSUME NEW p \in Reviews, NEW w \in Decisions, Telling(p, w)'
               PROVE  status'[about[p]] \in Outcome(w)
    BY DEF ToldIsSo, Outcome
  <2>1. CASE Telling(p, w)
    BY <1>0, <2>1, OutcomeStays DEF ToldIsSo
  <2>2. CASE p = o /\ w = v
    BY <2>2
  <2>3. QED
    BY <1>1, <2>1, <2>2
<1>4. ToldByOne'
  BY <1>1, <1>2 DEF ToldByOne
<1>5. QED
  BY <1>3, <1>4

(* Each step of an operator request keeps NoticeInv.                       *)
LEMMA ReviewKeepsNotices ==
  ASSUME TypeOK, Onwards, NoticeInv, NEW o \in Reviews,
         \/ ReadToApprove(o) \/ ReadToReject(o) \/ ReadToOverride(o) \/ ReadToReturn(o)
         \/ ReviewStep(o) \/ ReviewDies(o)
  PROVE  NoticeInv'
<1>0. /\ rpc \in [Reviews -> ReviewSteps]
      /\ about[o] \in Deposits
      /\ notices \subseteq [by : Reviews, on : Deposits, says : Decisions]
      /\ UNCHANGED about
      /\ rpc[o] # "done"
  BY DEF TypeOK, ReadToApprove, ReadToReject, ReadToOverride, ReadToReturn, ReviewStep,
         CommitApprove, CommitReject, CommitOverride, CommitReturn, Notify, ReviewDies,
         Review, Decisions
<1>1. PICK s \in ReviewSteps : rpc' = [rpc EXCEPT ![o] = s]
  <2>1. \A w \in Decisions : Tell(w) \in ReviewSteps
    BY DEF Tell, ReviewSteps
  <2>2. QED
    BY <2>1 DEF ReadToApprove, ReadToReject, ReadToOverride, ReadToReturn, ReviewStep,
         CommitApprove, CommitReject, CommitOverride, CommitReturn, Notify, ReviewDies,
         Review, ReviewSteps, Decisions
<1>2. CASE UNCHANGED notices /\ s \notin Decisions
  <2>1. \A p \in Reviews : \A w \in Decisions : Telling(p, w)' => Telling(p, w)
    BY <1>0, <1>1, <1>2 DEF Telling
  <2>2. NoticesOfTheirRequests'
    BY <1>0, <1>1, <1>2 DEF NoticeInv, NoticesOfTheirRequests
  <2>3. QED
    BY <1>0, <2>1, <2>2, TellsNoMore DEF NoticeInv
<1>3. CASE UNCHANGED notices /\ s \in Decisions
  <2>1. \/ /\ CommitApprove(o) /\ s = "approved"
           /\ status[about[o]] = "analyzing" /\ status'[about[o]] = "funds_posted"
        \/ /\ CommitReject(o) /\ s = "rejected"
           /\ status[about[o]] = "analyzing" /\ status'[about[o]] = "rejected"
        \/ /\ CommitReturn(o) /\ s = "returned"
           /\ status[about[o]] = "completed" /\ status'[about[o]] = "returned"
    <3>1. rpc'[o] = s /\ s \in {"approved", "rejected", "returned"}
      BY <1>0, <1>1, <1>3 DEF Decisions
    <3>2. status \in [Deposits -> Statuses \cup {NoRow}]
      BY DEF TypeOK
    <3>3. ~(\/ ReadToApprove(o) \/ ReadToReject(o) \/ ReadToOverride(o) \/ ReadToReturn(o)
            \/ CommitOverride(o) \/ Notify(o) \/ ReviewDies(o))
      BY <1>0, <3>1 DEF ReadToApprove, ReadToReject, ReadToOverride, ReadToReturn,
           CommitOverride, Notify, ReviewDies, Review
    <3>4. CASE CommitApprove(o)
      BY <1>0, <3>1, <3>2, <3>4 DEF CommitApprove, Review, Tell, PostFunds, Holds
    <3>5. CASE CommitReject(o)
      BY <1>0, <3>1, <3>2, <3>5 DEF CommitReject, Review, Tell, Transition, Holds
    <3>6. CASE CommitReturn(o)
      BY <1>0, <3>1, <3>2, <3>6 DEF CommitReturn, Review, Tell, ReturnFunds, Transition, Holds
    <3>7. QED
      BY <3>3, <3>4, <3>5, <3>6 DEF ReviewStep
  <2>2. status[about[o]] \notin Outcome(s) /\ status'[about[o]] \in Outcome(s)
    BY <2>1 DEF Outcome, Funded, Credited
  <2>3. ToldIsSo' /\ ToldByOne'
    BY <1>0, <1>1, <1>3, <2>2, TellsFirst DEF NoticeInv
  <2>4. NoticesOfTheirRequests'
    BY <1>0, <1>1, <1>3 DEF NoticeInv, NoticesOfTheirRequests
  <2>5. QED
    BY <2>3, <2>4 DEF NoticeInv
<1>4. CASE Notify(o) /\ ~UNCHANGED notices
  <2>1. /\ notices' = notices \cup {[by |-> o, on |-> about[o], says |-> rpc[o]]}
        /\ rpc'[o] = "done" /\ \A p \in Reviews \ {o} : rpc'[p] = rpc[p]
    BY <1>0, <1>4 DEF Notify
  <2>2. \A p \in Reviews : \A w \in Decisions : Telling(p, w)' => Telling(p, w)
    BY <1>0, <2>1 DEF Telling, Decisions
  <2>3. NoticesOfTheirRequests'
    BY <1>0, <2>1 DEF NoticeInv, NoticesOfTheirRequests
  <2>4. QED
    BY <1>0, <2>2, <2>3, TellsNoMore DEF NoticeInv
<1>5. UNCHANGED notices \/ Notify(o)
  BY DEF ReadToApprove, ReadToReject, ReadToOverride, ReadToReturn, ReviewStep,
         CommitApprove, CommitReject, CommitOverride, CommitReturn, ReviewDies, Review
<1>6. QED
  BY <1>2, <1>3, <1>4, <1>5

(* What a notice says has happened and is not taken back, and nobody is    *)
(* told the same thing twice, however requests overlap.                    *)
THEOREM NoticesTrue == Spec => []NoticesAreTrue
<1>1. Init => NoticeInv
  <2> SUFFICES ASSUME Init PROVE NoticeInv
    OBVIOUS
  <2>1. notices = {} /\ \A o \in Reviews : rpc[o] = "idle"
    BY DEF Init
  <2>2. \A o \in Reviews : \A w \in Decisions : ~Telling(o, w)
    BY <2>1 DEF Telling, Decisions
  <2>3. QED
    BY <2>1, <2>2 DEF NoticeInv, NoticesOfTheirRequests, ToldIsSo, ToldByOne
<1>2. LedgerInv /\ Unflagged /\ NoticeInv /\ [Next]_vars => NoticeInv'
  <2> SUFFICES ASSUME LedgerInv, Unflagged, NoticeInv, [Next]_vars PROVE NoticeInv'
    OBVIOUS
  <2>1. TypeOK /\ Onwards
    BY AllOnwards DEF LedgerInv
  <2>2. CASE UNCHANGED <<about, rpc, notices>>
    <3>1. \A o \in Reviews : \A w \in Decisions : Telling(o, w)' => Telling(o, w)
      BY <2>2 DEF Telling
    <3>2. NoticesOfTheirRequests'
      BY <2>2 DEF NoticeInv, NoticesOfTheirRequests
    <3>3. QED
      BY <2>1, <2>2, <3>1, <3>2, TellsNoMore DEF NoticeInv
  <2>3. ASSUME NEW d \in Deposits,
               Create(d) \/ RefuseForm(d) \/ SubmitStep(d) \/ Abort(d) \/ Settle(d)
        PROVE  UNCHANGED <<about, rpc, notices>>
    BY <2>3 DEF Create, RefuseForm, SubmitStep, Abort, Settle, BeginValidation,
         VendorFails, Analyze, AnalyzeConflict, CheckRules, RefuseByRules, MarkCheck,
         SetContribution, AutoPost, AutoPostFails, reviewVars
  <2>4. CASE UNCHANGED vars \/ Quiet
    BY <2>2, <2>4 DEF Quiet, vars, reviewVars
  <2>5. QED
    BY <2>1, <2>2, <2>3, <2>4, ReviewKeepsNotices DEF Next
<1>3. TypeOK /\ NoticeInv => NoticesAreTrue
  <2> SUFFICES ASSUME TypeOK, NoticeInv, NEW n \in notices
               PROVE  /\ status[n.on] \in Outcome(n.says)
                      /\ \A m \in notices : m.on = n.on /\ m.says = n.says => m = n
    BY DEF NoticesAreTrue, Outcome, TypeOK
  <2>1. \A m \in notices :
          /\ m.by \in Reviews /\ m.says \in Decisions /\ Telling(m.by, m.says)
          /\ about[m.by] = m.on
          /\ m = [by |-> m.by, on |-> m.on, says |-> m.says]
    BY DEF TypeOK, Telling, NoticeInv, NoticesOfTheirRequests
  <2>2. status[n.on] \in Outcome(n.says)
    BY <2>1 DEF NoticeInv, ToldIsSo
  <2>3. ASSUME NEW m \in notices, m.on = n.on, m.says = n.says PROVE m = n
    <3>1. m.by = n.by
      BY <2>1, <2>3 DEF NoticeInv, ToldByOne
    <3>2. QED
      BY <2>1, <2>3, <3>1
  <2>4. QED
    BY <2>2, <2>3
<1>4. QED
  BY <1>1, <1>2, <1>3, HistoryInvariant, PTL DEF Spec, LedgerInv

(* What a submission has behind it at each of its later steps.             *)
Vetted(d) ==
  /\ pc[d] \in {"mark", "contribution", "post"} =>
       Violations(form[d].account, form[d].amount, FALSE) = {}
  /\ pc[d] \in {"contribution", "post"} /\ "redis" \notin Faults => form[d].amount \in marked

VetInv == (\A d \in Deposits : Vetted(d)) /\ AutoFundedIsVetted

(* Whatever the duplicate rule answered, the others were satisfied.        *)
LEMMA PassingRules ==
  ASSUME NEW acct, NEW a, NEW duplicate, RulesPass(acct, a, duplicate)
  PROVE  Violations(acct, a, FALSE) = {}
BY DEF RulesPass, Violations

(* Forms do not change, and a mark stays (its expiry is not modelled).     *)
LEMMA FormKept ==
  ASSUME [Next]_vars
  PROVE  form' = form /\ marked \subseteq marked'
BY DEF Next, Create, RefuseForm, SubmitStep, Abort, Settle, BeginValidation,
     VendorFails, Analyze, AnalyzeConflict, CheckRules, RefuseByRules, MarkCheck,
     SetContribution, AutoPost, AutoPostFails, SetMark, Goto, Finish, submitVars, ReadToApprove,
     ReadToReject, ReadToOverride, ReadToReturn, ReviewStep, CommitApprove, CommitReject,
     CommitOverride, CommitReturn, Notify, ReviewDies, Quiet, vars

(* The steps of a submission, one after the other.                         *)
LEMMA VettedKept ==
  ASSUME TypeOK, NEW d \in Deposits, Vetted(d), [Next]_vars
  PROVE  /\ Vetted(d)'
         /\ form' = form /\ marked \subseteq marked'
<1>0. pc \in [Deposits -> SubmitSteps] /\ about \in [Reviews -> Deposits]
  BY DEF TypeOK
<1>1. form' = form /\ marked \subseteq marked'
  BY FormKept
<1>2. CASE pc'[d] \in {pc[d], "idle", "begin", "vendor", "rules", "refuse", "done"}
  BY <1>1, <1>2 DEF Vetted
<1>3. CASE CheckRules(d) /\ pc'[d] = "mark"
  <2>1. PICK duplicate \in DuplicateAnswers(d) :
          RulesPass(form[d].account, form[d].amount, duplicate)
    BY <1>0, <1>3 DEF CheckRules, Goto
  <2>2. QED
    BY <1>1, <1>3, <2>1, PassingRules DEF Vetted
<1>4. CASE MarkCheck(d)
  <2>1. /\ pc[d] = "mark" /\ pc'[d] \in {"contribution", "post"}
        /\ "redis" \notin Faults => form[d].amount \in marked'
    BY <1>0, <1>4 DEF MarkCheck, Goto, AfterMark, SetMark
  <2>2. QED
    BY <1>1, <2>1 DEF Vetted
<1>5. CASE SetContribution(d)
  <2>1. pc[d] = "contribution" /\ pc'[d] = "post"
    BY <1>0, <1>5 DEF SetContribution, Goto
  <2>2. QED
    BY <1>1, <2>1 DEF Vetted
<1>6. \/ pc'[d] \in {pc[d], "idle", "begin", "vendor", "rules", "refuse", "done"}
      \/ CheckRules(d) /\ pc'[d] = "mark"
      \/ MarkCheck(d) \/ SetContribution(d)
  <2>1. ASSUME NEW e \in Deposits,
               Create(e) \/ RefuseForm(e) \/ SubmitStep(e) \/ Abort(e) \/ Settle(e),
               e # d
        PROVE  pc'[d] = pc[d]
    BY <1>0, <2>1 DEF Create, RefuseForm, SubmitStep, Abort, Settle, BeginValidation,
         VendorFails, Analyze, AnalyzeConflict, CheckRules, RefuseByRules, MarkCheck,
         SetContribution, AutoPost, AutoPostFails, Goto, Finish, submitVars
  <2>2. ASSUME Create(d) \/ RefuseForm(d) \/ SubmitStep(d) \/ Abort(d) \/ Settle(d)
        PROVE  \/ pc'[d] \in {pc[d], "idle", "begin", "vendor", "rules", "refuse", "done"}
               \/ CheckRules(d) /\ pc'[d] = "mark"
               \/ MarkCheck(d) \/ SetContribution(d)
    BY <1>0, <2>2 DEF Create, RefuseForm, SubmitStep, Abort, Settle, BeginValidation,
         VendorFails, Analyze, AnalyzeConflict, CheckRules, RefuseByRules,
         AutoPost, AutoPostFails, Goto, Finish, submitVars
  <2>3. ASSUME NEW o \in Reviews,
               \/ ReadToApprove(o) \/ ReadToReject(o) \/ ReadToOverride(o) \/ ReadToReturn(o)
               \/ ReviewStep(o) \/ ReviewDies(o)
        PROVE  pc' = pc
    BY <2>3 DEF ReadToApprove, ReadToReject, ReadToOverride, ReadToReturn, ReviewStep,
         CommitApprove, CommitReject, CommitOverride, CommitReturn, Notify, ReviewDies,
         submitVars
  <2>4. CASE UNCHANGED vars \/ Quiet
    BY <2>4 DEF Quiet, vars, submitVars
  <2>5. QED
    BY <2>1, <2>2, <2>3, <2>4 DEF Next
<1>7. QED
  BY <1>1, <1>2, <1>3, <1>4, <1>5, <1>6

(* An unflagged transfer becomes funded by the last step of its submission. *)
LEMMA FundedByPipeline ==
  ASSUME LedgerInv, Unflagged, [Next]_vars, NEW d \in Deposits,
         status[d] \notin Funded, status'[d] \in Funded, flag'[d] = "none"
  PROVE  pc[d] = "post" /\ pc'[d] = "done"
<1>0. TypeOK /\ HeldIsCurrent /\ \A o \in Reviews : about[o] \in Deposits
  BY AboutType DEF LedgerInv
<1>1. status[d] = "analyzing" /\ status'[d] = "funds_posted" /\ flag[d] = "none"
  BY StepMoves, StatusMoves DEF Successors, Funded, Credited, NoRow, StepOf
<1>2. status \in [Deposits -> Statuses \cup {NoRow}] /\ pc \in [Deposits -> SubmitSteps]
  BY <1>0 DEF TypeOK
<1>3. ASSUME NEW e \in Deposits,
             Create(e) \/ RefuseForm(e) \/ SubmitStep(e) \/ Abort(e) \/ Settle(e)
      PROVE  pc[d] = "post" /\ pc'[d] = "done"
  BY <1>1, <1>2, <1>3 DEF Create, RefuseForm, SubmitStep, Abort, Settle, BeginValidation,
       VendorFails, Analyze, AnalyzeConflict, CheckRules, RefuseByRules, MarkCheck,
       SetContribution, AutoPost, AutoPostFails, Finish, UncheckedTransition, Transition,
       PostFunds, store
<1>4. ASSUME NEW o \in Reviews,
             \/ ReadToApprove(o) \/ ReadToReject(o) \/ ReadToOverride(o) \/ ReadToReturn(o)
             \/ ReviewStep(o) \/ ReviewDies(o)
      PROVE  FALSE
  <2>1. CASE CommitApprove(o)
    <3>1. rpc[o] = "approve"
      BY <2>1 DEF CommitApprove, Review
    <3>2. about[o] # d
      BY <1>0, <1>1, <3>1 DEF HeldIsCurrent
    <3>3. QED
      BY <1>1, <1>2, <2>1, <3>2 DEF CommitApprove, PostFunds
  <2>2. CASE ~CommitApprove(o)
    BY <1>1, <1>2, <1>4, <2>2 DEF ReadToApprove, ReadToReject, ReadToOverride, ReadToReturn,
         ReviewStep, CommitReject, CommitOverride, CommitReturn, Notify, ReviewDies,
         Transition, ReturnFunds, store
  <2>3. QED
    BY <2>1, <2>2
<1>5. CASE UNCHANGED vars \/ Quiet
  BY <1>1, <1>5 DEF Quiet, vars, store
<1>6. QED
  BY <1>3, <1>4, <1>5 DEF Next

(* VetInv holds throughout.                                                *)
THEOREM VettedInvariant == Spec => []VetInv
<1>1. Init => VetInv
  BY DEF Init, VetInv, Vetted, AutoFundedIsVetted, AutoFunded, Funded, Credited, NoRow
<1>2. LedgerInv /\ LedgerInv' /\ Unflagged /\ VetInv /\ [Next]_vars => VetInv'
  <2> SUFFICES ASSUME LedgerInv, LedgerInv', Unflagged, VetInv, [Next]_vars,
                      NEW d \in Deposits
               PROVE  /\ Vetted(d)'
                      /\ AutoFunded(d)' =>
                           /\ Violations(form'[d].account, amount'[d], FALSE) = {}
                           /\ "redis" \notin Faults => amount'[d] \in marked'
    BY DEF VetInv, AutoFundedIsVetted, Violations
  <2>1. /\ TypeOK /\ Vetted(d)
        /\ AutoFundedIsVetted /\ RowsAreAccepted
        /\ AmountChangeIsApproved'
    BY DEF LedgerInv, VetInv
  <2>2. Vetted(d)' /\ form' = form /\ marked \subseteq marked'
    BY <2>1, VettedKept
  <2>3. ASSUME AutoFunded(d)', status[d] \in Funded
        PROVE  AutoFunded(d) /\ amount'[d] = amount[d]
    <3>1. flag'[d] = flag[d]
      BY <2>3, StepMoves DEF StepOf, Funded, Credited
    <3>2. QED
      BY <2>1, <2>3, <3>1, AmountKept DEF AutoFunded
  <2>4. ASSUME AutoFunded(d)', status[d] \notin Funded
        PROVE  pc[d] = "post" /\ amount'[d] = form[d].amount
    <3>1. status'[d] \in Funded /\ flag'[d] = "none"
      BY <2>4 DEF AutoFunded
    <3>2. amount'[d] = form'[d].amount
      BY <2>1, <3>1 DEF AmountChangeIsApproved, Funded, Credited, NoRow
    <3>3. QED
      BY <2>2, <2>4, <3>1, <3>2, FundedByPipeline
  <2>5. QED
    BY <2>1, <2>2, <2>3, <2>4 DEF Vetted, AutoFundedIsVetted
<1>3. QED
  BY <1>1, <1>2, HistoryInvariant, PTL DEF Spec

(* What the pipeline funds on its own passed the rules, and its duplicate  *)
(* mark is in place while Redis is reachable (Submit steps 8 to 10).       *)
THEOREM AutoFundedVetted == Spec => []AutoFundedIsVetted
<1>1. VetInv => AutoFundedIsVetted
  BY DEF VetInv
<1>2. QED
  BY <1>1, VettedInvariant, PTL

-------------------------------------------------------------------------------
(* Funding once.  The duplicate rule looks for the mark (EXISTS) and a     *)
(* later step sets it (SETNX): a check is funded twice only by two         *)
(* submissions of it that are both between the two.                        *)
ChecksApart ==
  \A d, e \in Deposits :
    pc[d] = "mark" /\ pc[e] = "mark" /\ form[d].amount = form[e].amount => d = e

Marking(d) == pc[d] \in {"contribution", "post"}

(* Submissions between the look and the mark have found none; those past   *)
(* the mark are the only ones of their check, which is not funded yet.     *)
FundInv ==
  /\ \A d \in Deposits : pc[d] = "mark" => form[d].amount \notin marked
  /\ \A d, e \in Deposits : Marking(d) =>
       /\ AutoFunded(e) => amount[e] # form[d].amount
       /\ Marking(e) /\ e # d => form[e].amount # form[d].amount
  /\ NoDoubleFunding

(* One submission moves on, from one of its last steps to the next.        *)
Advances(d) ==
  \/ /\ pc'[d] \notin {"mark", "contribution", "post"}
     /\ marked' = marked
  \/ /\ pc'[d] = "mark" /\ marked' = marked
     /\ form[d].amount \notin marked
  \/ /\ pc[d] = "mark" /\ Marking(d)'
     /\ marked' \subseteq marked \cup {form[d].amount}
  \/ /\ pc[d] = "contribution" /\ pc'[d] = "post"
     /\ marked' = marked

(* A step moves at most one submission.                                    *)
LEMMA OneAdvances ==
  ASSUME "redis" \notin Faults, TypeOK, [Next]_vars
  PROVE  \/ UNCHANGED <<pc, marked>>
         \/ \E d \in Deposits : /\ \A e \in Deposits \ {d} : pc'[e] = pc[e]
                                /\ Advances(d)
<1>0. pc \in [Deposits -> SubmitSteps]
  BY DEF TypeOK
<1>1. ASSUME NEW d \in Deposits,
             Create(d) \/ RefuseForm(d) \/ SubmitStep(d) \/ Abort(d) \/ Settle(d)
      PROVE  \/ UNCHANGED <<pc, marked>>
             \/ /\ Advances(d)
                /\ \A e \in Deposits \ {d} : pc'[e] = pc[e]
  <2>1. UNCHANGED pc \/ \A e \in Deposits \ {d} : pc'[e] = pc[e]
    BY <1>0, <1>1 DEF Create, RefuseForm, SubmitStep, Abort, Settle, BeginValidation,
         VendorFails, Analyze, AnalyzeConflict, CheckRules, RefuseByRules, MarkCheck,
         SetContribution, AutoPost, AutoPostFails, Goto, Finish, submitVars
  <2>2. CASE CheckRules(d)
    <3>1. CASE pc'[d] = "mark"
      <4>1. PICK duplicate \in DuplicateAnswers(d) :
              RulesPass(form[d].account, form[d].amount, duplicate)
        BY <1>0, <2>2, <3>1 DEF CheckRules, Goto
      <4>2. duplicate = FALSE
        BY <4>1 DEF RulesPass, Violations
      <4>3. form[d].amount \notin marked
        BY <4>1, <4>2 DEF DuplicateAnswers
      <4>4. QED
        BY <2>1, <2>2, <3>1, <4>3 DEF CheckRules, Advances
    <3>2. CASE pc'[d] # "mark"
      BY <1>0, <2>1, <2>2, <3>2 DEF CheckRules, Goto, Advances
    <3>3. QED
      BY <3>1, <3>2
  <2>3. CASE MarkCheck(d)
    BY <1>0, <2>1, <2>3 DEF MarkCheck, SetMark, Goto, AfterMark, Advances, Marking
  <2>4. CASE SetContribution(d)
    BY <1>0, <2>1, <2>4 DEF SetContribution, Goto, Advances
  <2>5. CASE Settle(d)
    BY <2>5 DEF Settle, submitVars
  <2>6. CASE Create(d) \/ RefuseForm(d) \/ BeginValidation(d) \/ VendorFails(d) \/ Analyze(d)
             \/ AnalyzeConflict(d) \/ RefuseByRules(d) \/ AutoPost(d) \/ AutoPostFails(d)
             \/ Abort(d)
    BY <1>0, <2>1, <2>6 DEF Create, RefuseForm, BeginValidation, VendorFails, Analyze,
         AnalyzeConflict, RefuseByRules, AutoPost, AutoPostFails, Abort, Goto, Finish, Advances
  <2>7. QED
    BY <1>1, <2>2, <2>3, <2>4, <2>5, <2>6 DEF SubmitStep
<1>2. ASSUME NEW o \in Reviews,
             \/ ReadToApprove(o) \/ ReadToReject(o) \/ ReadToOverride(o) \/ ReadToReturn(o)
             \/ ReviewStep(o) \/ ReviewDies(o)
      PROVE  UNCHANGED <<pc, marked>>
  BY <1>2 DEF ReadToApprove, ReadToReject, ReadToOverride, ReadToReturn, ReviewStep,
       CommitApprove, CommitReject, CommitOverride, CommitReturn, Notify, ReviewDies,
       submitVars
<1>3. CASE UNCHANGED vars \/ Quiet
  BY <1>3 DEF Quiet, vars, submitVars
<1>4. QED
  BY <1>1, <1>2, <1>3 DEF Next

(* What is funded after a step was funded before it, for as much, or has   *)
(* just been by the last step of its submission, for the amount declared.  *)
LEMMA NewlyFunded ==
  ASSUME LedgerInv, LedgerInv', Unflagged, VetInv, [Next]_vars,
         NEW d \in Deposits, AutoFunded(d)'
  PROVE  /\ form' = form
         /\ \/ AutoFunded(d) /\ amount'[d] = amount[d]
            \/ pc[d] = "post" /\ pc'[d] = "done" /\ amount'[d] = form[d].amount
<1>1. TypeOK /\ Vetted(d) /\ RowsAreAccepted /\ AmountChangeIsApproved'
  BY DEF LedgerInv, VetInv
<1>2. form' = form
  BY <1>1, VettedKept
<1>3. status'[d] \in Funded /\ flag'[d] = "none"
  BY DEF AutoFunded
<1>4. CASE status[d] \in Funded
  <2>1. flag'[d] = flag[d]
    BY <1>4, StepMoves DEF StepOf, Funded, Credited
  <2>2. QED
    BY <1>1, <1>2, <1>3, <1>4, <2>1, AmountKept DEF AutoFunded
<1>5. CASE status[d] \notin Funded
  <2>1. amount'[d] = form'[d].amount
    BY <1>1, <1>3 DEF AmountChangeIsApproved, Funded, Credited, NoRow
  <2>2. QED
    BY <1>2, <1>3, <1>5, <2>1, FundedByPipeline
<1>6. QED
  BY <1>4, <1>5

(* While no two submissions of a check are between look and mark, a step   *)
(* funds no check a second time.                                           *)
LEMMA FundedOnceKept ==
  ASSUME "redis" \notin Faults, ChecksApart, FundInv,
         LedgerInv, LedgerInv', Unflagged, VetInv, [Next]_vars
  PROVE  FundInv'
<1>1. /\ \A d \in Deposits : AutoFunded(d)' =>
           \/ AutoFunded(d) /\ amount'[d] = amount[d]
           \/ pc[d] = "post" /\ pc'[d] = "done" /\ amount'[d] = form[d].amount
      /\ form' = form
  <2>1. form' = form
    BY FormKept
  <2>2. QED
    BY <2>1, NewlyFunded
<1>2. \A d \in Deposits : AutoFunded(d) => amount[d] \in marked
  BY DEF VetInv, AutoFundedIsVetted
<1>3. \A d \in Deposits : Marking(d) => form[d].amount \in marked
  BY DEF VetInv, Vetted, Marking
<1>4. CASE UNCHANGED <<pc, marked>>
  <2>1. \A d \in Deposits : AutoFunded(d)' => AutoFunded(d) /\ amount'[d] = amount[d]
    BY <1>1, <1>4
  <2>2. QED
    BY <1>1, <1>4, <2>1 DEF FundInv, NoDoubleFunding, Marking
<1>5. ASSUME NEW d \in Deposits, \A e \in Deposits \ {d} : pc'[e] = pc[e], Advances(d)
      PROVE  FundInv'
  <2>1. ASSUME NEW e \in Deposits, pc'[e] = "mark"
        PROVE  form'[e].amount \notin marked'
    BY <1>1, <1>5, <2>1 DEF Advances, Marking, ChecksApart, FundInv
  <2>2. \A e \in Deposits \ {d} : Marking(e)' <=> Marking(e)
    BY <1>5 DEF Marking
  <2>3. ASSUME Marking(d)'
        PROVE  pc[d] = "mark" \/ Marking(d)
    BY <1>5, <2>3 DEF Advances, Marking
  <2>4. ASSUME NEW e \in Deposits, NEW f \in Deposits, Marking(e)', AutoFunded(f)'
        PROVE  amount'[f] # form'[e].amount
    <3>1. CASE AutoFunded(f) /\ amount'[f] = amount[f]
      BY <1>1, <1>2, <2>2, <2>3, <2>4, <3>1 DEF FundInv
    <3>2. CASE pc[f] = "post" /\ pc'[f] = "done" /\ amount'[f] = form[f].amount
      <4>1. f = d /\ e # d
        BY <1>5, <2>4, <3>2 DEF Marking
      <4>2. Marking(f) /\ Marking(e)
        BY <2>2, <2>4, <3>2, <4>1 DEF Marking
      <4>3. QED
        BY <1>1, <3>2, <4>1, <4>2 DEF FundInv
    <3>3. QED
      BY <1>1, <2>4, <3>1, <3>2
  <2>5. ASSUME NEW e \in Deposits, NEW f \in Deposits, Marking(e)', Marking(f)', f # e
        PROVE  form'[f].amount # form'[e].amount
    BY <1>1, <1>3, <2>2, <2>3, <2>5 DEF FundInv
  <2>6. ASSUME NEW e \in Deposits, NEW f \in Deposits,
               AutoFunded(e)', AutoFunded(f)', amount'[e] = amount'[f]
        PROVE  e = f
    <3>1. CASE AutoFunded(e) /\ amount'[e] = amount[e] /\ AutoFunded(f) /\ amount'[f] = amount[f]
      BY <2>6, <3>1 DEF FundInv, NoDoubleFunding
    <3>2. CASE pc[e] = "post" /\ pc'[e] = "done" /\ amount'[e] = form[e].amount
      BY <1>1, <1>5, <2>6, <3>2 DEF FundInv, Marking
    <3>3. CASE pc[f] = "post" /\ pc'[f] = "done" /\ amount'[f] = form[f].amount
      BY <1>1, <1>5, <2>6, <3>3 DEF FundInv, Marking
    <3>4. QED
      BY <1>1, <2>6, <3>1, <3>2, <3>3
  <2>7. QED
    BY <2>1, <2>4, <2>5, <2>6 DEF FundInv, NoDoubleFunding
<1>6. QED
  BY <1>4, <1>5, OneAdvances DEF LedgerInv

(* The only way to fund a check twice without an operator: two submissions *)
(* of it are between the EXISTS and the SETNX of the duplicate rule at     *)
(* once.  In every behaviour where no two ever are, each check is funded   *)
(* once, whatever else races, aborts or fails (ApplyRules rule 4).         *)
THEOREM DoubleFundingNeedsOverlap ==
  ASSUME "redis" \notin Faults
  PROVE  Spec /\ []ChecksApart => []NoDoubleFunding
<1>1. Init => FundInv
  BY DEF Init, FundInv, Marking, AutoFunded, Funded, Credited, NoRow, NoDoubleFunding
<1>2. /\ LedgerInv /\ LedgerInv' /\ Unflagged /\ VetInv /\ ChecksApart /\ FundInv /\ [Next]_vars
      => FundInv'
  BY FundedOnceKept
<1>3. FundInv => NoDoubleFunding
  BY DEF FundInv
<1>4. QED
  BY <1>1, <1>2, <1>3, HistoryInvariant, VettedInvariant, PTL DEF Spec

(* A set of at most one element has no two.                                *)
LEMMA NoTwo ==
  ASSUME NEW S, IsFiniteSet(S), Cardinality(S) <= 1
  PROVE  \A x, y \in S : x = y
<1> SUFFICES ASSUME NEW x \in S, NEW y \in S, x # y PROVE FALSE
  OBVIOUS
<1>1. IsFiniteSet({x}) /\ Cardinality({x}) = 1
  BY FS_Singleton
<1>2. /\ IsFiniteSet({x} \cup {y})
      /\ Cardinality({x} \cup {y}) = Cardinality({x}) + 1
  <2>1. y \notin {x}
    OBVIOUS
  <2>2. QED
    BY <1>1, <2>1, FS_AddElement
<1>3. Cardinality({x} \cup {y}) <= Cardinality(S)
  BY <1>2, FS_Subset
<1>4. Cardinality(S) \in Nat
  BY FS_CardinalityType
<1>5. QED
  BY <1>1, <1>2, <1>3, <1>4

(* When clients wait for one submission to be answered before the next, no *)
(* check is funded twice by the pipeline.                                  *)
THEOREM FundedOnceWhenSerial ==
  ASSUME "redis" \notin Faults
  PROVE  SerialSpec => []NoDoubleFunding
<1> DEFINE Alone == \A d, e \in InFlight : d = e
<1>1. Init => Alone
  BY DEF Init, InFlight
<1>2. TypeOK /\ Alone /\ [Next /\ Cardinality(InFlight') <= 1]_vars => Alone'
  <2> SUFFICES ASSUME TypeOK, Alone, Next, Cardinality(InFlight') <= 1 PROVE Alone'
    BY DEF vars, submitVars, InFlight
  <2>1. IsFiniteSet(InFlight')
    <3>1. CASE UNCHANGED pc
      <4>1. InFlight' = InFlight
        BY <3>1 DEF InFlight
      <4>2. InFlight = {} \/ \E d \in InFlight : InFlight = {d}
        OBVIOUS
      <4>3. QED
        BY <4>1, <4>2, FS_EmptySet, FS_Singleton
    <3>2. ASSUME NEW d \in Deposits, \A e \in Deposits \ {d} : pc'[e] = pc[e]
          PROVE  IsFiniteSet(InFlight')
      <4>1. InFlight' \subseteq InFlight \cup {d}
        BY <3>2 DEF InFlight
      <4>2. InFlight = {} \/ \E e \in InFlight : InFlight = {e}
        OBVIOUS
      <4>3. IsFiniteSet(InFlight)
        <5>1. CASE InFlight = {}
          BY <5>1, FS_EmptySet
        <5>2. ASSUME NEW e \in InFlight, InFlight = {e} PROVE IsFiniteSet(InFlight)
          BY <5>2, FS_Singleton
        <5>3. QED
          BY <4>2, <5>1, <5>2
      <4>4. IsFiniteSet(InFlight \cup {d})
        BY <4>3, FS_AddElement
      <4>5. QED
        BY <4>1, <4>4, FS_Subset
    <3>3. QED
      BY <3>1, <3>2, OneAdvances
  <2>2. \A d, e \in InFlight' : d = e
    BY <2>1, NoTwo
  <2>3. QED
    BY <2>2
<1>3. Alone => ChecksApart
  BY DEF InFlight, ChecksApart
<1>4. SerialSpec => Spec
  <2>1. [Next /\ Cardinality(InFlight') <= 1]_vars => [Next]_vars
    OBVIOUS
  <2>2. QED
    BY <2>1, PTL DEF SerialSpec, Spec
<1>5. SerialSpec => []Alone
  BY <1>1, <1>2, <1>4, TypeCorrect, PTL DEF SerialSpec
<1>6. QED
  BY <1>3, <1>4, <1>5, DoubleFundingNeedsOverlap, PTL
===============================================================================
