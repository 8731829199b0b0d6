--------------------------- MODULE SettlementProofs ---------------------------
(***************************************************************************)
(* Proofs about Settlement, for any number of deposits, runs and retries:  *)
(* type correctness, the agreement of deposits, files and batch rows, what *)
(* concurrent retries may and may not do to a batch, which overlap of runs *)
(* a double filing takes, and the refinement of EndOfDay.                  *)
(***************************************************************************)
EXTENDS MCSettlement, TLAPS, FiniteSetTheorems

(* The rows of settlement_batches.                                         *)
Rows == [state : BatchStates, counted : SUBSET Deposits, retries : Nat]

(* Initially nothing has run.                                              *)
LEMMA InitType == Init => TypeOK
<1> SUFFICES ASSUME Init PROVE TypeOK
  OBVIOUS
<1>1. Row("none", {}, 0) \in Rows
  BY DEF Rows, Row, BatchStates
<1>2. QED
  BY <1>1 DEF Init, TypeOK, RunSteps, Rows

(* Each step of a trigger request keeps the types.                         *)
LEMMA RunType ==
  ASSUME TypeOK, NEW r \in Runs, ReadEligible(r) \/ RunStep(r)
  PROVE  TypeOK'
<1> USE DEF Goto, deposits, retryLocals, RunSteps, Rows
<1>1. CASE ReadEligible(r)
  <2>1. PICK c \in Cutoffs :
          /\ cutoff' = [cutoff EXCEPT ![r] = c]
          /\ todo' = [todo EXCEPT ![r] = Eligible(c)]
    BY <1>1 DEF ReadEligible
  <2>2. c \in Nat /\ Eligible(c) \subseteq Deposits
    BY SettlementAssumption DEF Eligible
  <2>3. QED
    BY <1>1, <2>1, <2>2 DEF ReadEligible, TypeOK
<1>2. CASE InsertBatch(r)
  <2>1. pc' \in [Runs -> RunSteps]
    BY <1>2 DEF InsertBatch, TypeOK
  <2>2. batch' \in [Runs -> Rows]
    BY <1>2 DEF InsertBatch, Row, BatchStates, TypeOK
  <2>3. QED
    BY <1>2, <2>1, <2>2 DEF InsertBatch, TypeOK
<1>3. CASE WriteFile(r)
  <2>1. pc' \in [Runs -> RunSteps]
    BY <1>3 DEF WriteFile, AfterWriteError, TypeOK
  <2>2. file' \in [Runs -> SUBSET Deposits]
    BY <1>3 DEF WriteFile, TypeOK
  <2>3. QED
    BY <1>3, <2>1, <2>2 DEF WriteFile, TypeOK
<1>4. CASE FinishRun(r)
  <2>1. pc' \in [Runs -> RunSteps] /\ sent' \in [Runs -> Nat]
    BY <1>4 DEF FinishRun, TypeOK
  <2>2. batch' \in [Runs -> Rows]
    <3>1. Row("submitted", moved[r], 0) \in Rows /\ Row("retry_pending", moved[r], 1) \in Rows
      BY DEF Row, BatchStates, TypeOK
    <3>2. QED
      BY <1>4, <3>1 DEF FinishRun, TypeOK
  <2>3. QED
    BY <1>4, <2>1, <2>2 DEF FinishRun, TypeOK
<1>5. ASSUME NEW d \in Deposits, MoveDeposit(r, d) PROVE TypeOK'
  <2>1. /\ pc' \in [Runs -> RunSteps]
        /\ todo' \in [Runs -> SUBSET Deposits]
        /\ moved' \in [Runs -> SUBSET Deposits]
    BY <1>5 DEF MoveDeposit, CountIfMoved, TypeOK
  <2>2. /\ status' \in [Deposits -> {"approved", "funds_posted", "completed"}]
        /\ batchOf' \in [Deposits -> Runs \cup {NoBatch}]
    <3>1. CASE /\ status' = [status EXCEPT ![d] = "completed"]
               /\ batchOf' = [batchOf EXCEPT ![d] = r]
      BY <3>1 DEF TypeOK
    <3>2. CASE UNCHANGED <<status, batchOf>>
      BY <3>2 DEF TypeOK
    <3>3. QED
      BY <1>5, <3>1, <3>2 DEF MoveDeposit
  <2>3. QED
    BY <1>5, <2>1, <2>2 DEF MoveDeposit, TypeOK
<1>6. QED
  BY <1>1, <1>2, <1>3, <1>4, <1>5 DEF RunStep

(* Each step of a retry request keeps the types.                           *)
LEMMA RetryType ==
  ASSUME TypeOK, NEW q \in Retries, ReadBatch(q) \/ WriteBatch(q)
  PROVE  TypeOK'
<1> USE DEF deposits, runLocals
<1>1. about[q] \in Runs
  BY DEF TypeOK
<1>2. CASE ReadBatch(q)
  BY <1>1, <1>2 DEF ReadBatch, TypeOK
<1>3. CASE WriteBatch(q)
  <2>1. batch[about[q]] \in Rows /\ seen[q] + 1 \in Nat
    BY <1>1 DEF TypeOK, Rows
  <2>2. Retried(batch[about[q]], seen[q] + 1) \in Rows
    BY <2>1 DEF Rows, Retried, KeepState, BatchStates
  <2>3. batch' \in [Runs -> Rows]
    BY <1>1, <1>3, <2>2 DEF WriteBatch, TypeOK, Rows
  <2>4. rpc' \in [Retries -> {"idle", "write", "done"}] /\ sent' \in [Runs -> Nat]
    BY <1>1, <1>3 DEF WriteBatch, TypeOK
  <2>5. QED
    BY <1>3, <2>3, <2>4 DEF WriteBatch, TypeOK, Rows
<1>4. QED
  BY <1>2, <1>3

(* Every step keeps the types.                                             *)
LEMMA NextType == TypeOK /\ [Next]_vars => TypeOK'
<1> SUFFICES ASSUME TypeOK, [Next]_vars PROVE TypeOK'
  OBVIOUS
<1> USE DEF runLocals, retryLocals, deposits
<1>1. ASSUME NEW d \in Deposits, Post(d) PROVE TypeOK'
  BY <1>1 DEF Post, TypeOK
<1>2. CASE SetBankAckMode
  BY <1>2 DEF SetBankAckMode, TypeOK
<1>3. CASE Restart
  BY <1>3 DEF Restart, TypeOK, RunSteps
<1>4. CASE UNCHANGED vars
  BY <1>4 DEF vars, TypeOK
<1>5. QED
  BY <1>1, <1>2, <1>3, <1>4, RunType, RetryType DEF Next, Quiet

(* The variables always hold values of the shape the schema and the        *)
(* handlers give them.                                                     *)
THEOREM SettlementType == Spec => []TypeOK
<1>1. QED
  BY InitType, NextType, PTL DEF Spec

-------------------------------------------------------------------------------
(* Deposits and files: a deposit names a batch exactly when it is          *)
(* completed; its batch's file has it, which rests on a run moving only    *)
(* what is in its file; and a run that has not written its file has moved  *)
(* nothing.                                                                *)
FilingInv ==
  /\ CompletedIsFiled
  /\ CutoffRespected
  /\ \A r \in Runs :
       /\ pc[r] = "move" => todo[r] \subseteq file[r]
       /\ \A d \in todo[r] : CreatedAt[d] <= cutoff[r]
       /\ pc[r] \in {"idle", "insert", "file"} =>
            file[r] = {} /\ \A d \in Deposits : batchOf[d] # r

(* The steps of a run keep the agreement of deposits and files.            *)
LEMMA RunFiling ==
  ASSUME TypeOK, FilingInv, NEW r \in Runs, ReadEligible(r) \/ RunStep(r)
  PROVE  FilingInv'
<1> USE SettlementAssumption DEF Goto, deposits, TypeOK, RunSteps, FilingInv,
                                 CompletedIsFiled, CutoffRespected
<1>1. CASE ReadEligible(r)
  <2>1. PICK c \in Cutoffs :
          /\ cutoff' = [cutoff EXCEPT ![r] = c]
          /\ todo' = [todo EXCEPT ![r] = Eligible(c)]
    BY <1>1 DEF ReadEligible
  <2>2. \A d \in Eligible(c) : d \in Deposits /\ CreatedAt[d] <= c
    BY DEF Eligible
  <2>3. /\ file[r] = {} /\ pc[r] = "idle" /\ pc'[r] \in {"insert", "done"}
        /\ \A s \in Runs \ {r} : pc'[s] = pc[s]
        /\ UNCHANGED <<status, batchOf, file>>
    BY <1>1 DEF ReadEligible
  <2>4. CompletedIsFiled'
    BY <2>3
  <2>5. CutoffRespected'
    BY <2>1, <2>3
  <2>6. QED
    BY <2>1, <2>2, <2>3, <2>4, <2>5
<1>2. CASE InsertBatch(r)
  BY <1>2 DEF InsertBatch
<1>3. CASE WriteFile(r)
  <2>1. /\ pc[r] = "file" /\ file[r] = {} /\ \A d \in Deposits : batchOf[d] # r
        /\ \A d \in todo[r] : d \in Deposits /\ CreatedAt[d] <= cutoff[r]
        /\ UNCHANGED <<status, batchOf, todo, cutoff>>
    BY <1>3 DEF WriteFile
  <2>2. CASE pc' = [pc EXCEPT ![r] = "move"] /\ file' = [file EXCEPT ![r] = todo[r]]
    <3>1. CompletedIsFiled' /\ CutoffRespected'
      BY <2>1, <2>2
    <3>2. QED
      BY <2>1, <2>2, <3>1
  <2>3. CASE pc' = [pc EXCEPT ![r] = "done"] /\ file' = file
    BY <2>1, <2>3
  <2>4. QED
    BY <1>3, <2>2, <2>3 DEF WriteFile, AfterWriteError
<1>4. CASE FinishRun(r)
  BY <1>4 DEF FinishRun
<1>5. ASSUME NEW d \in Deposits, MoveDeposit(r, d) PROVE FilingInv'
  <2>1. d \in file[r] /\ pc[r] = "move" /\ pc' = pc
    BY <1>5 DEF MoveDeposit, IsNext
  <2>2. /\ UNCHANGED <<file, cutoff>>
        /\ todo' = [todo EXCEPT ![r] = @ \ {d}]
        /\ \/ /\ status' = [status EXCEPT ![d] = "completed"]
              /\ batchOf' = [batchOf EXCEPT ![d] = r]
              /\ batchOf[d] = NoBatch
           \/ UNCHANGED <<status, batchOf>>
    BY <1>5 DEF MoveDeposit, Holds
  <2>3. CompletedIsFiled'
    BY <2>1, <2>2
  <2>4. QED
    BY <2>1, <2>2, <2>3
<1>6. QED
  BY <1>1, <1>2, <1>3, <1>4, <1>5 DEF RunStep

(* Every step keeps the agreement of deposits and files.                   *)
LEMMA NextFiling == TypeOK /\ FilingInv /\ [Next]_vars => FilingInv'
<1> SUFFICES ASSUME TypeOK, FilingInv, [Next]_vars PROVE FilingInv'
  OBVIOUS
<1> USE DEF runLocals, retryLocals, deposits, FilingInv, CompletedIsFiled, CutoffRespected
<1>1. ASSUME NEW d \in Deposits, Post(d) PROVE FilingInv'
  BY <1>1 DEF Post, TypeOK
<1>2. ASSUME NEW q \in Retries, ReadBatch(q) \/ WriteBatch(q) PROVE FilingInv'
  BY <1>2 DEF ReadBatch, WriteBatch
<1>3. CASE SetBankAckMode
  BY <1>3 DEF SetBankAckMode
<1>4. CASE Restart
  BY <1>4 DEF Restart, TypeOK, RunSteps
<1>5. CASE UNCHANGED vars
  BY <1>5 DEF vars
<1>6. QED
  BY <1>1, <1>2, <1>3, <1>4, <1>5, RunFiling DEF Next, Quiet

(* Initially no deposit is in a batch.                                     *)
LEMMA InitFiling == Init => FilingInv
BY SettlementAssumption DEF Init, FilingInv, CompletedIsFiled, CutoffRespected

(* A deposit is completed exactly when it is in a batch, and the           *)
(* settlement file of that batch carries it, whatever overlaps, fails or   *)
(* restarts.                                                               *)
THEOREM CompletedFiled == Spec => []CompletedIsFiled
<1>1. FilingInv => CompletedIsFiled
  BY DEF FilingInv
<1>2. QED
  BY <1>1, InitType, InitFiling, NextType, NextFiling, PTL DEF Spec

(* No file carries a deposit created after its run's cutoff.               *)
THEOREM CutoffKept == Spec => []CutoffRespected
<1>1. FilingInv => CutoffRespected
  BY DEF FilingInv
<1>2. QED
  BY <1>1, InitType, InitFiling, NextType, NextFiling, PTL DEF Spec

-------------------------------------------------------------------------------
(* Batches and retries: a row is reported once its run has ended, so only  *)
(* retries write it from then on; and a retry that is about to write has   *)
(* seen no more retries than submissions, and knows the row to be pending  *)
(* or what the bank's answer, which cannot change meanwhile, has made it.  *)
Reported(r) == batch[r].state \notin {"none", "pending"}

Outcome(row) ==
  \/ row.state = "retry_pending"
  \/ row.state = "submitted" /\ acks
  \/ row.state = "escalated" /\ ~acks

Writable(r) == Outcome(batch[r])

RetryInv ==
  /\ EscalationIsEarned
  /\ \A r \in Runs : Reported(r) => pc[r] = "done"
  /\ \A q \in Retries : rpc[q] = "write" =>
       seen[q] <= sent[about[q]] /\ Writable(about[q])

(* The batch of run r, which has ended, goes to the bank (again); its row  *)
(* becomes `row' unless the update fails.                                  *)
Submits(r, row) ==
  /\ UNCHANGED <<acks, about, seen>>
  /\ row.retries <= sent[r] + 1
  /\ row.state = "escalated" => sent[r] + 1 >= MaxRetries
  /\ batch' = [batch EXCEPT ![r] = row] \/ UNCHANGED batch
  /\ sent' = [sent EXCEPT ![r] = @ + 1]
  /\ \A s \in Runs : pc[s] = "done" => pc'[s] = "done"
  /\ pc'[r] = "done"
  /\ \A q \in Retries : rpc'[q] = "write" =>
       rpc[q] = "write" /\ (about[q] = r => Outcome(row))

(* The end of a run and the write of a retry keep the batches and retries  *)
(* in agreement.                                                           *)
LEMMA SubmitKeepsRetryInv ==
  ASSUME TypeOK, RetryInv, NEW r \in Runs, NEW row \in Rows, Submits(r, row)
  PROVE  RetryInv'
<1> USE DEF Submits, Outcome
<1>1. /\ \A s \in Runs \ {r} : batch'[s] = batch[s] /\ sent'[s] = sent[s]
      /\ batch'[r] \in {batch[r], row} /\ sent'[r] = sent[r] + 1
      /\ \A s \in Runs : sent[s] \in Nat /\ batch[s].retries \in Nat
      /\ \A q \in Retries : about[q] \in Runs /\ seen[q] \in Nat
      /\ row.retries \in Nat /\ MaxRetries \in Nat
  BY SettlementAssumption DEF TypeOK, Rows
<1>2. EscalationIsEarned'
  <2>1. ASSUME NEW s \in Runs, s # r
        PROVE  /\ batch'[s].retries <= sent'[s]
               /\ batch'[s].state = "escalated" => sent'[s] >= MaxRetries
    BY <1>1, <2>1 DEF RetryInv, EscalationIsEarned
  <2>2. /\ batch'[r].retries <= sent'[r]
        /\ batch'[r].state = "escalated" => sent'[r] >= MaxRetries
    BY <1>1 DEF RetryInv, EscalationIsEarned
  <2>3. QED
    BY <2>1, <2>2 DEF EscalationIsEarned
<1>3. \A s \in Runs : Reported(s)' => pc'[s] = "done"
  BY <1>1 DEF RetryInv, Reported
<1>4. ASSUME NEW q \in Retries, rpc'[q] = "write"
      PROVE  seen'[q] <= sent'[about'[q]] /\ Writable(about[q])'
  <2>1. seen[q] <= sent[about[q]] /\ Writable(about[q])
    BY <1>4 DEF RetryInv
  <2>2. seen'[q] <= sent'[about'[q]]
    BY <1>1, <2>1
  <2>3. Writable(about[q])'
    BY <1>1, <1>4, <2>1 DEF Writable, Outcome
  <2>4. QED
    BY <2>2, <2>3
<1>5. QED
  BY <1>2, <1>3, <1>4 DEF RetryInv

(* The steps of a run keep them.                                           *)
LEMMA RunRetry ==
  ASSUME TypeOK, RetryInv, NEW r \in Runs, ReadEligible(r) \/ RunStep(r)
  PROVE  RetryInv'
<1> USE DEF Goto, deposits, retryLocals
<1> DEFINE Other == /\ UNCHANGED <<batch, acks, sent, rpc, about, seen>>
                    /\ pc[r] # "done"
                    /\ \A s \in Runs \ {r} : pc'[s] = pc[s]
<1>1. ASSUME Other PROVE RetryInv'
  BY <1>1 DEF RetryInv, EscalationIsEarned, Reported, Writable, Outcome
<1>2. CASE ReadEligible(r)
  <2>1. Other
    BY <1>2 DEF ReadEligible, TypeOK
  <2>2. QED
    BY <1>1, <2>1
<1>3. CASE InsertBatch(r)
  <2>1. /\ pc[r] = "insert" /\ UNCHANGED <<acks, sent, rpc, about, seen>>
        /\ \A s \in Runs \ {r} : pc'[s] = pc[s]
    BY <1>3 DEF InsertBatch, TypeOK
  <2>2. CASE UNCHANGED batch
    BY <1>1, <2>1, <2>2
  <2>3. CASE batch' = [batch EXCEPT ![r] = Row("pending", {}, 0)]
    <3>1. /\ batch'[r].state = "pending" /\ batch'[r].retries = 0
          /\ \A s \in Runs \ {r} : batch'[s] = batch[s]
      BY <2>3 DEF Row, TypeOK
    <3>2. ~Reported(r) /\ \A q \in Retries : rpc[q] = "write" => about[q] \in Runs \ {r}
      BY <2>1 DEF RetryInv, Reported, Writable, Outcome, TypeOK
    <3>3. EscalationIsEarned'
      BY <2>1, <3>1 DEF RetryInv, EscalationIsEarned, TypeOK
    <3>4. QED
      BY <2>1, <3>1, <3>2, <3>3 DEF RetryInv, Reported, Writable, Outcome
  <2>4. QED
    BY <1>3, <2>2, <2>3 DEF InsertBatch
<1>4. CASE WriteFile(r)
  <2>1. Other
    BY <1>4 DEF WriteFile, TypeOK
  <2>2. QED
    BY <1>1, <2>1
<1>5. CASE FinishRun(r)
  <2> DEFINE row == IF acks THEN Row("submitted", moved[r], 0)
                            ELSE Row("retry_pending", moved[r], 1)
  <2>1. /\ row \in Rows /\ row.retries \in {0, 1} /\ row.state # "escalated"
        /\ sent[r] \in Nat
    BY DEF Row, Rows, BatchStates, TypeOK
  <2>2. /\ pc[r] = "move" /\ pc'[r] = "done"
        /\ \A s \in Runs \ {r} : pc'[s] = pc[s]
    BY <1>5 DEF FinishRun, TypeOK
  <2>3. \A q \in Retries : rpc[q] = "write" => about[q] # r
    BY <2>2 DEF RetryInv, Reported, Writable, Outcome, TypeOK
  <2>4. /\ batch' = [batch EXCEPT ![r] = row] \/ UNCHANGED batch
        /\ sent' = [sent EXCEPT ![r] = @ + 1]
        /\ UNCHANGED <<acks, rpc, about, seen>>
    BY <1>5 DEF FinishRun
  <2>5. Submits(r, row)
    BY <2>1, <2>2, <2>3, <2>4 DEF Submits
  <2> HIDE DEF row
  <2>6. QED
    BY <2>1, <2>5, SubmitKeepsRetryInv
<1>6. ASSUME NEW d \in Deposits, MoveDeposit(r, d) PROVE RetryInv'
  <2>1. Other
    BY <1>6 DEF MoveDeposit, TypeOK
  <2>2. QED
    BY <1>1, <2>1
<1>7. QED
  BY <1>2, <1>3, <1>4, <1>5, <1>6 DEF RunStep

(* The steps of a retry keep them, whatever the other retries of the same  *)
(* batch have written since it read the row.                               *)
LEMMA RetryRetry ==
  ASSUME TypeOK, RetryInv, NEW q \in Retries, ReadBatch(q) \/ WriteBatch(q)
  PROVE  RetryInv'
<1> USE DEF deposits, runLocals
<1>1. CASE ReadBatch(q)
  <2>1. /\ batch[about[q]].state = "retry_pending"
        /\ seen' = [seen EXCEPT ![q] = batch[about[q]].retries]
        /\ rpc' = [rpc EXCEPT ![q] = "write"]
        /\ UNCHANGED <<batch, acks, pc, about, sent>>
    BY <1>1 DEF ReadBatch
  <2>2. about[q] \in Runs /\ batch[about[q]].retries <= sent[about[q]]
    BY DEF RetryInv, EscalationIsEarned, TypeOK
  <2>3. QED
    BY <2>1, <2>2 DEF RetryInv, EscalationIsEarned, Reported, Writable, Outcome, TypeOK
<1>2. CASE WriteBatch(q)
  <2>1. PICK r \in Runs : r = about[q]
    BY DEF TypeOK
  <2>2. /\ batch[r] \in Rows /\ seen[q] \in Nat /\ sent[r] \in Nat /\ MaxRetries \in Nat
        /\ rpc[q] = "write" /\ seen[q] <= sent[r] /\ Writable(r) /\ pc[r] = "done"
    BY <1>2, <2>1, SettlementAssumption
       DEF WriteBatch, RetryInv, Writable, Outcome, Reported, TypeOK, Rows
  <2>3. PICK row \in Rows :
          /\ row = Retried(batch[r], seen[q] + 1)
          /\ row.retries = seen[q] + 1
          /\ row.state = IF acks THEN "submitted"
                         ELSE IF seen[q] + 1 >= MaxRetries THEN "escalated"
                         ELSE batch[r].state
    <3>1. seen[q] + 1 \in Nat
      BY <2>2
    <3>2. Retried(batch[r], seen[q] + 1) \in Rows
      BY <2>2, <3>1 DEF Retried, Exhausted, KeepState, Rows, BatchStates
    <3>3. QED
      BY <2>2, <3>2 DEF Retried, Exhausted, KeepState, Rows
  <2>4. row.retries <= sent[r] + 1 /\ (row.state = "escalated" => sent[r] + 1 >= MaxRetries)
    <3>1. row.retries <= sent[r] + 1
      BY <2>2, <2>3
    <3>2. ASSUME row.state = "escalated" PROVE sent[r] + 1 >= MaxRetries
      BY <2>2, <2>3, <3>2 DEF RetryInv, EscalationIsEarned
    <3>3. QED
      BY <3>1, <3>2
  <2>5. Outcome(row)
    BY <2>2, <2>3 DEF Writable, Outcome
  <2>6. /\ batch' = [batch EXCEPT ![r] = row] \/ UNCHANGED batch
        /\ sent' = [sent EXCEPT ![r] = @ + 1]
        /\ UNCHANGED <<acks, pc, about, seen>>
        /\ \A p \in Retries : rpc'[p] = "write" => rpc[p] = "write"
    BY <1>2, <2>1, <2>3 DEF WriteBatch, TypeOK
  <2>7. Submits(r, row)
    BY <2>2, <2>4, <2>5, <2>6 DEF Submits
  <2>8. QED
    BY <2>7, SubmitKeepsRetryInv
<1>3. QED
  BY <1>1, <1>2

(* Every step keeps them.                                                  *)
LEMMA NextRetry == TypeOK /\ RetryInv /\ [Next]_vars => RetryInv'
<1> SUFFICES ASSUME TypeOK, RetryInv, [Next]_vars PROVE RetryInv'
  OBVIOUS
<1> USE DEF runLocals, retryLocals, deposits, RetryInv, EscalationIsEarned, Reported,
            Writable, Outcome
<1>1. ASSUME NEW d \in Deposits, Post(d) PROVE RetryInv'
  BY <1>1 DEF Post
<1>2. CASE SetBankAckMode
  <2>1. \A q \in Retries : rpc'[q] # "write"
    BY <1>2 DEF SetBankAckMode, Idle
  <2>2. QED
    BY <1>2, <2>1 DEF SetBankAckMode
<1>3. CASE Restart
  <2>1. \A q \in Retries : rpc'[q] # "write"
    BY <1>3 DEF Restart
  <2>2. \A r \in Runs : pc[r] = "done" => pc'[r] = "done"
    BY <1>3 DEF Restart
  <2>3. QED
    BY <1>3, <2>1, <2>2 DEF Restart
<1>4. CASE UNCHANGED vars
  BY <1>4 DEF vars
<1>5. QED
  BY <1>1, <1>2, <1>3, <1>4, RunRetry, RetryRetry DEF Next, Quiet

(* Initially nothing is reported and nothing retried.                      *)
LEMMA InitRetry == Init => RetryInv
BY DEF Init, Row, RetryInv, EscalationIsEarned, Reported

(* A batch is escalated only after as many submissions as configured, and  *)
(* its retry count never exceeds the submissions made, however many        *)
(* retries overlap.                                                        *)
THEOREM EscalationEarned == Spec => []EscalationIsEarned
<1>1. RetryInv => EscalationIsEarned
  BY DEF RetryInv
<1>2. QED
  BY <1>1, InitType, InitRetry, NextType, NextRetry, PTL DEF Spec

(* No step moves a batch out of submitted or escalated, or a deposit out   *)
(* of its batch.                                                           *)
LEMMA NextSettled ==
  ASSUME TypeOK, FilingInv, RetryInv, [Next]_vars
  PROVE  /\ \A r \in Runs : batch[r].state \in {"submitted", "escalated"} =>
                             batch'[r].state = batch[r].state
         /\ \A d \in Deposits : batchOf[d] # NoBatch => batchOf'[d] = batchOf[d]
<1> DEFINE Kept == \A r \in Runs : batch[r].state \in {"submitted", "escalated"} =>
                                    batch'[r].state = batch[r].state
           Stays == \A d \in Deposits : batchOf[d] # NoBatch => batchOf'[d] = batchOf[d]
<1> USE DEF deposits, runLocals, retryLocals
<1>1. ASSUME NEW d \in Deposits, Post(d) PROVE Kept /\ Stays
  BY <1>1 DEF Post
<1>2. ASSUME NEW r \in Runs, ReadEligible(r) \/ RunStep(r) PROVE Kept /\ Stays
  <2>1. CASE ReadEligible(r)
    BY <2>1 DEF ReadEligible
  <2>2. CASE InsertBatch(r) \/ FinishRun(r)
    <3>1. pc[r] # "done" /\ UNCHANGED batchOf
      BY <2>2 DEF InsertBatch, FinishRun, Goto
    <3>2. batch[r].state \in {"none", "pending"}
      BY <3>1 DEF RetryInv, Reported
    <3>3. \A s \in Runs \ {r} : batch'[s] = batch[s]
      BY <2>2 DEF InsertBatch, FinishRun, TypeOK
    <3>4. QED
      BY <3>1, <3>2, <3>3
  <2>3. CASE WriteFile(r)
    BY <2>3 DEF WriteFile
  <2>4. ASSUME NEW d \in Deposits, MoveDeposit(r, d) PROVE Kept /\ Stays
    <3>1. UNCHANGED batch
      BY <2>4 DEF MoveDeposit
    <3>2. UNCHANGED batchOf \/ (Holds(d) /\ batchOf' = [batchOf EXCEPT ![d] = r])
      BY <2>4 DEF MoveDeposit
    <3>3. Holds(d) => batchOf[d] = NoBatch
      BY DEF Holds, FilingInv, CompletedIsFiled
    <3>4. QED
      BY <3>1, <3>2, <3>3 DEF TypeOK
  <2>5. QED
    BY <1>2, <2>1, <2>2, <2>3, <2>4 DEF RunStep
<1>3. ASSUME NEW q \in Retries, ReadBatch(q) PROVE Kept /\ Stays
  BY <1>3 DEF ReadBatch
<1>4. ASSUME NEW q \in Retries, WriteBatch(q) PROVE Kept /\ Stays
  <2>1. Writable(about[q]) /\ about[q] \in Runs /\ UNCHANGED batchOf
    BY <1>4 DEF WriteBatch, RetryInv, TypeOK
  <2>2. \A r \in Runs \ {about[q]} : batch'[r] = batch[r]
    BY <1>4 DEF WriteBatch, TypeOK
  <2>3. batch'[about[q]] \in {batch[about[q]], Retried(batch[about[q]], seen[q] + 1)}
    BY <1>4, <2>1 DEF WriteBatch, TypeOK
  <2>4. batch[about[q]].state \in {"submitted", "escalated"} =>
          Retried(batch[about[q]], seen[q] + 1).state = batch[about[q]].state
    BY <2>1 DEF Writable, Outcome, Retried, KeepState, TypeOK
  <2>5. QED
    BY <2>1, <2>2, <2>3, <2>4
<1>5. CASE SetBankAckMode \/ Restart
  BY <1>5 DEF SetBankAckMode, Restart
<1>6. CASE UNCHANGED vars
  BY <1>6 DEF vars
<1>7. QED
  BY <1>1, <1>2, <1>3, <1>4, <1>5, <1>6 DEF Next, Quiet

(* Neither an overlapping retry nor one begun before a restart moves a     *)
(* batch out of submitted or escalated, or a deposit out of its batch.     *)
THEOREM SettledForGood == Spec => SettledStaysSettled
<1>1. Init => TypeOK /\ FilingInv /\ RetryInv
  BY InitType, InitRetry, InitFiling
<1>2. TypeOK /\ FilingInv /\ RetryInv /\ [Next]_vars => (TypeOK /\ FilingInv /\ RetryInv)'
  BY NextType, NextFiling, NextRetry
<1>3. TypeOK /\ FilingInv /\ RetryInv /\ [Next]_vars =>
        [/\ \A r \in Runs : batch[r].state \in {"submitted", "escalated"} =>
                             batch'[r].state = batch[r].state
         /\ \A d \in Deposits : batchOf[d] # NoBatch => batchOf'[d] = batchOf[d]]_vars
  BY NextSettled
<1>4. QED
  BY <1>1, <1>2, <1>3, PTL DEF Spec, SettledStaysSettled

-------------------------------------------------------------------------------
(* Rows: as long as no COMMIT takes place unseen, a run counts just the    *)
(* deposits that name its batch.                                           *)
CountInv ==
  /\ \A r \in Runs : moved[r] = {d \in Deposits : batchOf[d] = r}
  /\ RowMatchesDeposits

(* The steps of a run keep its count.                                      *)
LEMMA RunCount ==
  ASSUME "reply" \notin Faults, TypeOK, FilingInv, RetryInv, CountInv,
         NEW r \in Runs, ReadEligible(r) \/ RunStep(r)
  PROVE  CountInv'
<1> USE DEF Goto, deposits, retryLocals
<1>1. ASSUME UNCHANGED <<batch, batchOf, moved>> PROVE CountInv'
  BY <1>1 DEF CountInv, RowMatchesDeposits
<1>2. CASE ReadEligible(r)
  BY <1>1, <1>2 DEF ReadEligible
<1>3. CASE InsertBatch(r) \/ FinishRun(r)
  <2>1. UNCHANGED <<batchOf, moved>>
    BY <1>3 DEF InsertBatch, FinishRun
  <2>2. \A s \in Runs \ {r} : batch'[s] = batch[s]
    BY <1>3 DEF InsertBatch, FinishRun, TypeOK
  <2>3. \/ UNCHANGED batch
        \/ batch'[r].state = "pending"
        \/ batch'[r].counted = moved[r]
    BY <1>3 DEF InsertBatch, FinishRun, Row, TypeOK
  <2>4. QED
    BY <2>1, <2>2, <2>3 DEF CountInv, RowMatchesDeposits
<1>4. CASE WriteFile(r)
  BY <1>1, <1>4 DEF WriteFile
<1>5. ASSUME NEW d \in Deposits, MoveDeposit(r, d) PROVE CountInv'
  <2>1. CASE UNCHANGED <<batchOf, moved>>
    BY <1>1, <1>5, <2>1 DEF MoveDeposit
  <2>2. CASE /\ Holds(d)
             /\ batchOf' = [batchOf EXCEPT ![d] = r]
             /\ moved' = [moved EXCEPT ![r] = @ \cup {d}]
    <3>1. batchOf[d] = NoBatch /\ NoBatch \notin Runs
      BY <2>2, SettlementAssumption DEF Holds, FilingInv, CompletedIsFiled
    <3>2. \A s \in Runs \ {r} :
            /\ moved'[s] = moved[s]
            /\ {e \in Deposits : batchOf'[e] = s} = {e \in Deposits : batchOf[e] = s}
      BY <2>2, <3>1 DEF TypeOK
    <3>3. moved'[r] = {e \in Deposits : batchOf'[e] = r}
      BY <2>2, <3>1 DEF TypeOK, CountInv
    <3>4. batch' = batch /\ batch[r].state \in {"none", "pending"}
      BY <1>5 DEF MoveDeposit, RetryInv, Reported
    <3>5. QED
      BY <3>2, <3>3, <3>4 DEF CountInv, RowMatchesDeposits
  <2>3. QED
    BY <1>5, <2>1, <2>2 DEF MoveDeposit, CountIfMoved
<1>6. QED
  BY <1>2, <1>3, <1>4, <1>5 DEF RunStep

(* Every step keeps the counts.                                            *)
LEMMA NextCount ==
  ASSUME "reply" \notin Faults, TypeOK, FilingInv, RetryInv, CountInv, [Next]_vars
  PROVE  CountInv'
<1> USE DEF deposits, runLocals, retryLocals
<1>1. ASSUME UNCHANGED <<batch, batchOf, moved>> PROVE CountInv'
  BY <1>1 DEF CountInv, RowMatchesDeposits
<1>2. ASSUME NEW d \in Deposits, Post(d) PROVE CountInv'
  BY <1>1, <1>2 DEF Post
<1>3. ASSUME NEW q \in Retries, ReadBatch(q) PROVE CountInv'
  BY <1>1, <1>3 DEF ReadBatch
<1>4. ASSUME NEW q \in Retries, WriteBatch(q) PROVE CountInv'
  <2>1. Writable(about[q]) /\ about[q] \in Runs /\ UNCHANGED <<batchOf, moved>>
    BY <1>4 DEF WriteBatch, RetryInv, TypeOK
  <2>2. /\ \A r \in Runs : batch'[r].counted = batch[r].counted
        /\ \A r \in Runs \ {about[q]} : batch'[r] = batch[r]
    <3>1. Retried(batch[about[q]], seen[q] + 1).counted = batch[about[q]].counted
      BY <2>1 DEF Retried, TypeOK
    <3>2. /\ batch'[about[q]] \in {batch[about[q]], Retried(batch[about[q]], seen[q] + 1)}
          /\ \A r \in Runs \ {about[q]} : batch'[r] = batch[r]
      BY <1>4, <2>1 DEF WriteBatch, TypeOK
    <3>3. QED
      BY <2>1, <3>1, <3>2
  <2>3. Reported(about[q])
    BY <2>1 DEF Writable, Outcome, Reported
  <2>4. QED
    BY <2>1, <2>2, <2>3 DEF CountInv, RowMatchesDeposits, Reported
<1>5. CASE SetBankAckMode \/ Restart \/ UNCHANGED vars
  BY <1>1, <1>5 DEF SetBankAckMode, Restart, vars
<1>6. QED
  BY <1>2, <1>3, <1>4, <1>5, RunCount DEF Next, Quiet

(* Once a batch has been reported, its count and total are those of the    *)
(* deposits that name it, also when runs overlap, transactions fail and    *)
(* the server restarts; only the lost reply of a COMMIT is excluded.       *)
THEOREM RowsAreRight ==
  ASSUME "reply" \notin Faults
  PROVE  Spec => []RowMatchesDeposits
<1>1. Init => TypeOK /\ FilingInv /\ RetryInv /\ CountInv
  <2>1. Init => CountInv
    BY SettlementAssumption DEF Init, Row, CountInv, RowMatchesDeposits
  <2>2. QED
    BY <2>1, InitType, InitFiling, InitRetry
<1>2. TypeOK /\ FilingInv /\ RetryInv /\ CountInv /\ [Next]_vars =>
        (TypeOK /\ FilingInv /\ RetryInv /\ CountInv)'
  BY NextType, NextFiling, NextRetry, NextCount
<1>3. CountInv => RowMatchesDeposits
  BY DEF CountInv
<1>4. QED
  BY <1>1, <1>2, <1>3, PTL DEF Spec

-------------------------------------------------------------------------------
(* Files: two triggers put a deposit into two files only when both hold it *)
(* in what they read as eligible and are under way at once.                *)
UnderWay(r) == pc[r] \in {"insert", "file", "move"}

RunsApart ==
  \A r, s \in Runs :
    UnderWay(r) /\ UnderWay(s) /\ r # s => todo[r] \cap todo[s] = {}

(* What a run under way still has to move is open, and what a file carries *)
(* is in its batch or about to be.                                         *)
OpenInv ==
  \A r \in Runs :
    /\ UnderWay(r) => \A d \in todo[r] : status[d] = "funds_posted"
    /\ \A d \in file[r] : batchOf[d] = r \/ (pc[r] = "move" /\ d \in todo[r])

(* The steps of a run keep that.                                           *)
LEMMA RunOpen ==
  ASSUME "tx" \notin Faults, TypeOK, FilingInv, RunsApart, OpenInv,
         NEW r \in Runs, ReadEligible(r) \/ RunStep(r)
  PROVE  OpenInv'
<1> USE DEF Goto, deposits, retryLocals
<1>1. CASE ReadEligible(r)
  <2>1. PICK c \in Cutoffs : todo' = [todo EXCEPT ![r] = Eligible(c)]
    BY <1>1 DEF ReadEligible
  <2>2. /\ pc[r] = "idle" /\ \A s \in Runs \ {r} : pc'[s] = pc[s]
        /\ UNCHANGED <<status, batchOf, file>>
    BY <1>1 DEF ReadEligible, TypeOK
  <2>3. file[r] = {}
    BY <2>2 DEF FilingInv
  <2>4. todo'[r] = Eligible(c) /\ \A s \in Runs \ {r} : todo'[s] = todo[s]
    BY <2>1 DEF TypeOK
  <2>5. \A d \in Eligible(c) : status[d] = "funds_posted"
    BY DEF Eligible
  <2>6. QED
    BY <2>2, <2>3, <2>4, <2>5 DEF OpenInv, UnderWay
<1>2. CASE InsertBatch(r)
  BY <1>2 DEF InsertBatch, OpenInv, UnderWay, TypeOK
<1>3. CASE WriteFile(r)
  <2>1. /\ pc[r] = "file" /\ file[r] = {}
        /\ UNCHANGED <<status, batchOf, todo>>
        /\ \A s \in Runs \ {r} : pc'[s] = pc[s] /\ file'[s] = file[s]
        /\ \/ pc'[r] = "move" /\ file'[r] = todo[r]
           \/ pc'[r] = "done" /\ file'[r] = {}
    BY <1>3 DEF WriteFile, AfterWriteError, FilingInv, TypeOK
  <2>2. QED
    BY <2>1 DEF OpenInv, UnderWay
<1>4. CASE FinishRun(r)
  <2>1. /\ pc[r] = "move" /\ todo[r] = {} /\ pc'[r] = "done"
        /\ \A s \in Runs \ {r} : pc'[s] = pc[s]
        /\ UNCHANGED <<status, batchOf, file, todo>>
    BY <1>4 DEF FinishRun, AllTried, TypeOK
  <2>2. QED
    BY <2>1 DEF OpenInv, UnderWay
<1>5. ASSUME NEW d \in Deposits, MoveDeposit(r, d) PROVE OpenInv'
  <2>1. /\ d \in todo[r] /\ pc[r] = "move" /\ pc' = pc
        /\ todo'[r] = todo[r] \ {d}
        /\ \A s \in Runs \ {r} : todo'[s] = todo[s]
        /\ UNCHANGED file
    BY <1>5 DEF MoveDeposit, IsNext, TypeOK
  <2>2. /\ status[d] = "funds_posted" /\ batchOf[d] = NoBatch
        /\ \A s \in Runs \ {r} : UnderWay(s) => d \notin todo[s]
    BY <2>1 DEF OpenInv, UnderWay, RunsApart, FilingInv, CompletedIsFiled
  <2>3. /\ batchOf'[d] = r
        /\ \A e \in Deposits \ {d} : status'[e] = status[e] /\ batchOf'[e] = batchOf[e]
    BY <1>5, <2>2 DEF MoveDeposit, Holds, TypeOK
  <2>4. r # NoBatch /\ \A s \in Runs : s # NoBatch
    BY SettlementAssumption
  <2>5. ASSUME NEW s \in Runs, NEW e \in file[s]
        PROVE  batchOf'[e] = s \/ (pc'[s] = "move" /\ e \in todo'[s])
    <3>1. CASE e = d
      <4>1. s = r
        BY <2>2, <2>4, <3>1 DEF OpenInv, UnderWay
      <4>2. QED
        BY <2>3, <3>1, <4>1
    <3>2. CASE e # d
      <4>1. e \in Deposits
        BY DEF TypeOK
      <4>2. QED
        BY <2>1, <2>3, <3>2, <4>1 DEF OpenInv
    <3>3. QED
      BY <3>1, <3>2
  <2>6. ASSUME NEW s \in Runs, UnderWay(s)', NEW e \in todo'[s]
        PROVE  status'[e] = "funds_posted"
    <3>1. e \in todo[s] /\ e # d /\ UnderWay(s) /\ e \in Deposits
      BY <2>1, <2>2, <2>6 DEF UnderWay, TypeOK
    <3>2. QED
      BY <2>3, <3>1 DEF OpenInv
  <2>7. QED
    BY <2>1, <2>5, <2>6 DEF OpenInv
<1>6. QED
  BY <1>1, <1>2, <1>3, <1>4, <1>5 DEF RunStep

(* Every step keeps that, as long as no transaction fails and the server   *)
(* stays up.                                                               *)
LEMMA NextOpen ==
  ASSUME "tx" \notin Faults, "restart" \notin Faults,
         TypeOK, FilingInv, RunsApart, OpenInv, [Next]_vars
  PROVE  OpenInv'
<1>1. ASSUME NEW d \in Deposits, Post(d) PROVE OpenInv'
  <2>1. /\ UNCHANGED <<batchOf, file, pc, todo>>
        /\ \A e \in Deposits : status[e] = "funds_posted" => status'[e] = "funds_posted"
    BY <1>1 DEF Post, TypeOK, runLocals
  <2>2. \A r \in Runs : todo[r] \subseteq Deposits
    BY DEF TypeOK
  <2>3. QED
    BY <2>1, <2>2 DEF OpenInv, UnderWay
<1>2. CASE \/ \E q \in Retries : ReadBatch(q) \/ WriteBatch(q)
           \/ SetBankAckMode \/ UNCHANGED vars
  BY <1>2 DEF ReadBatch, WriteBatch, SetBankAckMode, vars, deposits, runLocals, OpenInv, UnderWay
<1>3. ~Restart
  BY DEF Restart
<1>4. QED
  BY <1>1, <1>2, <1>3, RunOpen DEF Next, Quiet

(* A deposit two files carry is in neither batch.                          *)
LEMMA OpenFiles ==
  ASSUME TypeOK, FilingInv, RunsApart, OpenInv
  PROVE  FilesAreDisjoint
<1> SUFFICES ASSUME NEW r \in Runs, NEW s \in Runs, r # s,
                    NEW d \in Deposits, d \in file[r], d \in file[s]
             PROVE  FALSE
  BY DEF FilesAreDisjoint, TypeOK
<1>1. ASSUME NEW p \in Runs, pc[p] = "move", d \in todo[p]
      PROVE  batchOf[d] = NoBatch
  BY <1>1 DEF OpenInv, UnderWay, FilingInv, CompletedIsFiled
<1>2. QED
  BY <1>1, SettlementAssumption DEF OpenInv, UnderWay, RunsApart

(* The invariant of the files.                                             *)
FilesInv == TypeOK /\ FilingInv /\ RetryInv /\ OpenInv

(* FilesInv holds as long as runs are apart.                               *)
LEMMA FilesInvariant ==
  ASSUME "tx" \notin Faults, "restart" \notin Faults
  PROVE  Spec /\ []RunsApart => []FilesInv
<1>1. Init => FilesInv
  <2>1. Init => OpenInv
    BY DEF Init, OpenInv, UnderWay
  <2>2. QED
    BY <2>1, InitType, InitFiling, InitRetry DEF FilesInv
<1>2. FilesInv /\ RunsApart /\ [Next]_vars => FilesInv'
  BY NextType, NextFiling, NextRetry, NextOpen DEF FilesInv
<1>3. QED
  BY <1>1, <1>2, PTL DEF Spec

(* The only way a deposit goes to the bank in two files while transactions *)
(* succeed and the server stays up: two triggers under way at once that    *)
(* both read it as eligible (RunSettlement).                               *)
THEOREM DoubleFilingNeedsOverlap ==
  ASSUME "tx" \notin Faults, "restart" \notin Faults
  PROVE  Spec /\ []RunsApart => []FilesAreDisjoint
<1>1. FilesInv /\ RunsApart => FilesAreDisjoint
  BY OpenFiles DEF FilesInv
<1>2. QED
  BY <1>1, FilesInvariant, PTL

(* While runs are apart, transactions succeed with their replies and the   *)
(* server stays up, the reported row sums up the file.                     *)
THEOREM FilesAreSummedUp ==
  ASSUME Faults \subseteq {"disk"}
  PROVE  Spec /\ []RunsApart => []FileMatchesRow
<1>1. "tx" \notin Faults /\ "restart" \notin Faults /\ "reply" \notin Faults
  OBVIOUS
<1>2. FilesInv /\ RowMatchesDeposits => FileMatchesRow
  <2> SUFFICES ASSUME FilesInv, RowMatchesDeposits, NEW r \in Runs,
                      batch[r].state \notin {"none", "pending"}
               PROVE  batch[r].counted = file[r]
    BY DEF FileMatchesRow
  <2>1. pc[r] # "move"
    BY DEF FilesInv, RetryInv, Reported
  <2>2. file[r] \subseteq Deposits
    BY DEF FilesInv, TypeOK
  <2>3. \A d \in Deposits : d \in file[r] <=> batchOf[d] = r
    BY <2>1 DEF FilesInv, OpenInv, FilingInv, CompletedIsFiled
  <2>4. batch[r].counted = {d \in Deposits : batchOf[d] = r}
    BY DEF RowMatchesDeposits
  <2>5. QED
    BY <2>2, <2>3, <2>4
<1>3. QED
  BY <1>1, <1>2, FilesInvariant, RowsAreRight, PTL

(* A set of at most one element has no two.                                *)
LEMMA NoTwo ==
  ASSUME NEW S, IsFiniteSet(S), Cardinality(S) <= 1
  PROVE  \A x, y \in S : x = y
<1> SUFFICES ASSUME NEW x \in S, NEW y \in S, x # y PROVE FALSE
  OBVIOUS
<1>1. IsFiniteSet({x}) /\ Cardinality({x}) = 1
  BY FS_Singleton
<1>2. /\ IsFiniteSet({x} \cup {y})
      /\ Cardinality({x} \cup {y}) = Cardinality({x}) + 1
  <2>1. y \notin {x}
    OBVIOUS
  <2>2. QED
    BY <1>1, <2>1, FS_AddElement
<1>3. Cardinality({x} \cup {y}) <= Cardinality(S)
  BY <1>2, FS_Subset
<1>4. Cardinality(S) \in Nat
  BY FS_CardinalityType
<1>5. QED
  BY <1>1, <1>2, <1>3, <1>4

(* A step starts at most one run.                                          *)
LEMMA OneMoreRunning ==
  ASSUME TypeOK, [Next]_vars
  PROVE  Running' \subseteq Running \/ \E r \in Runs : Running' \subseteq Running \cup {r}
<1>1. ASSUME NEW r \in Runs, ReadEligible(r) \/ RunStep(r)
      PROVE  Running' \subseteq Running \cup {r}
  <2>1. \A s \in Runs \ {r} : pc'[s] = pc[s]
    BY <1>1 DEF ReadEligible, RunStep, InsertBatch, WriteFile, FinishRun, MoveDeposit, Goto, TypeOK
  <2>2. QED
    BY <2>1 DEF Running
<1>2. CASE Restart
  BY <1>2 DEF Restart, Running, TypeOK
<1>3. CASE \/ \E d \in Deposits : Post(d)
           \/ \E q \in Retries : ReadBatch(q) \/ WriteBatch(q)
           \/ SetBankAckMode \/ UNCHANGED vars
  BY <1>3 DEF Post, ReadBatch, WriteBatch, SetBankAckMode, vars, runLocals, Running
<1>4. QED
  BY <1>1, <1>2, <1>3 DEF Next, Quiet

(* An operator who waits for a run to end keeps runs apart.                *)
LEMMA SerialIsApart == SerialSpec => Spec /\ []RunsApart
<1> DEFINE Alone == \A r, s \in Running : r = s
<1>1. Init => Alone
  BY DEF Init, Running
<1>2. TypeOK /\ Alone /\ [SerialNext]_vars => Alone'
  <2>1. CASE UNCHANGED vars
    BY <2>1 DEF vars, runLocals, Running
  <2>2. ASSUME TypeOK, Alone, Next, Cardinality(Running') <= 1 PROVE Alone'
    <3>1. IsFiniteSet(Running)
      <4>1. CASE Running = {}
        BY <4>1, FS_EmptySet
      <4>2. ASSUME NEW r \in Running, Running = {r} PROVE IsFiniteSet(Running)
        BY <4>2, FS_Singleton
      <4>3. Running = {} \/ \E r \in Running : Running = {r}
        BY <2>2
      <4>4. QED
        BY <4>1, <4>2, <4>3
    <3>2. IsFiniteSet(Running')
      <4>1. \A r : IsFiniteSet(Running \cup {r})
        BY <3>1, FS_AddElement
      <4>2. CASE Running' \subseteq Running
        BY <3>1, <4>2, FS_Subset
      <4>3. ASSUME NEW r \in Runs, Running' \subseteq Running \cup {r}
            PROVE  IsFiniteSet(Running')
        BY <4>1, <4>3, FS_Subset
      <4>4. QED
        BY <2>2, <4>2, <4>3, OneMoreRunning
    <3>3. \A r, s \in Running' : r = s
      BY <2>2, <3>2, NoTwo
    <3>4. QED
      BY <3>3
  <2>3. QED
    BY <2>1, <2>2 DEF SerialNext
<1>3. TypeOK /\ Alone => RunsApart
  BY DEF Running, RunsApart, UnderWay, TypeOK, RunSteps
<1>4. SerialSpec => Spec
  <2>1. [SerialNext]_vars => [Next]_vars
    BY DEF SerialNext
  <2>2. QED
    BY <2>1, PTL DEF SerialSpec, Spec
<1>5. QED
  BY <1>1, <1>2, <1>3, <1>4, SettlementType, PTL DEF SerialSpec

(* When the operator waits for each run to end, no deposit goes to the     *)
(* bank in two files ("Idempotency is already enforced", decision_log.md). *)
THEOREM FilesDisjointWhenSerial ==
  ASSUME "tx" \notin Faults, "restart" \notin Faults
  PROVE  SerialSpec => []FilesAreDisjoint
BY SerialIsApart, DoubleFilingNeedsOverlap, PTL

(* When the operator waits for each run to end, the reported row sums up   *)
(* the file.                                                               *)
THEOREM RowsSumUpWhenSerial ==
  ASSUME Faults \subseteq {"disk"}
  PROVE  SerialSpec => []FileMatchesRow
BY SerialIsApart, FilesAreSummedUp, PTL

-------------------------------------------------------------------------------
(* The promise: a batch is open from its insertion until its run ends, so  *)
(* a run that moves deposits moves them into an open batch.                *)
StageInv ==
  \A r \in Runs :
    /\ pc[r] \in {"idle", "insert"} => batch[r] = Row("none", {}, 0)
    /\ pc[r] \in {"file", "move"} => batch[r].state = "pending"

(* Every step keeps that.                                                  *)
LEMMA NextStage ==
  TypeOK /\ RetryInv /\ StageInv /\ [Next]_vars => StageInv'
<1> SUFFICES ASSUME TypeOK, RetryInv, StageInv, [Next]_vars PROVE StageInv'
  OBVIOUS
<1> USE DEF Goto, runLocals, retryLocals, TypeOK
<1>1. ASSUME UNCHANGED <<pc, batch>> PROVE StageInv'
  BY <1>1 DEF StageInv
<1>2. ASSUME NEW r \in Runs, ReadEligible(r) PROVE StageInv'
  BY <1>2 DEF ReadEligible, StageInv
<1>3. ASSUME NEW r \in Runs, InsertBatch(r) PROVE StageInv'
  <2>1. Row("pending", {}, 0).state = "pending"
    BY DEF Row
  <2>2. QED
    BY <1>3, <2>1 DEF InsertBatch, StageInv
<1>4. ASSUME NEW r \in Runs, WriteFile(r) PROVE StageInv'
  BY <1>4 DEF WriteFile, AfterWriteError, StageInv
<1>5. ASSUME NEW r \in Runs, FinishRun(r) PROVE StageInv'
  BY <1>5 DEF FinishRun, StageInv
<1>6. ASSUME NEW r \in Runs, NEW d \in Deposits, MoveDeposit(r, d) PROVE StageInv'
  BY <1>6 DEF MoveDeposit, StageInv
<1>7. ASSUME NEW q \in Retries, WriteBatch(q) PROVE StageInv'
  <2>1. pc[about[q]] = "done" /\ UNCHANGED pc
    BY <1>7 DEF WriteBatch, RetryInv, Reported, Writable, Outcome
  <2>2. \A r \in Runs : pc[r] # "done" => batch'[r] = batch[r]
    BY <1>7, <2>1 DEF WriteBatch
  <2>3. QED
    BY <2>1, <2>2 DEF StageInv
<1>8. CASE Restart
  <2>1. \A r \in Runs : pc'[r] = IF pc[r] = "idle" THEN "idle" ELSE "done"
    BY <1>8 DEF Restart
  <2>2. QED
    BY <1>8, <2>1 DEF Restart, StageInv
<1>9. CASE (\E d \in Deposits : Post(d)) \/ (\E q \in Retries : ReadBatch(q))
           \/ SetBankAckMode \/ Quiet \/ UNCHANGED vars
  <2>1. UNCHANGED <<pc, batch>>
    BY <1>9 DEF Post, ReadBatch, SetBankAckMode, Quiet, vars
  <2>2. QED
    BY <1>1, <2>1
<1>10. QED
  BY <1>2, <1>3, <1>4, <1>5, <1>6, <1>7, <1>8, <1>9 DEF Next, RunStep

(* What a change of one row is to the promise.                             *)
LEMMA RowChange ==
  ASSUME TypeOK, NEW r \in Runs, NEW row \in Rows, batch' = [batch EXCEPT ![r] = row]
  PROVE  /\ stageBar' = [stageBar EXCEPT ![r] = StageOf(row.state)]
         /\ reportBar' = [reportBar EXCEPT ![r] = row.counted]
BY DEF TypeOK, Rows, stageBar, reportBar

(* A function is what it is with one of its values given again.            *)
LEMMA SameValue ==
  ASSUME NEW S, NEW f, f = [x \in S |-> f[x]], NEW a, NEW v, a \in S => v = f[a]
  PROVE  [f EXCEPT ![a] = v] = f
OBVIOUS

(* The steps of a run keep the promise.                                    *)
LEMMA RunPromise ==
  ASSUME "reply" \notin Faults, TypeOK, FilingInv, CountInv, StageInv,
         NEW r \in Runs, ReadEligible(r) \/ RunStep(r)
  PROVE  [Promise!Next]_(Promise!vars)
<1>1. stageBar[r] = StageOf(batch[r].state) /\ sent \in [Runs -> Nat]
  BY DEF stageBar, TypeOK
<1>2. CASE ReadEligible(r) \/ WriteFile(r)
  BY <1>2 DEF ReadEligible, WriteFile, deposits, Promise!vars, stageBar, reportBar
<1>3. CASE InsertBatch(r)
  <2>1. CASE UNCHANGED batch
    BY <1>3, <2>1 DEF InsertBatch, deposits, Promise!vars, stageBar, reportBar
  <2>2. CASE batch' = [batch EXCEPT ![r] = Row("pending", {}, 0)]
    <3>1. Row("pending", {}, 0) \in Rows /\ batch[r] = Row("none", {}, 0)
      BY <1>3 DEF InsertBatch, Goto, StageInv, Row, Rows, BatchStates
    <3>2. /\ stageBar[r] = "none" /\ stageBar' = [stageBar EXCEPT ![r] = "open"]
          /\ reportBar' = [reportBar EXCEPT ![r] = {}]
      <4>1. /\ stageBar' = [stageBar EXCEPT ![r] = StageOf(Row("pending", {}, 0).state)]
            /\ reportBar' = [reportBar EXCEPT ![r] = Row("pending", {}, 0).counted]
        BY <2>2, <3>1, RowChange
      <4>2. /\ batch[r].state = "none"
            /\ Row("pending", {}, 0).state = "pending" /\ Row("pending", {}, 0).counted = {}
        BY <3>1 DEF Row
      <4>3. QED
        BY <1>1, <4>1, <4>2 DEF StageOf
    <3>3. reportBar = [s \in Runs |-> reportBar[s]] /\ reportBar[r] = {}
      BY <3>1 DEF reportBar, Row
    <3>4. reportBar' = reportBar
      BY <3>2, <3>3, SameValue
    <3>5. Promise!Open(r)
      BY <1>3, <3>2, <3>4 DEF InsertBatch, deposits, Promise!Open, Promise!Advance
    <3>6. QED
      BY <3>5 DEF Promise!Next
  <2>3. QED
    BY <1>3, <2>1, <2>2 DEF InsertBatch
<1>4. ASSUME NEW d \in Deposits, MoveDeposit(r, d) PROVE [Promise!Next]_(Promise!vars)
  <2>1. UNCHANGED <<stageBar, reportBar, sent>>
    BY <1>4 DEF MoveDeposit, stageBar, reportBar
  <2>2. CASE UNCHANGED batchOf
    BY <2>1, <2>2 DEF Promise!vars
  <2>3. CASE Holds(d) /\ batchOf' = [batchOf EXCEPT ![d] = r]
    <3>1. batchOf[d] = NoBatch
      BY <2>3 DEF Holds, FilingInv, CompletedIsFiled
    <3>2. stageBar[r] = "open"
      BY <1>1, <1>4 DEF MoveDeposit, Goto, StageInv, StageOf
    <3>3. Promise!Settle(d, r)
      BY <2>1, <2>3, <3>1, <3>2 DEF Promise!Settle
    <3>4. QED
      BY <3>3 DEF Promise!Next
  <2>4. QED
    BY <1>4, <2>2, <2>3 DEF MoveDeposit, deposits
<1>5. CASE FinishRun(r)
  <2>1. stageBar[r] = "open" /\ moved[r] = {d \in Deposits : batchOf[d] = r}
    BY <1>1, <1>5 DEF FinishRun, Goto, StageInv, StageOf, CountInv
  <2>2. Promise!Attempt(r) /\ UNCHANGED batchOf
    BY <1>5 DEF FinishRun, deposits, Promise!Attempt
  <2>3. CASE UNCHANGED batch
    <3>1. Promise!Resubmit(r)
      BY <2>1, <2>2, <2>3 DEF Promise!Resubmit, stageBar, reportBar
    <3>2. QED
      BY <3>1 DEF Promise!Next
  <2>4. ASSUME NEW state \in {"submitted", "retry_pending"}, NEW n \in {0, 1},
               batch' = [batch EXCEPT ![r] = Row(state, moved[r], n)]
        PROVE  [Promise!Next]_(Promise!vars)
    <3>1. Row(state, moved[r], n) \in Rows
      BY DEF Row, Rows, BatchStates, TypeOK
    <3>2. /\ stageBar' = [stageBar EXCEPT ![r] = StageOf(state)]
          /\ reportBar' = [reportBar EXCEPT ![r] = moved[r]]
      BY <2>4, <3>1, RowChange DEF Row
    <3>3. StageOf(state) \in {"owed", "accepted"}
      BY DEF StageOf
    <3>4. Promise!Report(r)
      BY <2>1, <2>2, <3>2, <3>3 DEF Promise!Report, Promise!Advance
    <3>5. QED
      BY <3>4 DEF Promise!Next
  <2>5. QED
    BY <1>5, <2>3, <2>4 DEF FinishRun
<1>6. QED
  BY <1>2, <1>3, <1>4, <1>5 DEF RunStep

(* The write of a retry keeps it: the batch is owed, or has the very       *)
(* verdict that the retry brings.                                          *)
LEMMA RetryPromise ==
  ASSUME TypeOK, RetryInv, NEW q \in Retries, WriteBatch(q)
  PROVE  Promise!Next
<1> DEFINE r == about[q]
           row == Retried(batch[r], seen[q] + 1)
<1>1. /\ r \in Runs /\ stageBar[r] = StageOf(batch[r].state)
      /\ reportBar[r] = batch[r].counted /\ batch[r] \in Rows
      /\ stageBar = [s \in Runs |-> stageBar[s]] /\ reportBar = [s \in Runs |-> reportBar[s]]
  BY DEF TypeOK, stageBar, reportBar, Rows
<1>2. Promise!Attempt(r) /\ UNCHANGED batchOf /\ sent' = [sent EXCEPT ![r] = sent[r] + 1]
  BY DEF WriteBatch, deposits, Promise!Attempt
<1>3. Outcome(batch[r]) /\ seen[q] <= sent[r] /\ seen[q] \in Nat /\ sent[r] \in Nat
  BY <1>1 DEF WriteBatch, RetryInv, Writable, TypeOK
<1>4. CASE UNCHANGED batch
  <2>1. stageBar[r] # "none"
    BY <1>1, <1>3 DEF Outcome, StageOf
  <2>2. Promise!Resubmit(r)
    BY <1>2, <1>4, <2>1 DEF Promise!Resubmit, stageBar, reportBar
  <2>3. QED
    BY <1>1, <2>2 DEF Promise!Next
<1>5. CASE batch' = [batch EXCEPT ![r] = row]
  <2>1. row \in Rows /\ row.counted = batch[r].counted
    <3>1. seen[q] + 1 \in Nat
      BY <1>3
    <3>2. \A b \in Rows, n \in Nat :
            Retried(b, n) \in Rows /\ Retried(b, n).counted = b.counted
      BY DEF Retried, KeepState, Rows, BatchStates
    <3>3. QED
      BY <1>1, <3>1, <3>2
  <2> HIDE DEF row
  <2>2. /\ stageBar' = [stageBar EXCEPT ![r] = StageOf(row.state)]
        /\ reportBar' = [reportBar EXCEPT ![r] = row.counted]
    BY <1>1, <1>5, <2>1, RowChange
  <2>3. reportBar' = reportBar
    BY <1>1, <2>1, <2>2, SameValue
  <2>4. CASE row.state = batch[r].state
    <3>1. stageBar' = stageBar
      BY <1>1, <2>2, <2>4, SameValue
    <3>2. stageBar[r] # "none"
      BY <1>1, <1>3 DEF Outcome, StageOf
    <3>3. Promise!Resubmit(r)
      BY <1>2, <2>3, <3>1, <3>2 DEF Promise!Resubmit
    <3>4. QED
      BY <1>1, <3>3 DEF Promise!Next
  <2>5. CASE row.state # batch[r].state
    <3>1. /\ batch[r].state = "retry_pending"
          /\ \/ row.state = "submitted"
             \/ row.state = "escalated" /\ Exhausted(seen[q] + 1)
      BY <1>1, <1>3, <2>5 DEF row, Retried, KeepState, Outcome, Rows
    <3>2. CASE row.state = "submitted"
      <4>1. Promise!Accept(r)
        BY <1>1, <1>2, <2>2, <2>3, <3>1, <3>2 DEF Promise!Accept, Promise!Advance, StageOf
      <4>2. QED
        BY <1>1, <4>1 DEF Promise!Next
    <3>3. CASE row.state = "escalated" /\ Exhausted(seen[q] + 1)
      <4>1. sent[r] + 1 >= MaxRetries
        BY <1>3, <3>3, SettlementAssumption DEF Exhausted
      <4>2. sent'[r] >= MaxRetries
        BY <1>1, <1>2, <4>1 DEF TypeOK
      <4>3. Promise!GiveUp(r)
        BY <1>1, <1>2, <2>2, <2>3, <3>1, <3>3, <4>2
           DEF Promise!GiveUp, Promise!Advance, StageOf
      <4>4. QED
        BY <1>1, <4>3 DEF Promise!Next
    <3>4. QED
      BY <3>1, <3>2, <3>3
  <2>6. QED
    BY <2>4, <2>5
<1>6. QED
  BY <1>4, <1>5 DEF WriteBatch

(* So does every step.                                                     *)
LEMMA NextPromise ==
  ASSUME "reply" \notin Faults, TypeOK, FilingInv, RetryInv, CountInv, StageInv, [Next]_vars
  PROVE  [Promise!Next]_(Promise!vars)
<1>1. CASE \/ \E d \in Deposits : Post(d)
           \/ \E q \in Retries : ReadBatch(q)
           \/ SetBankAckMode \/ Restart \/ Quiet \/ UNCHANGED vars
  <2>1. UNCHANGED <<batch, batchOf, sent>>
    BY <1>1 DEF Post, ReadBatch, SetBankAckMode, Restart, Quiet, vars, deposits
  <2>2. QED
    BY <2>1 DEF Promise!vars, stageBar, reportBar
<1>2. QED
  BY <1>1, RunPromise, RetryPromise DEF Next

(* Settlement implements EndOfDay, for any number of overlapping runs and  *)
(* retries, failed transactions and restarts, as long as no reply of a     *)
(* COMMIT is lost (which would leave a deposit out of its batch's report). *)
THEOREM PromiseOfBatches ==
  ASSUME "reply" \notin Faults
  PROVE  Spec => KeepsItsBatches
<1>1. Init => TypeOK /\ FilingInv /\ RetryInv /\ CountInv /\ StageInv
  <2>1. Init => CountInv /\ StageInv
    BY SettlementAssumption DEF Init, Row, CountInv, RowMatchesDeposits, StageInv
  <2>2. QED
    BY <2>1, InitType, InitFiling, InitRetry
<1>2. TypeOK /\ FilingInv /\ RetryInv /\ CountInv /\ StageInv /\ [Next]_vars =>
        (TypeOK /\ FilingInv /\ RetryInv /\ CountInv /\ StageInv)'
  BY NextType, NextFiling, NextRetry, NextCount, NextStage
<1>3. Init => Promise!Init
  BY DEF Init, Row, Promise!Init, stageBar, reportBar, StageOf
<1>4. TypeOK /\ FilingInv /\ RetryInv /\ CountInv /\ StageInv /\ [Next]_vars =>
        [Promise!Next]_(Promise!vars)
  BY NextPromise
<1>5. QED
  BY <1>1, <1>2, <1>3, <1>4, PTL DEF Spec, KeepsItsBatches, Promise!Spec
===============================================================================
