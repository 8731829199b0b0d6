------------------------------ MODULE Settlement ------------------------------
(***************************************************************************)
(* internal/settlement: end-of-day batches.  A trigger request reads the   *)
(* eligible deposits, inserts a batch row, writes the settlement file,     *)
(* moves the deposits to Completed one transaction at a time and updates   *)
(* the row; a retry request reads a batch and later writes it.  Nothing    *)
(* keeps two requests from running at once, and a restart of the server    *)
(* ends all of them.  The bank is a stub whose answer is the service's     *)
(* bankAckMode.                                                            *)
(***************************************************************************)
EXTENDS Integers

CONSTANTS
  Deposits,
  CreatedAt,    \* transfers.created_at of each deposit
  Runs,         \* trigger requests; a run that gets there makes one batch
  Cutoffs,      \* cutoff times of the dates they are triggered for
  Retries,      \* retry requests
  MaxRetries,   \* MAX_SETTLEMENT_RETRIES
  NoBatch,
  Faults        \* which of the faults below may happen

(* "disk":    writing the file fails.                                      *)
(* "tx":      a statement or a transaction fails.                          *)
(* "reply":   the reply of a COMMIT that took place is lost.               *)
(* "restart": the server restarts.                                         *)
FaultKinds == {"disk", "tx", "reply", "restart"}

ASSUME SettlementAssumption ==
  /\ CreatedAt \in [Deposits -> Nat]
  /\ Cutoffs \subseteq Nat
  /\ MaxRetries \in Nat \ {0}
  /\ NoBatch \notin Runs
  /\ Faults \subseteq FaultKinds

VARIABLES
  status,       \* transfers.status of each deposit, from Approved on
  batchOf,      \* transfers.settlement_batch_id
  batch,        \* settlement_batches row of each run
  file,         \* deposits in the settlement file of each run
  acks,         \* bankAckMode # "fail": the bank acknowledges
  pc, cutoff, todo, moved,     \* locals of the trigger requests
  rpc, about, seen,            \* locals of the retry requests
  sent          \* how often each batch went to the bank (history only)

deposits == <<status, batchOf>>
runLocals == <<pc, cutoff, todo, moved>>
retryLocals == <<rpc, about, seen>>
vars == <<deposits, batch, file, acks, runLocals, retryLocals, sent>>

(* deposit_count and total_amount_cents are sums over a set of deposits;   *)
(* counted is that set.                                                    *)
Row(state, counted, retries) ==
  [state |-> state, counted |-> counted, retries |-> retries]

BatchStates == {"none", "pending", "submitted", "retry_pending", "escalated"}

Init ==
  /\ status = [d \in Deposits |-> "approved"]
  /\ batchOf = [d \in Deposits |-> NoBatch]
  /\ batch = [r \in Runs |-> Row("none", {}, 0)]
  /\ file = [r \in Runs |-> {}]
  /\ acks = TRUE
  /\ pc = [r \in Runs |-> "idle"]
  /\ cutoff = [r \in Runs |-> 0]
  /\ todo = [r \in Runs |-> {}]
  /\ moved = [r \in Runs |-> {}]
  /\ rpc = [q \in Retries |-> "idle"]
  /\ about \in [Retries -> Runs]
  /\ seen = [q \in Retries |-> 0]
  /\ sent = [r \in Runs |-> 0]

(* The deposit pipeline posts the funds of d.                              *)
Post(d) ==
  /\ status[d] = "approved"
  /\ status' = [status EXCEPT ![d] = "funds_posted"]
  /\ UNCHANGED <<batchOf, batch, file, acks, runLocals, retryLocals, sent>>

-------------------------------------------------------------------------------
(* RunSettlement                                                           *)

UnfilteredEligible(c) == {d \in Deposits : status[d] # "approved" /\ CreatedAt[d] <= c}
WithoutCutoff(c) ==
  {d \in Deposits : status[d] = "funds_posted" /\ batchOf[d] = NoBatch}
Eligible(c) ==
  {d \in Deposits : /\ status[d] = "funds_posted"
                    /\ CreatedAt[d] <= c
                    /\ batchOf[d] = NoBatch}

Goto(r, from, to) ==
  /\ pc[r] = from
  /\ pc' = [pc EXCEPT ![r] = to]

(* With nothing eligible the run answers at once and leaves no row.        *)
ReadEligible(r) ==
  \E c \in Cutoffs :
    /\ cutoff' = [cutoff EXCEPT ![r] = c]
    /\ todo' = [todo EXCEPT ![r] = Eligible(c)]
    /\ IF Eligible(c) = {} THEN Goto(r, "idle", "done") ELSE Goto(r, "idle", "insert")
    /\ UNCHANGED <<deposits, batch, file, acks, moved, retryLocals, sent>>

InsertBatch(r) ==
  /\ \/ /\ Goto(r, "insert", "file")
        /\ batch' = [batch EXCEPT ![r] = Row("pending", {}, 0)]
     \/ /\ "tx" \in Faults
        /\ Goto(r, "insert", "done")
        /\ UNCHANGED batch
  /\ UNCHANGED <<deposits, file, acks, cutoff, todo, moved, retryLocals, sent>>

PressOn == "move"
AfterWriteError == "done"

(* The file appears whole (written aside and renamed) or not at all.       *)
WriteFile(r) ==
  /\ \/ /\ Goto(r, "file", "move")
        /\ file' = [file EXCEPT ![r] = todo[r]]
     \/ /\ "disk" \in Faults
        /\ Goto(r, "file", AfterWriteError)
        /\ UNCHANGED file
  /\ UNCHANGED <<deposits, batch, acks, cutoff, todo, moved, retryLocals, sent>>

IsNext(d, r) == d \in todo[r] /\ \A e \in todo[r] : CreatedAt[d] <= CreatedAt[e]

(* Mutant: the update has no guard.                                        *)
HoldsAnyway(d) == status[d] # "approved"

Holds(d) == status[d] = "funds_posted"

CountAnyway(r, d) == moved' = [moved EXCEPT ![r] = @ \cup {d}]
CountIfMoved(r, d) == UNCHANGED moved

(* One deposit's transaction; any error in it skips the deposit.           *)
MoveDeposit(r, d) ==
  /\ IsNext(d, r)
  /\ Goto(r, "move", "move")
  /\ todo' = [todo EXCEPT ![r] = @ \ {d}]
  /\ \/ /\ Holds(d)
        /\ status' = [status EXCEPT ![d] = "completed"]
        /\ batchOf' = [batchOf EXCEPT ![d] = r]
        /\ \/ moved' = [moved EXCEPT ![r] = @ \cup {d}]
           \/ "reply" \in Faults /\ UNCHANGED moved
     \/ /\ ~Holds(d) \/ "tx" \in Faults
        /\ CountIfMoved(r, d)
        /\ UNCHANGED deposits
  /\ UNCHANGED <<batch, file, acks, cutoff, retryLocals, sent>>

SomeTried(r) == moved[r] # {}
AllTried(r) == todo[r] = {}

(* The batch goes to the bank; then its row is updated, if Postgres lets.  *)
FinishRun(r) ==
  /\ AllTried(r)
  /\ Goto(r, "move", "done")
  /\ \/ batch' = [batch EXCEPT ![r] = IF acks THEN Row("submitted", moved[r], 0)
                                             ELSE Row("retry_pending", moved[r], 1)]
     \/ "tx" \in Faults /\ UNCHANGED batch
  /\ sent' = [sent EXCEPT ![r] = @ + 1]
  /\ UNCHANGED <<deposits, file, acks, cutoff, todo, moved, retryLocals>>

-------------------------------------------------------------------------------
(* RetryBatch                                                              *)

ReadBatch(q) ==
  LET row == batch[about[q]] IN
  /\ rpc[q] = "idle"
  /\ row.state = "retry_pending"
  /\ seen' = [seen EXCEPT ![q] = row.retries]
  /\ rpc' = [rpc EXCEPT ![q] = "write"]
  /\ UNCHANGED <<deposits, batch, file, acks, runLocals, about, sent>>

EscalateEarly(n) == n + 2 >= MaxRetries
Exhausted(n) == n >= MaxRetries

MarkFailed(old) == "failed"
ReopenOnFailure(old) == "retry_pending"
KeepState(old) == old

(* The outcome of an attempt on a row read with n - 1 retries.             *)
Retried(row, n) ==
  [row EXCEPT !.retries = n,
              !.state = IF acks THEN "submitted"
                        ELSE IF Exhausted(n) THEN "escalated" ELSE KeepState(@)]

(* UPDATE ... WHERE id: the row may have changed since it was read.        *)
WriteBatch(q) ==
  LET r == about[q] IN
  /\ rpc[q] = "write"
  /\ rpc' = [rpc EXCEPT ![q] = "done"]
  /\ \/ batch' = [batch EXCEPT ![r] = Retried(@, seen[q] + 1)]
     \/ "tx" \in Faults /\ UNCHANGED batch
  /\ sent' = [sent EXCEPT ![r] = @ + 1]
  /\ UNCHANGED <<deposits, file, acks, runLocals, about, seen>>

-------------------------------------------------------------------------------
Idle ==
  /\ \A r \in Runs : pc[r] \in {"idle", "done"}
  /\ \A q \in Retries : rpc[q] \in {"idle", "done"}

SetBankAckMode ==
  /\ Idle
  /\ acks' = ~acks
  /\ UNCHANGED <<deposits, batch, file, runLocals, retryLocals, sent>>

(* A restart ends the requests under way; a new service acknowledges.      *)
Restart ==
  /\ "restart" \in Faults
  /\ pc' = [r \in Runs |-> IF pc[r] = "idle" THEN "idle" ELSE "done"]
  /\ rpc' = [q \in Retries |-> IF rpc[q] = "idle" THEN "idle" ELSE "done"]
  /\ acks' = TRUE
  /\ UNCHANGED <<deposits, batch, file, cutoff, todo, moved, about, seen, sent>>

Quiet == Idle /\ UNCHANGED vars

RunStep(r) ==
  InsertBatch(r) \/ WriteFile(r) \/ FinishRun(r)
  \/ \E d \in Deposits : MoveDeposit(r, d)

Next ==
  \/ \E d \in Deposits : Post(d)
  \/ \E r \in Runs : ReadEligible(r) \/ RunStep(r)
  \/ \E q \in Retries : ReadBatch(q) \/ WriteBatch(q)
  \/ SetBankAckMode
  \/ Restart
  \/ Quiet

Spec == Init /\ [][Next]_vars

(* A trigger handler that is not cut off runs to its end.                  *)
Fairness == \A r \in Runs : WF_vars(RunStep(r))

FairSpec == Spec /\ Fairness
-------------------------------------------------------------------------------
(* Properties                                                              *)

RunSteps == {"idle", "insert", "file", "move", "done"}

(* Every variable holds values of the shape the schema and the handlers    *)
(* give it.                                                                *)
TypeOK ==
  /\ status \in [Deposits -> {"approved", "funds_posted", "completed"}]
  /\ batchOf \in [Deposits -> Runs \cup {NoBatch}]
  /\ batch \in [Runs -> [state : BatchStates, counted : SUBSET Deposits,
                         retries : Nat]]
  /\ file \in [Runs -> SUBSET Deposits]
  /\ acks \in BOOLEAN
  /\ pc \in [Runs -> RunSteps]
  /\ cutoff \in [Runs -> Nat]
  /\ todo \in [Runs -> SUBSET Deposits]
  /\ moved \in [Runs -> SUBSET Deposits]
  /\ rpc \in [Retries -> {"idle", "write", "done"}]
  /\ about \in [Retries -> Runs]
  /\ seen \in [Retries -> Nat]
  /\ sent \in [Runs -> Nat]

(* A deposit is completed exactly when it is in a batch, and the file of   *)
(* that batch carries it, whatever other runs did meanwhile.               *)
CompletedIsFiled ==
  \A d \in Deposits :
    /\ status[d] = "completed" <=> batchOf[d] # NoBatch
    /\ \A r \in Runs : batchOf[d] = r => d \in file[r]

(* Once a batch has been reported, its count and total are those of the    *)
(* deposits that name it, also when runs overlap and transactions fail     *)
(* (RunSettlement counts after each commit).                               *)
RowMatchesDeposits ==
  \A r \in Runs : batch[r].state \notin {"none", "pending"} =>
    batch[r].counted = {d \in Deposits : batchOf[d] = r}

(* No file carries a deposit created after its cutoff.                     *)
CutoffRespected == \A r \in Runs : \A d \in file[r] : CreatedAt[d] <= cutoff[r]

(* A batch is escalated only after as many submissions as configured, and  *)
(* its retry count never exceeds the submissions made.                     *)
EscalationIsEarned ==
  \A r \in Runs :
    /\ batch[r].retries <= sent[r]
    /\ batch[r].state = "escalated" => sent[r] >= MaxRetries

(* Neither an overlapping retry nor one begun before a restart moves a     *)
(* batch out of submitted or escalated, or a deposit out of its batch,     *)
(* while the bank keeps its answer (RetryBatch writes without a guard).    *)
SettledStaysSettled ==
  [][/\ \A r \in Runs : batch[r].state \in {"submitted", "escalated"} =>
                           batch'[r].state = batch[r].state
     /\ \A d \in Deposits : batchOf[d] # NoBatch => batchOf'[d] = batchOf[d]]_vars

(* What a file carries is eventually completed (no transaction fails).     *)
FiledIsCompleted ==
  \A d \in Deposits, r \in Runs : d \in file[r] ~> status[d] = "completed"

(* "Idempotency is already enforced (settlement_batch_id IS NULL filter)"  *)
(* (decision_log.md): no deposit goes to the bank in two files.            *)
FilesAreDisjoint ==
  \A r, s \in Runs : r # s => file[r] \cap file[s] = {}

(* "Verify the X9 ICL file contains exactly the deposits that should be    *)
(* settled [...] and that batch totals are mathematically correct"         *)
(* (README.md): the reported row sums up the file.                         *)
FileMatchesRow ==
  \A r \in Runs : batch[r].state \notin {"none", "pending"} =>
    batch[r].counted = file[r]
===============================================================================
