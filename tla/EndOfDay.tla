------------------------------- MODULE EndOfDay -------------------------------
(***************************************************************************)
(* What settlement promises, with no request, file, retry or restart in    *)
(* sight: a deposit goes into one batch, for good; a batch takes deposits  *)
(* until it is reported, and its report names exactly those it took; it is *)
(* then accepted by the bank, or given up after enough submissions, and    *)
(* either is final.                                                        *)
(***************************************************************************)
EXTENDS Naturals

CONSTANTS Deposits, Batches, NoBatch, MaxAttempts

VARIABLES home,       \* the batch of each deposit
          stage,      \* how far each batch is
          report,     \* the deposits each was reported with
          attempts    \* how often each went to the bank

vars == <<home, stage, report, attempts>>

Stages == {"none", "open", "owed", "accepted", "given up"}

Init ==
  /\ home = [d \in Deposits |-> NoBatch]
  /\ stage = [b \in Batches |-> "none"]
  /\ report = [b \in Batches |-> {}]
  /\ attempts = [b \in Batches |-> 0]

Advance(b, from, to) ==
  /\ stage[b] = from
  /\ stage' = [stage EXCEPT ![b] = to]

Attempt(b) == attempts' = [attempts EXCEPT ![b] = @ + 1]

Open(b) == Advance(b, "none", "open") /\ UNCHANGED <<home, report, attempts>>

Settle(d, b) ==
  /\ home[d] = NoBatch /\ stage[b] = "open"
  /\ home' = [home EXCEPT ![d] = b]
  /\ UNCHANGED <<stage, report, attempts>>

Report(b) ==
  /\ \E to \in {"owed", "accepted"} : Advance(b, "open", to)
  /\ report' = [report EXCEPT ![b] = {d \in Deposits : home[d] = b}]
  /\ Attempt(b) /\ UNCHANGED home

Accept(b) == Advance(b, "owed", "accepted") /\ Attempt(b) /\ UNCHANGED <<home, report>>

GiveUp(b) ==
  /\ Advance(b, "owed", "given up")
  /\ Attempt(b) /\ attempts'[b] >= MaxAttempts
  /\ UNCHANGED <<home, report>>

(* In vain, or once more although the answer is there.                     *)
Resubmit(b) ==
  /\ stage[b] # "none"
  /\ Attempt(b) /\ UNCHANGED <<home, stage, report>>

Next ==
  \E b \in Batches :
    \/ Open(b) \/ Report(b) \/ Accept(b) \/ GiveUp(b) \/ Resubmit(b)
    \/ \E d \in Deposits : Settle(d, b)

Spec == Init /\ [][Next]_vars
===============================================================================
