----------------------------- MODULE HistoryProofs -----------------------------
(***************************************************************************)
(* What the rows of state_transitions and audit_logs say of a transfer,    *)
(* and what the investor was told, in every reachable state of             *)
(* CheckDeposit.                                                           *)
(*                                                                         *)
(* Every step is first reduced to what it does to one transfer (StepOf):   *)
(* it leaves the row, inserts it, or makes one of the listed moves, with   *)
(* or without a ruling.  The invariants about history follow from StepOf   *)
(* alone.                                                                  *)
(***************************************************************************)
EXTENDS LedgerProofs

(* A submission still under way has no flag yet.                           *)
Unflagged == \A d \in Deposits : pc[d] # "done" => flag[d] = "none"

SameRulings(d) == Rulings(d)' = Rulings(d)

NewRuling(d, action) ==
  \E o \in Reviews :
    Rulings(d)' = Rulings(d) \cup {[req |-> o, action |-> action, on |-> d]}

Kept(d) == status'[d] = status[d] /\ history'[d] = history[d] /\ SameRulings(d)

Begun(d) ==
  /\ status[d] = NoRow /\ status'[d] = "requested"
  /\ history'[d] = history[d] /\ SameRulings(d)

Moved(d, from, to, by) ==
  /\ IsValid(from, to)
  /\ status[d] = from /\ status'[d] = to
  /\ history'[d] = Append(history[d], Move(from, to, by))

(* The moves that are nobody's ruling.                                     *)
PlainMove(d) ==
  /\ SameRulings(d)
  /\ \/ Moved(d, "requested", "validating", "system")
     \/ Moved(d, "validating", "analyzing", "system")
     \/ Moved(d, "validating", "rejected", "system")
     \/ Moved(d, "analyzing", "rejected", "system")
     \/ Moved(d, "funds_posted", "completed", "system:settlement")
     \/ Moved(d, "completed", "returned", "operator")

RejectedBy(d) == Moved(d, "analyzing", "rejected", "reviewer") /\ NewRuling(d, "reject")

Posted(d, by) ==
  /\ status[d] = "analyzing" /\ status'[d] = "funds_posted"
  /\ history'[d] = Append(Append(history[d], Move("analyzing", "approved", by)),
                          Move("approved", "funds_posted", by))

AutoPosted(d) == Posted(d, "system") /\ flag[d] = "none" /\ SameRulings(d)

ApprovedBy(d) == Posted(d, "reviewer") /\ flag[d] # "none" /\ NewRuling(d, "approve")

StepOf(d) ==
  /\ Kept(d) \/ Begun(d) \/ PlainMove(d) \/ RejectedBy(d) \/ AutoPosted(d) \/ ApprovedBy(d)
  /\ flag'[d] = flag[d] \/ status[d] = "validating"

(* A transition of its own, seen from any transfer.                        *)
LEMMA TransitionOf ==
  ASSUME TypeOK, NEW d \in Deposits, NEW from, NEW to, NEW by, Transition(d, from, to, by)
  PROVE  /\ Moved(d, from, to, by)
         /\ \A e \in Deposits \ {d} : status'[e] = status[e] /\ history'[e] = history[e]
BY DEF TypeOK, Transition, Moved, Holds

(* The posting transaction, seen from any transfer.                        *)
LEMMA PostFundsOf ==
  ASSUME TypeOK, NEW d \in Deposits, NEW a, NEW by, PostFunds(d, a, by)
  PROVE  /\ Posted(d, by)
         /\ \A e \in Deposits \ {d} : status'[e] = status[e] /\ history'[e] = history[e]
BY DEF TypeOK, PostFunds, Posted, Holds

(* Rulings change only with the audit log.                                 *)
LEMMA RulingsKept ==
  ASSUME UNCHANGED audit
  PROVE  \A d \in Deposits : SameRulings(d)
BY DEF SameRulings, Rulings

(* An audit row of one transfer is no ruling on another, and an override   *)
(* is no ruling at all.                                                    *)
LEMMA RulingsLogged ==
  ASSUME TypeOK, NEW o \in Reviews, NEW action, NEW d \in Deposits, LogAction(o, action, d)
  PROVE  /\ \A e \in Deposits \ {d} : SameRulings(e)
         /\ action = "override" => SameRulings(d)
         /\ action \in {"approve", "reject"} => NewRuling(d, action)
<1> DEFINE row == [req |-> o, action |-> action, on |-> d]
<1>1. audit' = audit \cup {row} /\ row.on = d /\ row.action = action
  BY DEF LogAction
<1>2. \A e \in Deposits \ {d} : SameRulings(e)
  BY <1>1 DEF SameRulings, Rulings
<1>3. action = "override" => SameRulings(d)
  BY <1>1 DEF SameRulings, Rulings
<1>4. action \in {"approve", "reject"} => Rulings(d)' = Rulings(d) \cup {row}
  BY <1>1 DEF Rulings
<1>5. QED
  BY <1>2, <1>3, <1>4 DEF NewRuling

(* What a step of a submission, or settlement, does to a transfer.         *)
LEMMA SubmitMoves ==
  ASSUME TypeOK, Unflagged, NEW d \in Deposits, RowsAreAccepted,
         \/ Create(d) \/ RefuseForm(d) \/ SubmitStep(d) \/ Abort(d) \/ Settle(d)
  PROVE  \A e \in Deposits : StepOf(e)
<1>0. /\ UNCHANGED audit
      /\ flag \in [Deposits -> FlagReasons]
  BY DEF Create, RefuseForm, SubmitStep, Abort, Settle, BeginValidation, VendorFails,
         Analyze, AnalyzeConflict, CheckRules, RefuseByRules, MarkCheck, SetContribution,
         AutoPost, AutoPostFails, store, rows, TypeOK
<1>1. CASE Create(d)
  <2>1. /\ Begun(d) /\ UNCHANGED flag
        /\ \A e \in Deposits \ {d} : Kept(e)
    BY <1>0, <1>1, RulingsKept DEF Create, Goto, RowsAreAccepted, Begun, Kept, TypeOK
  <2>2. QED
    BY <2>1 DEF StepOf
<1>2. CASE UNCHANGED <<status, history, flag>>
  BY <1>0, <1>2, RulingsKept DEF StepOf, Kept
<1>3. CASE BeginValidation(d) \/ VendorFails(d) \/ Analyze(d) \/ RefuseByRules(d) \/ Settle(d)
  <2>1. CASE UNCHANGED <<status, history>> /\ (UNCHANGED flag)
    BY <1>2, <2>1
  <2>2. CASE ~(UNCHANGED <<status, history>> /\ (UNCHANGED flag))
    <3>1. /\ \/ Transition(d, "requested", "validating", "system")
             \/ Transition(d, "validating", "analyzing", "system")
             \/ Transition(d, "validating", "rejected", "system")
             \/ Transition(d, "analyzing", "rejected", "system")
             \/ Transition(d, "funds_posted", "completed", "system:settlement")
          /\ \/ UNCHANGED flag
             \/ Transition(d, "validating", "analyzing", "system") /\ FlagColumn(d)
      BY <1>3, <2>2 DEF BeginValidation, VendorFails, Analyze, RefuseByRules, Settle,
                        UncheckedTransition, rows
    <3>2. /\ PlainMove(d)
          /\ \A e \in Deposits \ {d} : Kept(e)
      BY <1>0, <3>1, TransitionOf, RulingsKept DEF PlainMove, Kept
    <3>3. \A e \in Deposits : flag'[e] = flag[e] \/ status[e] = "validating"
      <4>1. CASE UNCHANGED flag
        BY <4>1
      <4>2. CASE Transition(d, "validating", "analyzing", "system") /\ FlagColumn(d)
        BY <1>0, <4>2 DEF FlagColumn, Transition, Holds
      <4>3. QED
        BY <3>1, <4>1, <4>2
    <3>4. QED
      BY <3>2, <3>3 DEF StepOf
  <2>3. QED
    BY <2>1, <2>2
<1>4. CASE AutoPost(d)
  <2>1. PostFunds(d, form[d].amount, "system") /\ UNCHANGED flag /\ flag[d] = "none"
    BY <1>4 DEF AutoPost, rows, Finish, Unflagged
  <2>2. /\ AutoPosted(d)
        /\ \A e \in Deposits \ {d} : Kept(e)
    BY <1>0, <2>1, PostFundsOf, RulingsKept DEF AutoPosted, Kept
  <2>3. QED
    BY <2>1, <2>2 DEF StepOf
<1>5. CASE \/ RefuseForm(d) \/ AnalyzeConflict(d) \/ CheckRules(d) \/ MarkCheck(d)
           \/ SetContribution(d) \/ AutoPostFails(d) \/ Abort(d)
  <2>1. UNCHANGED <<status, history, flag>>
    BY <1>5 DEF RefuseForm, AnalyzeConflict, CheckRules, MarkCheck, SetContribution,
                AutoPostFails, Abort, store
  <2>2. QED
    BY <1>2, <2>1
<1>6. QED
  BY <1>1, <1>3, <1>4, <1>5 DEF SubmitStep

(* What a step of an operator request does to a transfer.                  *)
LEMMA ReviewMoves ==
  ASSUME TypeOK, HeldIsCurrent, NEW o \in Reviews,
         \/ ReadToApprove(o) \/ ReadToReject(o) \/ ReadToOverride(o) \/ ReadToReturn(o)
         \/ ReviewStep(o) \/ ReviewDies(o)
  PROVE  \A e \in Deposits : StepOf(e)
<1>0. about[o] \in Deposits
  BY DEF TypeOK
<1>1. UNCHANGED flag
  BY DEF ReadToApprove, ReadToReject, ReadToOverride, ReadToReturn, ReviewStep,
         CommitApprove, CommitReject, CommitOverride, CommitReturn, Notify, ReviewDies,
         store, rows
<1>2. CASE UNCHANGED <<status, history, audit>>
  BY <1>1, <1>2, RulingsKept DEF StepOf, Kept
<1>3. CASE CommitApprove(o) /\ ~UNCHANGED <<status, history, audit>>
  <2>1. /\ rpc[o] = "approve"
        /\ PostFunds(about[o], held[o], "reviewer")
        /\ LogAction(o, "approve", about[o])
    BY <1>3 DEF CommitApprove, Review
  <2>2. flag[about[o]] # "none"
    BY <2>1 DEF HeldIsCurrent
  <2>3. /\ ApprovedBy(about[o])
        /\ \A e \in Deposits \ {about[o]} : Kept(e)
    BY <1>0, <2>1, <2>2, PostFundsOf, RulingsLogged DEF ApprovedBy, Kept
  <2>4. QED
    BY <1>1, <2>3 DEF StepOf
<1>4. CASE CommitReject(o) /\ ~UNCHANGED <<status, history, audit>>
  <2>1. /\ Transition(about[o], "analyzing", "rejected", "reviewer")
        /\ LogAction(o, "reject", about[o])
    BY <1>4 DEF CommitReject
  <2>2. /\ RejectedBy(about[o])
        /\ \A e \in Deposits \ {about[o]} : Kept(e)
    BY <1>0, <2>1, TransitionOf, RulingsLogged DEF RejectedBy, Kept
  <2>3. QED
    BY <1>1, <2>2 DEF StepOf
<1>5. CASE CommitReturn(o) /\ ~UNCHANGED <<status, history, audit>>
  <2>1. /\ Transition(about[o], "completed", "returned", "operator")
        /\ UNCHANGED audit
    BY <1>5 DEF CommitReturn, ReturnFunds
  <2>2. /\ PlainMove(about[o])
        /\ \A e \in Deposits \ {about[o]} : Kept(e)
    BY <1>0, <2>1, TransitionOf, RulingsKept DEF PlainMove, Kept
  <2>3. QED
    BY <1>1, <2>2 DEF StepOf
<1>6. CASE CommitOverride(o) /\ ~UNCHANGED <<status, history, audit>>
  <2>1. UNCHANGED <<status, history>> /\ LogAction(o, "override", about[o])
    BY <1>6 DEF CommitOverride
  <2>2. \A e \in Deposits : Kept(e)
    BY <1>0, <2>1, RulingsLogged DEF Kept
  <2>3. QED
    BY <1>1, <2>2 DEF StepOf
<1>7. CASE \/ ReadToApprove(o) \/ ReadToReject(o) \/ ReadToOverride(o) \/ ReadToReturn(o)
           \/ Notify(o) \/ ReviewDies(o)
  <2>1. UNCHANGED <<status, history, audit>>
    BY <1>7 DEF ReadToApprove, ReadToReject, ReadToOverride, ReadToReturn, Notify,
                ReviewDies, store
  <2>2. QED
    BY <1>2, <2>1
<1>8. QED
  BY <1>2, <1>3, <1>4, <1>5, <1>6, <1>7 DEF ReviewStep

(* Every step is one of those, for every transfer.                         *)
LEMMA StepMoves ==
  ASSUME LedgerInv, Unflagged, [Next]_vars
  PROVE  \A d \in Deposits : StepOf(d)
<1>1. TypeOK /\ RowsAreAccepted /\ HeldIsCurrent
  BY DEF LedgerInv
<1>2. CASE UNCHANGED vars \/ Quiet
  BY <1>2, RulingsKept DEF Quiet, vars, store, StepOf, Kept
<1>3. ASSUME NEW d \in Deposits,
             Create(d) \/ RefuseForm(d) \/ SubmitStep(d) \/ Abort(d) \/ Settle(d)
      PROVE  \A e \in Deposits : StepOf(e)
  BY <1>1, <1>3, SubmitMoves
<1>4. ASSUME NEW o \in Reviews,
             \/ ReadToApprove(o) \/ ReadToReject(o) \/ ReadToOverride(o) \/ ReadToReturn(o)
             \/ ReviewStep(o) \/ ReviewDies(o)
      PROVE  \A e \in Deposits : StepOf(e)
  BY <1>1, <1>4, ReviewMoves
<1>5. QED
  BY <1>2, <1>3, <1>4 DEF Next

(* The flag is set by the last step of a submission that gets one.         *)
LEMMA UnflaggedKept ==
  ASSUME TypeOK, Unflagged, [Next]_vars
  PROVE  Unflagged'
<1>0. /\ flag \in [Deposits -> FlagReasons]
      /\ pc \in [Deposits -> SubmitSteps]
  BY DEF TypeOK
<1>1. CASE UNCHANGED flag /\ \A d \in Deposits : pc'[d] # "done" => pc[d] # "done"
  BY <1>1 DEF Unflagged
<1>2. ASSUME NEW d \in Deposits, Analyze(d) PROVE Unflagged'
  <2>1. /\ \A e \in Deposits \ {d} : flag'[e] = flag[e] /\ pc'[e] = pc[e]
        /\ pc[d] = "vendor"
        /\ flag'[d] = "none" \/ pc'[d] = "done" \/ flag'[d] = flag[d]
    BY <1>0, <1>2 DEF Analyze, FlagColumn, NeedsReview, Goto, Finish
  <2>2. QED
    BY <2>1 DEF Unflagged
<1>3. ASSUME NEW d \in Deposits,
             \/ Create(d) \/ RefuseForm(d) \/ SubmitStep(d) \/ Abort(d) \/ Settle(d)
      PROVE  Unflagged'
  <2>1. CASE ~Analyze(d)
    <3>1. UNCHANGED flag
      BY <1>3, <2>1 DEF Create, RefuseForm, SubmitStep, Abort, Settle, BeginValidation,
           VendorFails, AnalyzeConflict, CheckRules, RefuseByRules, MarkCheck,
           SetContribution, AutoPost, AutoPostFails, store, rows
    <3>2. pc[d] # "done" \/ UNCHANGED pc
      BY <1>3, <2>1 DEF Create, RefuseForm, SubmitStep, Abort, Settle, BeginValidation,
           VendorFails, AnalyzeConflict, CheckRules, RefuseByRules, MarkCheck,
           SetContribution, AutoPost, AutoPostFails, Goto, Finish, submitVars
    <3>3. \A e \in Deposits \ {d} : pc'[e] = pc[e]
      BY <1>0, <1>3, <2>1 DEF Create, RefuseForm, SubmitStep, Abort, Settle, BeginValidation,
           VendorFails, AnalyzeConflict, CheckRules, RefuseByRules, MarkCheck,
           SetContribution, AutoPost, AutoPostFails, Goto, Finish, submitVars
    <3>4. QED
      BY <1>1, <3>1, <3>2, <3>3
  <2>2. QED
    BY <1>2, <2>1
<1>4. ASSUME NEW o \in Reviews,
             \/ ReadToApprove(o) \/ ReadToReject(o) \/ ReadToOverride(o) \/ ReadToReturn(o)
             \/ ReviewStep(o) \/ ReviewDies(o)
      PROVE  Unflagged'
  <2>1. UNCHANGED flag /\ UNCHANGED pc
    BY <1>4 DEF ReadToApprove, ReadToReject, ReadToOverride, ReadToReturn, ReviewStep,
         CommitApprove, CommitReject, CommitOverride, CommitReturn, Notify, ReviewDies,
         store, rows, submitVars
  <2>2. QED
    BY <1>1, <2>1
<1>5. CASE UNCHANGED vars \/ Quiet
  BY <1>1, <1>5 DEF Quiet, vars, store, submitVars
<1>6. QED
  BY <1>3, <1>4, <1>5 DEF Next

(* h is an unbroken path of permitted moves that ends at now.              *)
PathTo(h, now) ==
  /\ h = << >> => now \in {NoRow, "requested"}
  /\ h # << >> => h[1].from = "requested" /\ h[Len(h)].to = now
  /\ \A i \in 1 .. Len(h) : IsValid(h[i].from, h[i].to)
  /\ \A i \in 1 .. Len(h) - 1 : h[i].to = h[i + 1].from

(* Appending to a path a permitted move from where it ends makes a path.   *)
LEMMA PathGrows ==
  ASSUME NEW h \in Seq(Moves), NEW from \in Statuses, NEW to \in Statuses, NEW by \in Origins,
         PathTo(h, from), IsValid(from, to)
  PROVE  PathTo(Append(h, Move(from, to, by)), to)
<1> DEFINE m == Move(from, to, by)
           g == Append(h, m)
<1>1. m \in Moves /\ m.from = from /\ m.to = to
  BY DEF Move, Moves
<1> HIDE DEF m
<1>2. /\ g \in Seq(Moves) /\ g # << >> /\ Len(g) = Len(h) + 1
      /\ \A i \in 1 .. Len(h) : g[i] = h[i]
      /\ g[Len(h) + 1] = m
  BY <1>1, AppendProperties
<1> HIDE DEF g
<1>3. Len(h) \in Nat
  OBVIOUS
<1>4. h = << >> => from = "requested"
  BY DEF PathTo, NoRow, Statuses
<1>5. g[1].from = "requested"
  <2>1. CASE h = << >>
    BY <1>1, <1>2, <1>4, <2>1
  <2>2. CASE h # << >>
    BY <1>2, <1>3, <2>2 DEF PathTo
  <2>3. QED
    BY <2>1, <2>2
<1>6. g[Len(g)].to = to
  BY <1>1, <1>2
<1>7. \A i \in 1 .. Len(g) : IsValid(g[i].from, g[i].to)
  BY <1>1, <1>2, <1>3 DEF PathTo
<1>8. ASSUME NEW i \in 1 .. Len(g) - 1 PROVE g[i].to = g[i + 1].from
  <2>1. CASE i = Len(h)
    <3>1. h # << >> /\ h[Len(h)].to = from
      BY <2>1, <1>2, <1>3 DEF PathTo
    <3>2. QED
      BY <1>1, <1>2, <1>3, <2>1, <3>1
  <2>2. CASE i # Len(h)
    <3>1. i \in 1 .. Len(h) - 1 /\ i + 1 \in 1 .. Len(h)
      BY <1>2, <1>3, <2>2
    <3>2. QED
      BY <1>2, <3>1 DEF PathTo
  <2>3. QED
    BY <2>1, <2>2
<1>9. PathTo(g, to)
  BY <1>2, <1>5, <1>6, <1>7, <1>8 DEF PathTo
<1>10. QED
  BY <1>9 DEF g, m

(* Someone moved a transfer with history h to a status.                    *)
DecidedIn(h, by, to) == \E i \in 1 .. Len(h) : h[i].by = by /\ h[i].to = to

(* What is decided after a move: what was before, and the move itself.     *)
LEMMA DecidedGrows ==
  ASSUME NEW h \in Seq(Moves), NEW from \in Statuses, NEW to \in Statuses, NEW by \in Origins
  PROVE  LET g == Append(h, Move(from, to, by)) IN
         /\ g \in Seq(Moves)
         /\ \A b, t : DecidedIn(g, b, t) <=> DecidedIn(h, b, t) \/ (b = by /\ t = to)
<1> DEFINE m == Move(from, to, by)
           g == Append(h, m)
<1>1. m \in Moves /\ m.to = to /\ m.by = by
  BY DEF Move, Moves
<1> HIDE DEF m
<1>2. /\ g \in Seq(Moves) /\ Len(g) = Len(h) + 1
      /\ \A i \in 1 .. Len(h) : g[i] = h[i]
      /\ g[Len(h) + 1] = m
  BY <1>1, AppendProperties
<1> HIDE DEF g
<1>3. Len(h) \in Nat
  OBVIOUS
<1>4. ASSUME NEW b, NEW t
      PROVE  DecidedIn(g, b, t) <=> DecidedIn(h, b, t) \/ (b = by /\ t = to)
  <2>1. DecidedIn(g, b, t) => DecidedIn(h, b, t) \/ (b = by /\ t = to)
    BY <1>1, <1>2, <1>3 DEF DecidedIn
  <2>2. DecidedIn(h, b, t) => DecidedIn(g, b, t)
    BY <1>2, <1>3 DEF DecidedIn
  <2>3. b = by /\ t = to => DecidedIn(g, b, t)
    BY <1>1, <1>2, <1>3 DEF DecidedIn
  <2>4. QED
    BY <2>1, <2>2, <2>3
<1>5. QED
  BY <1>2, <1>4 DEF g, m

(* What history, rulings and flag of a transfer say of its status.         *)
Ruled(d) ==
  /\ \A r, s \in Rulings(d) : r = s
  /\ (\E r \in Rulings(d) : r.action = "approve") <=> Decided(d, "reviewer", "approved")
  /\ (\E r \in Rulings(d) : r.action = "reject") <=> Decided(d, "reviewer", "rejected")
  /\ Decided(d, "reviewer", "approved") => status[d] \in Funded
  /\ Decided(d, "reviewer", "rejected") => status[d] = "rejected"
  /\ status[d] \in Funded => (flag[d] # "none" <=> Decided(d, "reviewer", "approved"))

HistoryInv ==
  \A d \in Deposits : PathTo(history[d], status[d]) /\ Ruled(d)

(* A plain move ends no path, decides nothing and rules on nothing.        *)
LEMMA PlainMoveKeeps ==
  ASSUME TypeOK, NEW d \in Deposits, PathTo(history[d], status[d]), Ruled(d),
         NEW from \in Statuses, NEW to \in Statuses,
         NEW by \in {"system", "operator", "system:settlement"},
         Moved(d, from, to, by), SameRulings(d),
         from \in Funded <=> to \in Funded,
         flag'[d] = flag[d] \/ status[d] = "validating"
  PROVE  PathTo(history[d], status[d])' /\ Ruled(d)'
<1>1. history[d] \in Seq(Moves) /\ by \in Origins
  BY DEF TypeOK, Origins
<1> DEFINE grown == Append(history[d], Move(from, to, by))
<1>2. /\ status[d] = from /\ IsValid(from, to)
      /\ status'[d] = to /\ history'[d] = grown
  BY DEF Moved
<1>3. PathTo(history[d], from)
  BY <1>2
<1>4. PathTo(grown, to)
  BY <1>1, <1>2, <1>3, PathGrows
<1>5. \A b, t : DecidedIn(grown, b, t) <=> DecidedIn(history[d], b, t) \/ (b = by /\ t = to)
  BY <1>1, DecidedGrows
<1> HIDE DEF grown
<1>6. PathTo(history[d], status[d])'
  BY <1>2, <1>4 DEF PathTo
<1>7. \A t \in {"approved", "rejected"} :
        Decided(d, "reviewer", t)' <=> Decided(d, "reviewer", t)
  <2> TAKE t \in {"approved", "rejected"}
  <2>1. DecidedIn(grown, "reviewer", t) <=> DecidedIn(history[d], "reviewer", t)
    BY <1>5
  <2>2. QED
    BY <1>2, <2>1 DEF Decided, DecidedIn
<1>8. Rulings(d)' = Rulings(d)
  BY DEF SameRulings
<1>9. status'[d] \in Funded => status[d] \in Funded /\ flag'[d] = flag[d]
  BY DEF Moved, Funded, Credited
<1>10. status[d] \in Funded => status'[d] \in Funded
  BY DEF Moved
<1>11. status[d] # "rejected"
  BY DEF Moved, IsValid, Allowed, Statuses
<1>12. QED
  BY <1>6, <1>7, <1>8, <1>9, <1>10, <1>11 DEF Ruled

(* Nothing has been ruled on a transfer that is still under analysis.      *)
LEMMA OpenForRuling ==
  ASSUME NEW d \in Deposits, Ruled(d), status[d] = "analyzing"
  PROVE  /\ Rulings(d) = {}
         /\ ~Decided(d, "reviewer", "approved")
         /\ ~Decided(d, "reviewer", "rejected")
<1>1. ~Decided(d, "reviewer", "approved") /\ ~Decided(d, "reviewer", "rejected")
  BY DEF Ruled, Funded, Credited
<1>2. \A r \in Rulings(d) : r.action \in {"approve", "reject"}
  BY DEF Rulings
<1>3. QED
  BY <1>1, <1>2 DEF Ruled

(* One step keeps HistoryInv for one transfer.                             *)
LEMMA StepKeepsHistory ==
  ASSUME TypeOK, NEW d \in Deposits, PathTo(history[d], status[d]), Ruled(d), StepOf(d)
  PROVE  PathTo(history[d], status[d])' /\ Ruled(d)'
<1>0. /\ history[d] \in Seq(Moves)
      /\ {"analyzing", "approved", "funds_posted", "rejected"} \subseteq Statuses
      /\ {"system", "reviewer"} \subseteq Origins
  BY DEF TypeOK, Statuses, Origins
<1>1. CASE Kept(d)
  <2>1. /\ status'[d] = status[d] /\ history'[d] = history[d]
        /\ Rulings(d)' = Rulings(d)
        /\ status[d] \in Funded => flag'[d] = flag[d]
    BY <1>1 DEF Kept, SameRulings, StepOf, Funded, Credited
  <2>2. QED
    BY <2>1 DEF PathTo, Ruled, Decided
<1>2. CASE Begun(d)
  <2>1. /\ status[d] = NoRow /\ status'[d] = "requested" /\ history'[d] = history[d]
        /\ Rulings(d)' = Rulings(d)
    BY <1>2 DEF Begun, SameRulings
  <2>2. history[d] = << >>
    <3>1. ASSUME history[d] # << >> PROVE FALSE
      <4>1. Len(history[d]) \in 1 .. Len(history[d])
        BY <1>0, <3>1
      <4>2. history[d][Len(history[d])].to = NoRow
        BY <2>1, <3>1 DEF PathTo
      <4>3. history[d][Len(history[d])] \in Moves
        BY <1>0, <4>1
      <4>4. QED
        BY <4>2, <4>3 DEF Moves, Statuses, NoRow
    <3>2. QED
      BY <3>1
  <2>3. PathTo(history[d], status[d])'
    BY <2>1, <2>2 DEF PathTo
  <2>4. \A b, t : ~Decided(d, b, t) /\ ~Decided(d, b, t)'
    BY <2>1, <2>2 DEF Decided
  <2>5. QED
    BY <2>1, <2>3, <2>4 DEF Ruled, Funded, Credited
<1>3. CASE PlainMove(d)
  <2>1. SameRulings(d) /\ (flag'[d] = flag[d] \/ status[d] = "validating")
    BY <1>3 DEF PlainMove, StepOf
  <2>2. PICK from \in Statuses, to \in Statuses,
             by \in {"system", "operator", "system:settlement"} :
          Moved(d, from, to, by) /\ (from \in Funded <=> to \in Funded)
    BY <1>3 DEF PlainMove, Statuses, Funded, Credited
  <2>3. QED
    BY <2>1, <2>2, PlainMoveKeeps
<1>4. CASE RejectedBy(d)
  <2>1. /\ status[d] = "analyzing" /\ status'[d] = "rejected"
        /\ IsValid("analyzing", "rejected")
        /\ history'[d] = Append(history[d], Move("analyzing", "rejected", "reviewer"))
    BY <1>4 DEF RejectedBy, Moved
  <2>2. PICK o \in Reviews :
          Rulings(d)' = Rulings(d) \cup {[req |-> o, action |-> "reject", on |-> d]}
    BY <1>4 DEF RejectedBy, NewRuling
  <2>3. PathTo(history[d], status[d])'
    BY <1>0, <2>1, PathGrows DEF PathTo
  <2>4. /\ Decided(d, "reviewer", "rejected")'
        /\ ~Decided(d, "reviewer", "approved")'
    <3> DEFINE grown == Append(history[d], Move("analyzing", "rejected", "reviewer"))
    <3>1. \A b, t : DecidedIn(grown, b, t) <=>
                      DecidedIn(history[d], b, t) \/ (b = "reviewer" /\ t = "rejected")
      BY <1>0, DecidedGrows
    <3>2. history'[d] = grown
      BY <2>1
    <3> HIDE DEF grown
    <3>3. DecidedIn(grown, "reviewer", "rejected")
      BY <3>1
    <3>4. DecidedIn(grown, "reviewer", "approved") <=> DecidedIn(history[d], "reviewer", "approved")
      BY <3>1
    <3>5. ~Decided(d, "reviewer", "approved")
      BY <2>1, OpenForRuling
    <3>6. QED
      BY <3>2, <3>3, <3>4, <3>5 DEF Decided, DecidedIn
  <2>5. Rulings(d)' = {[req |-> o, action |-> "reject", on |-> d]}
    BY <2>1, <2>2, OpenForRuling
  <2>6. status'[d] \notin Funded
    BY <2>1 DEF Funded, Credited
  <2>7. QED
    BY <2>1, <2>3, <2>4, <2>5, <2>6 DEF Ruled
<1>5. ASSUME NEW by \in {"system", "reviewer"}, Posted(d, by)
      PROVE  /\ status[d] = "analyzing" /\ status'[d] \in Funded
             /\ status'[d] # "rejected"
             /\ flag'[d] = flag[d]
             /\ PathTo(history[d], status[d])'
             /\ Decided(d, "reviewer", "approved")' <=> by = "reviewer"
             /\ ~Decided(d, "reviewer", "rejected")'
  <2>1. /\ status[d] = "analyzing" /\ status'[d] = "funds_posted"
        /\ history'[d] = Append(Append(history[d], Move("analyzing", "approved", by)),
                                Move("approved", "funds_posted", by))
        /\ flag'[d] = flag[d]
    BY <1>5 DEF Posted, StepOf
  <2>2. IsValid("analyzing", "approved") /\ IsValid("approved", "funds_posted")
    BY DEF IsValid, Allowed, Statuses
  <2> DEFINE mid == Append(history[d], Move("analyzing", "approved", by))
  <2>3. /\ mid \in Seq(Moves)
        /\ PathTo(mid, "approved")
        /\ \A b, t : DecidedIn(mid, b, t) <=>
                       DecidedIn(history[d], b, t) \/ (b = by /\ t = "approved")
    BY <1>0, <2>1, <2>2, PathGrows, DecidedGrows
  <2> HIDE DEF mid
  <2>4. /\ PathTo(Append(mid, Move("approved", "funds_posted", by)), "funds_posted")
        /\ \A b, t : DecidedIn(Append(mid, Move("approved", "funds_posted", by)), b, t) <=>
                       DecidedIn(mid, b, t) \/ (b = by /\ t = "funds_posted")
    BY <1>0, <2>2, <2>3, PathGrows, DecidedGrows
  <2>5. history'[d] = Append(mid, Move("approved", "funds_posted", by))
    BY <2>1 DEF mid
  <2>6. PathTo(history[d], status[d])'
    BY <2>1, <2>4, <2>5 DEF PathTo
  <2>7. \A t \in {"approved", "rejected"} :
          Decided(d, "reviewer", t)' <=>
            Decided(d, "reviewer", t) \/ (by = "reviewer" /\ t = "approved")
    <3> TAKE t \in {"approved", "rejected"}
    <3> DEFINE grown == Append(mid, Move("approved", "funds_posted", by))
    <3>1. DecidedIn(grown, "reviewer", t) <=>
            DecidedIn(history[d], "reviewer", t) \/ (by = "reviewer" /\ t = "approved")
      BY <2>3, <2>4
    <3>2. history'[d] = grown
      BY <2>5
    <3> HIDE DEF grown
    <3>3. QED
      BY <3>1, <3>2 DEF Decided, DecidedIn
  <2>8. QED
    BY <2>1, <2>6, <2>7, OpenForRuling DEF Funded, Credited
<1>6. CASE AutoPosted(d)
  <2>1. Posted(d, "system") /\ flag[d] = "none" /\ Rulings(d)' = Rulings(d)
    BY <1>6 DEF AutoPosted, SameRulings
  <2>2. QED
    BY <1>5, <2>1, OpenForRuling DEF Ruled
<1>7. CASE ApprovedBy(d)
  <2>1. Posted(d, "reviewer") /\ flag[d] # "none"
    BY <1>7 DEF ApprovedBy
  <2>2. PICK o \in Reviews :
          Rulings(d)' = Rulings(d) \cup {[req |-> o, action |-> "approve", on |-> d]}
    BY <1>7 DEF ApprovedBy, NewRuling
  <2>3. Rulings(d)' = {[req |-> o, action |-> "approve", on |-> d]}
    BY <1>5, <2>1, <2>2, OpenForRuling
  <2>4. QED
    BY <1>5, <2>1, <2>3 DEF Ruled
<1>8. QED
  BY <1>1, <1>2, <1>3, <1>4, <1>6, <1>7 DEF StepOf

(* HistoryInv holds in every reachable state.                              *)
THEOREM HistoryInvariant == Spec => [](LedgerInv /\ Unflagged /\ HistoryInv)
<1>1. Init => Unflagged /\ HistoryInv
  <2> SUFFICES ASSUME Init, NEW d \in Deposits
               PROVE  flag[d] = "none" /\ PathTo(history[d], status[d]) /\ Ruled(d)
    BY DEF Unflagged, HistoryInv
  <2>1. history[d] = << >> /\ status[d] = NoRow /\ flag[d] = "none" /\ audit = {}
    BY DEF Init
  <2>2. PathTo(history[d], status[d])
    BY <2>1 DEF PathTo
  <2>3. Rulings(d) = {} /\ \A b, t : ~Decided(d, b, t)
    BY <2>1 DEF Rulings, Decided
  <2>4. QED
    BY <2>1, <2>2, <2>3 DEF Ruled, Funded, Credited, NoRow
<1>2. LedgerInv /\ Unflagged /\ HistoryInv /\ [Next]_vars => Unflagged' /\ HistoryInv'
  BY StepMoves, UnflaggedKept, StepKeepsHistory DEF HistoryInv, LedgerInv
<1>3. QED
  BY <1>1, <1>2, LedgerInvariant, PTL DEF Spec

(* state_transitions of every transfer is an unbroken path of permitted    *)
(* moves that ends at its status (Machine.Transition and its users).       *)
THEOREM HistoryPath == Spec => []HistoryIsPath
<1>1. HistoryInv => HistoryIsPath
  BY DEF HistoryInv, PathTo, HistoryIsPath
<1>2. QED
  BY <1>1, HistoryInvariant, PTL

(* Racing operators leave one ruling per transfer, and its audit row is    *)
(* there exactly when its move is (operator.Approve, operator.Reject).     *)
THEOREM OneAuditedRuling == Spec => []RulingsAreAudited
<1>1. HistoryInv => RulingsAreAudited
  BY DEF HistoryInv, Ruled, RulingsAreAudited
<1>2. QED
  BY <1>1, HistoryInvariant, PTL

(* A flagged deposit is funded by an operator's approval only, any other   *)
(* by the pipeline only.                                                   *)
THEOREM FlaggedReviewed == Spec => []FlaggedNeedsReview
<1>1. HistoryInv => FlaggedNeedsReview
  BY DEF HistoryInv, Ruled, FlaggedNeedsReview
<1>2. QED
  BY <1>1, HistoryInvariant, PTL
===============================================================================
