---------------------------- MODULE TransferStatus ----------------------------
(***************************************************************************)
(* The investor's view of one transfer (components/TransferStatus.jsx): a  *)
(* fetch when InvestorView hands it an id, a look-up form, and an interval *)
(* that polls while the transfer shown is not final.                       *)
(*                                                                         *)
(* `tracker' is the component's React state with its pollRef.  An answer   *)
(* sets state at once; the effect that depends on transfer?.status runs    *)
(* later, after the next paint, so several answers may come in between.    *)
(* A click or an edit has it run first.  A request carries the status the  *)
(* transfer had when it was sent, since the server may read the row at any *)
(* time from then until the answer.                                        *)
(***************************************************************************)
EXTENDS TransferStates, Api, FiniteSets

CONSTANTS Transfers,   \* the transfers somebody may look at
          NoId,        \* the empty id
          Edits,       \* bound: what may be typed into the id field
          Slots,       \* bound: requests of the view under way at once
          Moving,      \* bound: the transfers that move meanwhile
          Endings      \* bound: upsets after which the view is not followed

ASSUME TrackerAssumption ==
  /\ NoId \notin Transfers
  /\ Edits \subseteq Transfers \cup {NoId} /\ Slots \subseteq Nat
  /\ Moving \subseteq Transfers

VARIABLES posted,      \* the status of each transfer on the server
          tracker,     \* the component
          fetches      \* its requests under way

trackerVars == <<posted, tracker, fetches>>

(* For the properties only: what has happened to the view after which it   *)
(* does not promise all it did before (see the README).                    *)
(* "overlap": two of its requests were under way at once.                  *)
(* "mixed":   two requests for different transfers were.                   *)
(* "lapse":   a fetch failed, the id was cleared, another id was handed    *)
(*            over while a transfer was shown, or two answers within one   *)
(*            paint undid each other, so that no effect saw them.          *)
Upsets == {"overlap", "mixed", "lapse"}

TERMINAL_STATES == {"funds_posted", "completed", "rejected", "returned"}

NoTransfer == [id |-> NoId, status |-> NoRow]
NoFetch == [kind |-> "none"]
Ids == Transfers \cup {NoId}

FetchOf(id, kind, wasFinal) ==
  [kind |-> kind, id |-> id, sent |-> posted[id], wasFinal |-> wasFinal]

TrackerTypeOK ==
  /\ posted \in [Transfers -> Statuses]
  /\ tracker \in [prop : Ids, inputId : Ids, seenStatus : Statuses \cup {NoRow},
                  transfer : [id : Ids, status : Statuses \cup {NoRow}],
                  loading : BOOLEAN, error : BOOLEAN, pollRef : Ids,
                  strays : SUBSET Transfers, mounted : BOOLEAN, upsets : SUBSET Upsets]
  /\ fetches \in [Slots -> [kind : {"initial", "lookup", "poll"}, id : Transfers,
                            sent : Statuses, wasFinal : BOOLEAN] \cup {NoFetch}]

TrackerInit ==
  /\ posted = [t \in Transfers |-> "validating"]
  /\ tracker = [prop |-> NoId, inputId |-> NoId, transfer |-> NoTransfer,
                seenStatus |-> NoRow, loading |-> FALSE, error |-> FALSE,
                pollRef |-> NoId, strays |-> {}, mounted |-> TRUE, upsets |-> {}]
  /\ fetches = [k \in Slots |-> NoFetch]

-------------------------------------------------------------------------------
Free == {k \in Slots : fetches[k] = NoFetch}

(* Sends a request in a free slot.                                         *)
Send(f) ==
  LET k == CHOOSE j \in Free : TRUE IN
  /\ Free # {}
  /\ fetches' = [fetches EXCEPT ![k] = f]

UpsetIf(happens, what) == IF happens THEN {what} ELSE {}

(* Another request is under way when one for this transfer is sent.        *)
Overlap(t) ==
  UpsetIf(Free # Slots, "overlap")
    \cup UpsetIf(\E k \in Slots \ Free : fetches[k].id # t, "mixed")

stopPolling(v) == [v EXCEPT !.pollRef = NoId]

(* setInterval into pollRef: what pollRef held before is never cleared.    *)
setPoll(v, id) ==
  [v EXCEPT !.pollRef = id,
            !.strays = IF v.pollRef = NoId THEN @ ELSE @ \cup {v.pollRef}]

Intervals == (tracker.strays \cup {tracker.pollRef}) \ {NoId}

(* Mutant: a final answer does not stop the interval.                      *)
FetchedKeepsPolling(v, id, status) ==
  [v EXCEPT !.transfer = [id |-> id, status |-> status], !.error = FALSE]

(* The two ends of fetchTransfer.                                          *)
Fetched(v, id, status) ==
  LET w == [v EXCEPT !.transfer = [id |-> id, status |-> status], !.error = FALSE]
  IN  IF status \in TERMINAL_STATES THEN stopPolling(w) ELSE w

FetchFailed(v) == stopPolling([v EXCEPT !.error = TRUE])

(* What follows the await: the initial fetch and the look-up end loading,  *)
(* and a look-up polls unless the transfer rendered at the click was final.*)
AfterFetch(v, f) ==
  CASE f.kind = "poll"    -> v
    [] f.kind = "initial" -> [v EXCEPT !.loading = FALSE]
    [] OTHER -> IF f.wasFinal THEN [v EXCEPT !.loading = FALSE]
                ELSE setPoll([v EXCEPT !.loading = FALSE], f.id)

(* State set in a component that is gone is lost; its refs live on.        *)
Unmounted(v) ==
  IF v.mounted THEN v
  ELSE [v EXCEPT !.prop = NoId, !.inputId = NoId, !.transfer = NoTransfer,
                 !.error = FALSE, !.loading = FALSE, !.seenStatus = NoRow]

-------------------------------------------------------------------------------
(* React runs a pending effect before the render that an event causes.     *)
EffectPending == tracker.mounted /\ tracker.seenStatus # tracker.transfer.status
EffectsRun == tracker.mounted /\ tracker.seenStatus = tracker.transfer.status

(* InvestorView hands over another id: a row, a notice or a new deposit.   *)
(* The effect's cleanup stops polling, the effect itself fetches.          *)
SelectTransfer(t) ==
  /\ EffectsRun /\ t # tracker.prop
  /\ Send(FetchOf(t, "initial", FALSE))
  /\ tracker' = [stopPolling(tracker) EXCEPT
                   !.prop = t, !.inputId = t, !.loading = TRUE,
                   !.upsets = @ \cup Overlap(t)
                                \cup UpsetIf(tracker.transfer # NoTransfer, "lapse")]
  /\ UNCHANGED posted

EditId(t) ==
  /\ EffectsRun /\ t # tracker.inputId
  /\ tracker' = [tracker EXCEPT !.inputId = t, !.upsets = @ \cup UpsetIf(t = NoId, "lapse")]
  /\ UNCHANGED <<posted, fetches>>

CanLookUp == ~tracker.loading /\ tracker.inputId # NoId

handleLookup ==
  /\ EffectsRun /\ CanLookUp
  /\ Send(FetchOf(tracker.inputId, "lookup", tracker.transfer.status \in TERMINAL_STATES))
  /\ tracker' = [stopPolling(tracker) EXCEPT
                   !.loading = TRUE, !.error = FALSE, !.transfer = NoTransfer,
                   !.seenStatus = NoRow,
                   !.upsets = @ \cup Overlap(tracker.inputId)]
  /\ UNCHANGED posted

(* Mutant: the effect depends on the id of the transfer, not on its status.*)
EffectOnId ==
  LET v == [tracker EXCEPT !.seenStatus = tracker.transfer.status]
      polls == /\ tracker.seenStatus = NoRow /\ v.inputId # NoId
               /\ v.transfer.status \notin TERMINAL_STATES
  IN  /\ EffectPending
      /\ tracker' = IF polls THEN setPoll(stopPolling(v), v.inputId) ELSE v
      /\ UNCHANGED <<posted, fetches>>

(* The effect on [transfer?.status], run after a paint in which it changed.*)
StatusEffect ==
  LET v == [tracker EXCEPT !.seenStatus = tracker.transfer.status]
      polls == /\ v.transfer # NoTransfer
               /\ v.transfer.status \notin TERMINAL_STATES
               /\ v.inputId # NoId
  IN  /\ EffectPending
      /\ tracker' = IF polls THEN setPoll(stopPolling(v), v.inputId) ELSE v
      /\ UNCHANGED <<posted, fetches>>

(* An interval fires.                                                      *)
Tick(t) ==
  /\ t \in Intervals
  /\ Send(FetchOf(t, "poll", FALSE))
  /\ tracker' = [tracker EXCEPT !.upsets = @ \cup Overlap(t)]
  /\ UNCHANGED posted

(* The statuses the server may have answered a request with.               *)
Read(f) == {f.sent, posted[f.id]}

FetchAnswered(k) ==
  LET f == fetches[k] IN
  /\ f # NoFetch
  /\ fetches' = [fetches EXCEPT ![k] = NoFetch]
  /\ \E fails \in BOOLEAN :
       \/ /\ handleResponse(DepositCalls.getDeposit, fails) = "resolved"
          /\ \E s \in Read(f) :
               LET undone == EffectPending /\ s = tracker.seenStatus
                   v == [tracker EXCEPT !.upsets = @ \cup UpsetIf(undone, "lapse")]
               IN  tracker' = Unmounted(AfterFetch(Fetched(v, f.id, s), f))
       \/ /\ handleResponse(DepositCalls.getDeposit, fails) = "rejected"
          /\ tracker' = Unmounted(AfterFetch(
                           FetchFailed([tracker EXCEPT !.upsets = @ \cup {"lapse"}]), f))
  /\ UNCHANGED posted

(* Another tab, another role, or "Start New Deposit" on a returned check.  *)
LeaveTracker ==
  /\ EffectsRun
  /\ tracker' = Unmounted(stopPolling([tracker EXCEPT !.mounted = FALSE]))
  /\ UNCHANGED <<posted, fetches>>

(* Meanwhile the transfer moves; "approved" is never seen from outside the *)
(* transaction that posts the funds.                                       *)
VisibleMoves(s) ==
  UNION {IF r = "approved" THEN {"funds_posted"} ELSE {r} : r \in Allowed[s]}

TransferMoves(t) ==
  /\ \E s \in VisibleMoves(posted[t]) : posted' = [posted EXCEPT ![t] = s]
  /\ UNCHANGED <<tracker, fetches>>

Goes == tracker.upsets \cap Endings = {}

TrackerNext ==
  /\ Goes
  /\ \/ \E t \in Transfers : SelectTransfer(t)
     \/ \E t \in Edits : EditId(t)
     \/ handleLookup
     \/ StatusEffect
     \/ \E t \in Transfers : Tick(t)
     \/ \E k \in Slots : FetchAnswered(k)
     \/ LeaveTracker
     \/ \E t \in Moving : TransferMoves(t)

(* The browser runs effects and fires intervals; requests get an answer.   *)
TrackerFairness ==
  /\ WF_trackerVars(Goes /\ StatusEffect)
  /\ \A t \in Transfers : WF_trackerVars(Goes /\ Tick(t))
  /\ \A k \in Slots : WF_trackerVars(Goes /\ FetchAnswered(k))

TrackerSpec == TrackerInit /\ [][TrackerNext]_trackerVars /\ TrackerFairness

-------------------------------------------------------------------------------
(* The "polling" badge is on the screen.                                   *)
Polling == tracker.transfer # NoTransfer /\ tracker.transfer.status \notin TERMINAL_STATES

Behind == Polling /\ posted[tracker.transfer.id] # tracker.transfer.status

(* What the view shows as under way does not stay behind the server: the   *)
(* display follows, for every mix of look-ups, edits and effects, although *)
(* answers overtake each other and old ones stop the interval or put back  *)
(* what they read (fetchTransfer and both effects), until an upset that is *)
(* one of Endings.                                                         *)
FollowsTransfer == Behind ~> (~Behind \/ ~Goes)

(* A final transfer is left alone: the poll a look-up starts without       *)
(* knowing what it fetched ends with its first answer (handleLookup,       *)
(* fetchTransfer), unless requests overlap: the answer to a look-up may    *)
(* then set an interval beside one the effect has set meanwhile.           *)
FinalIsLeftAlone ==
  (tracker.transfer # NoTransfer /\ ~Polling)
    ~> (\/ Intervals = {} \/ Polling \/ tracker.transfer = NoTransfer
        \/ tracker.upsets # {})

(* "Transfer status polls every 2 seconds while non-terminal": a transfer  *)
(* shown as being polled, and no error beside it, has an interval or soon  *)
(* has one.                                                                *)
PollsWhileNonTerminal ==
  (Polling /\ ~tracker.error) ~> (Intervals # {} \/ ~Polling \/ tracker.error)
===============================================================================
