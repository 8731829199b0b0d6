---------------------------- MODULE TransferStates ----------------------------
(***************************************************************************)
(* The states of a transfer and the table of permitted moves, as           *)
(* internal/state/states.go declares them and                              *)
(* internal/models/transfer.go names them.                                 *)
(***************************************************************************)

Statuses == {"requested", "validating", "analyzing", "approved",
             "funds_posted", "completed", "rejected", "returned"}

(* A transfer whose row has not been inserted yet. *)
NoRow == "absent"

Allowed ==
  [s \in Statuses |->
     CASE s = "requested"    -> {"validating"}
       [] s = "validating"   -> {"analyzing", "rejected"}
       [] s = "analyzing"    -> {"approved", "rejected"}
       [] s = "approved"     -> {"funds_posted", "rejected"}
       [] s = "funds_posted" -> {"completed"}
       [] s = "completed"    -> {"returned"}
       [] OTHER              -> {}]

IsValid(from, to) == from \in Statuses /\ to \in Allowed[from]

IsTerminal(s) == Allowed[s] = {}

(* The states in which the investor holds the provisional credit. *)
Credited == {"funds_posted", "completed"}

(* The states a transfer passes through once its funds have been posted. *)
Funded == Credited \cup {"returned"}
===============================================================================
