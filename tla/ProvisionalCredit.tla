--------------------------- MODULE ProvisionalCredit ---------------------------
(***************************************************************************)
(* What the system promises the holder of a check, with no request, lock,  *)
(* cache or operator in sight: a deposit is declined, or it is credited    *)
(* once with an amount within the limit, clears, and may then bounce, which *)
(* takes back exactly what was credited and one fee.  books is what        *)
(* ledger.Handler.GetByAccount adds up: credits positive, debits negative. *)
(***************************************************************************)
EXTENDS Integers, Sequences

CONSTANTS Deposits, Limit, Fee

VARIABLES stage, books

vars == <<stage, books>>

Stages == {"none", "received", "declined", "credited", "cleared", "bounced"}

Init ==
  /\ stage = [d \in Deposits |-> "none"]
  /\ books = [d \in Deposits |-> << >>]

Step(d, from, to) ==
  /\ stage[d] = from
  /\ stage' = [stage EXCEPT ![d] = to]

Receive(d) == Step(d, "none", "received") /\ UNCHANGED books

Decline(d) == Step(d, "received", "declined") /\ UNCHANGED books

Credit(d) ==
  /\ Step(d, "received", "credited")
  /\ \E a \in 1 .. Limit : books' = [books EXCEPT ![d] = <<a>>]

Clear(d) == Step(d, "credited", "cleared") /\ UNCHANGED books

Bounce(d) ==
  /\ Step(d, "cleared", "bounced")
  /\ books' = [books EXCEPT ![d] = <<@[1], -@[1], -Fee>>]

Next ==
  \E d \in Deposits : Receive(d) \/ Decline(d) \/ Credit(d) \/ Clear(d) \/ Bounce(d)

Spec == Init /\ [][Next]_vars
===============================================================================
