---------------------------- MODULE MoneyPromise ----------------------------
(***************************************************************************)
(* What the service promises about the money of its reservations, without  *)
(* rows, notifications, sessions or sweeps.  Money may be taken at any      *)
(* time; a reservation known to be paid becomes a rental while the money is *)
(* held, or closes once the money went back.  Several reservations may move *)
(* in one step: the expiry sweep commits a batch.                           *)
(***************************************************************************)
CONSTANT Reservations

VARIABLES
  stage,   \* stage[r]: "open", "paid" (known to be), "confirmed", "closed"
  money    \* money[r]: "none", "taken" or "returned"

promise == <<stage, money>>

Init ==
  /\ stage = [r \in Reservations |-> "open"]
  /\ money = [r \in Reservations |-> "none"]

(* The moves of one reservation; the refund and the closing may be one.     *)
Moves(r, stageTo, moneyTo) ==
  /\ stage'[r] = stageTo
  /\ money'[r] = moneyTo

Pay(r) == money[r] = "none" /\ Moves(r, stage[r], "taken")

Recognise(r) ==
  stage[r] = "open" /\ money[r] = "taken" /\ Moves(r, "paid", "taken")

Confirm(r) ==
  stage[r] = "paid" /\ money[r] = "taken" /\ Moves(r, "confirmed", "taken")

Return(r) ==
  /\ stage[r] = "paid" /\ money[r] = "taken"
  /\ Moves(r, "paid", "returned") \/ Moves(r, "closed", "returned")

Close(r) ==
  /\ stage[r] = "open" \/ (stage[r] = "paid" /\ money[r] = "returned")
  /\ Moves(r, "closed", money[r])

Next ==
  \A r \in Reservations :
    \/ Pay(r) \/ Recognise(r) \/ Confirm(r) \/ Return(r) \/ Close(r)
    \/ Moves(r, stage[r], money[r])

Spec == Init /\ [][Next]_promise
=============================================================================
