------------------------------ MODULE MCReturns ------------------------------
(***************************************************************************)
(* The custody of an item at the locker: its collection, its return, and the *)
(* report about the return.  The three share no state a step of another     *)
(* reads (Returns and Pickup keep the cell of their own items): one run     *)
(* starts in any of them and stays there.                                   *)
(***************************************************************************)
EXTENDS Returns, ReturnReport, Pickup, TLC
CONSTANTS r1, r2, r3, u1, u2
VARIABLE focus

(* r1 and r2 are out; r3 will be the next rental of the unit of r1.  Both    *)
(* units were last taken out of cell 1.                                     *)
UnitOf3 == r1 :> u1 @@ r2 :> u2 @@ r3 :> u1
FirstCell == [u \in Units |-> 1]

Budget(n, v, r, a, s) ==
  [returns |-> n, visits |-> v, resets |-> r, acts |-> a, shared |-> s, slow |-> FALSE]
SmallBudgets ==
  {Budget(2, 1, 0, 0, FALSE), Budget(2, 0, 1, 1, FALSE), Budget(2, 0, 1, 0, TRUE),
   Budget(1, 0, 0, 2, TRUE), Budget(1, 0, 0, 3, FALSE), Budget(1, 1, 0, 2, FALSE)}

SmallPickups ==
  {[resets |-> 1, visits |-> 1, faults |-> 1, overlap |-> FALSE]}

AtDoorInit ==
  /\ ReturnsInit /\ ReportInit /\ PickupInit
  /\ focus \in {"cells", "report", "pickup"}
  /\ focus # "cells" => budget = Budget(2, 1, 0, 0, FALSE)
AtDoorNext ==
  \/ /\ focus = "cells" /\ ReturnsNext
     /\ UNCHANGED <<reportVars, pickupVars, focus>>
  \/ /\ focus = "report" /\ ReportNext
     /\ UNCHANGED <<returnVars, pickupVars, focus>>
  \/ /\ focus = "pickup" /\ PickupNext
     /\ UNCHANGED <<returnVars, reportVars, focus>>
AtDoorSpec ==
  /\ AtDoorInit /\ [][AtDoorNext]_<<returnVars, reportVars, pickupVars, focus>>
  /\ \/ focus = "report"
     \/ focus = "cells" /\ ReturnsFairness
     \/ focus = "pickup" /\ PickupFairness
(* Every variable of the three components has its type.                     *)
ReturnTypes == ReturnsTypeOK /\ ReportTypeOK /\ PickupTypeOK
=============================================================================
