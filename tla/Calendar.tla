------------------------------ MODULE Calendar ------------------------------
(***************************************************************************)
(* The calendar of the product's page: the days it greys out, which one     *)
(* function computes, beside the check of the reservation itself, which     *)
(* another one makes (FreeUnits of Handover).  Both read the same rows; all  *)
(* the units of Handover are of one product at one locker.                  *)
(***************************************************************************)
EXTENDS Handover

(* The days a reservation holds: its last one is greyed out too, the rental  *)
(* ends in the middle of it.                                                *)
DaysOfReservation(r) ==
  IF IsActive(r) THEN booking[r].start..(booking[r].start + Days) ELSE {}

(* Mutant: the last day of a rental is free.                                *)
DaysOfRentalShort(r) ==
  LET d == rental[r]
      u == UnitOf(r)
  IN CASE d.status \in AwaitingPickup -> Sooner(d.from, today)..d.till
       [] d.status = "ACTIVE" ->
            d.from..(IF inCell[u] THEN d.till - 2 ELSE Later(d.till - 2, today))
       [] d.status = "COMPLETED" /\ unit[u] # "AVAILABLE" -> d.from..(d.till - 2)
       [] OTHER -> {}

(* The days a rental holds.  An item set aside for a pickup is given to      *)
(* nobody before it, one that is late is out until now, a finished rental    *)
(* counts until an operator has checked the item.                           *)
DaysOfRental(r) ==
  LET d == rental[r]
      u == UnitOf(r)
  IN CASE d.status \in AwaitingPickup -> Sooner(d.from, today)..d.till
       [] d.status = "ACTIVE" ->
            d.from..(IF inCell[u] THEN d.till - 1 ELSE Later(d.till - 1, today))
       [] d.status = "COMPLETED" /\ unit[u] # "AVAILABLE" -> d.from..(d.till - 1)
       [] OTHER -> {}

(* compute_busy_dates_for_product                                           *)
BusyDays == UNION {DaysOfReservation(r) \cup DaysOfRental(r) : r \in Reservations}

(* bookableUnits of load_available_lockers_for_product: without any the page *)
(* does not offer the locker.                                               *)
Bookable ==
  {u \in Units :
     \/ inCell[u] /\ unit[u] # "AWAITING_CONFIRMATION"
     \/ ~inCell[u] /\ unit[u] = "RENTED"
          /\ \E r \in Reservations : UnitOf(r) = u /\ IsUnfinished(r)}

(* RentalDateRangePicker: a range is chosen by its first and its last day,   *)
(* and neither they nor the days between may be busy (hasBusyBetween).       *)
Offered(from) ==
  /\ Bookable # {}
  /\ from..(from + (IF Days = 1 THEN 0 ELSE Days)) \cap BusyDays = {}

Chooseable == {from \in today..LastDay : Offered(from)}

(* The day after a return is refused, and not greyed out, as long as the     *)
(* item is not AVAILABLE: the run of CalendarMatches shows it.               *)
DayAfterReturn(from) ==
  \E r \in Reservations :
    rental[r].status = "COMPLETED" /\ unit[UnitOf(r)] # "AVAILABLE"
      /\ from <= rental[r].till

(* Whatever the rows are, a range the calendar lets the client choose is one  *)
(* that the creation of the reservation finds a unit for, but for the day    *)
(* after a return.                                                          *)
CalendarHonest ==
  \A from \in Chooseable : DayAfterReturn(from) \/ FreeUnits(None, from) # {}

(* The rules are those of the check of overlaps in                          *)
(* _get_available_inventory_unit, or the calendar offers a date on which the *)
(* order fails (docstring of compute_busy_dates_for_product).               *)
CalendarMatches == \A from \in Chooseable : FreeUnits(None, from) # {}
=============================================================================
