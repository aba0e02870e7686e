------------------------------ MODULE Handover ------------------------------
(***************************************************************************)
(* The queue for an item.  Clients book a unit by calendar, also while it   *)
(* is with somebody else; a paid reservation becomes a rental, that is a    *)
(* PIN on a cell, only when the unit lies in its cell and nobody is ahead.  *)
(* Reservations and rentals end by expiry sweeps, by cancellation or by the *)
(* return of the item.                                                      *)
(*                                                                         *)
(* Handlers are coroutines of one event loop; a step is the code between    *)
(* two calls to the locker (ESI) or to the payment provider.  session is    *)
(* what a handler carries across such a call.                               *)
(***************************************************************************)
EXTENDS Naturals, FiniteSets

CONSTANTS
  Users, Units,
  MaxReservations,  \* bound: reservations of one behaviour
  LastDay,          \* bound: the calendar runs from day 0 to LastDay
  Days,             \* length of a rental in days
  Requests,         \* HTTP requests that may be in flight at once
  Maintenance,      \* thread of _reservation_maintenance_tick
  PickupExpiry,     \* thread of expire_stale_pickup_rentals
  None,             \* no user, no unit, no reservation
  Broken,           \* units whose locker never answers
  Overlap,          \* TRUE: handlers interleave at their calls
  MaxFaults         \* bound: calls that fail (refund refused, ESI error)

ASSUME BoundsAssumption ==
  /\ MaxReservations \in Nat /\ LastDay \in Nat /\ MaxFaults \in Nat
  /\ Days \in Nat \ {0}
ASSUME NamesAssumption ==
  /\ Maintenance \notin Requests /\ PickupExpiry \notin Requests
  /\ Maintenance # PickupExpiry
  /\ None \notin Users /\ None \notin Units /\ None \notin Nat
  /\ Broken \subseteq Units /\ Overlap \in BOOLEAN

Reservations == 1..MaxReservations      \* numbered in order of creation
Handlers == Requests \cup {Maintenance, PickupExpiry}

Active == {"AWAITING_PAYMENT", "PAYMENT_AUTHORIZED"}
AwaitingPickup == {"PICKUP_READY", "PICKUP_OPENED"}
Unfinished == AwaitingPickup \cup {"ACTIVE"}    \* ACTIVE: with the client
HandoverReady == {"AVAILABLE", "RESERVED"}

VARIABLES
  today,      \* the current day
  booking,    \* Reservation rows: status, user, unit, first day, lapsed
  rental,     \* Rental row of a reservation: status, days, pickup deadline
  unit,       \* InventoryUnit.status
  inCell,     \* inCell[u]: locker_cell_id is set
  pin,        \* pin[u]: the reservation whose code opens the cell of u
  money,      \* money[r]: "none", "paid", "returning" or "returned"
  session, faults

rows == <<booking, rental, unit, inCell>>
vars == <<today, booking, rental, unit, inCell, pin, money, session, faults>>

Bookings ==
  [status : Active \cup {"NONE", "CONFIRMED", "EXPIRED", "CANCELLED"},
   user : Users \cup {None}, unit : Units \cup {None},
   start : 0..LastDay, lapsed : BOOLEAN]
Rentals ==
  [status : Unfinished \cup {"NONE", "COMPLETED", "CANCELLED"},
   from : 0..LastDay, till : 0..(LastDay + Days + 1), deadline : 0..(LastDay + 1)]
UnitStatus == {"AVAILABLE", "RESERVED", "RENTED", "AWAITING_CONFIRMATION"}

(* A session: the row under work, the copy of a status loaded before the    *)
(* call, the reservation about to be inserted, the paid and unpaid          *)
(* reservations a sweep has left, and what its batch will write.            *)
Sessions ==
  [at : {"idle", "insert", "confirm", "sweep", "expire", "refund", "open",
         "pickup", "pin"},
   op : {"none", "create", "confirm", "cancel", "cancelRental", "open",
         "pickup", "tick", "expiry"},
   r : Reservations \cup {None},
   seen : UnitStatus \cup AwaitingPickup \cup {"NONE"},
   new : Bookings, paid : SUBSET Reservations, unpaid : SUBSET Reservations,
   done : SUBSET Reservations, freed : SUBSET Units]

NoBooking == [status |-> "NONE", user |-> None, unit |-> None,
              start |-> 0, lapsed |-> FALSE]
NoRental == [status |-> "NONE", from |-> 0, till |-> 0, deadline |-> 0]
Idle == [at |-> "idle", op |-> "none", r |-> None, seen |-> "NONE",
         new |-> NoBooking, paid |-> {}, unpaid |-> {}, done |-> {},
         freed |-> {}]

Init ==
  /\ today = 0
  /\ booking = [r \in Reservations |-> NoBooking]
  /\ rental = [r \in Reservations |-> NoRental]
  /\ unit = [u \in Units |-> "AVAILABLE"]
  /\ inCell = [u \in Units |-> TRUE]
  /\ pin = [u \in Units |-> None]
  /\ money = [r \in Reservations |-> "none"]
  /\ session = [h \in Handlers |-> Idle]
  /\ faults = 0

-----------------------------------------------------------------------------
(* Queries.                                                                 *)

IsActive(r) == booking[r].status \in Active
IsUnfinished(r) == rental[r].status \in Unfinished
UnitOf(r) == booking[r].unit

(* expires_at: the window of the payment, and once paid at least until the  *)
(* end of the first day (calculate_paid_reservation_expires_at).            *)
PaidExpired(r) == today > booking[r].start /\ booking[r].lapsed

IsExpired(r) ==
  IF booking[r].status = "PAYMENT_AUTHORIZED" THEN PaidExpired(r)
                                              ELSE booking[r].lapsed

(* Mutant: an opened cell does not hold its unit.                           *)
HeldUnopened(u, ignore) ==
  \E r \in Reservations \ {ignore} :
    /\ UnitOf(r) = u
    /\ rental[r].status = "PICKUP_READY"
    /\ rental[r].till > today

(* _is_unit_held_for_pickup: a rental whose days are over does not count.   *)
Held(u, ignore) ==
  \E r \in Reservations \ {ignore} :
    /\ UnitOf(r) = u
    /\ rental[r].status \in AwaitingPickup
    /\ rental[r].till > today

(* _queue_key: earlier pickup first, then earlier creation.                 *)
Ahead(q, r) ==
  \/ booking[q].start < booking[r].start
  \/ booking[q].start = booking[r].start /\ q < r

(* Mutant: a unit held for a pickup is handed over.                         *)
CanHandOverHeld(r) ==
  LET u == UnitOf(r)
  IN /\ inCell[u]
     /\ unit[u] \in HandoverReady
     /\ \A q \in Reservations \ {r} :
          /\ UnitOf(q) = u
          /\ booking[q].user # booking[r].user
          /\ IsActive(q) /\ ~IsExpired(q)
          => ~Ahead(q, r)

(* get_handover_blocker = None.  Own reservations do not queue.             *)
CanHandOver(r) ==
  LET u == UnitOf(r)
  IN /\ inCell[u]
     /\ unit[u] \in HandoverReady
     /\ ~Held(u, r)
     /\ \A q \in Reservations \ {r} :
          /\ UnitOf(q) = u
          /\ booking[q].user # booking[r].user
          /\ IsActive(q) /\ ~IsExpired(q)
          => ~Ahead(q, r)

(* release_unit_from_reservation sets the unit AVAILABLE.                   *)
Releases(r) ==
  LET u == UnitOf(r)
  IN /\ unit[u] = "RESERVED"
     /\ ~Held(u, r)
     /\ \A q \in Reservations \ {r} :
          ~(UnitOf(q) = u /\ IsActive(q) /\ ~IsExpired(q))

Later(a, b) == IF a < b THEN b ELSE a
Sooner(a, b) == IF a < b THEN a ELSE b

(* Half-open ranges of days. *)
Intersect(a, b, c, d) == Later(a, c) < Sooner(b, d)

(* The days for which a rental keeps its unit from being booked.  A rental  *)
(* awaiting pickup blocks from now, one in the client's hands until the     *)
(* item is back, a finished one a day more unless an operator cleared it.   *)
RentalBlocks(r, from, till) ==
  LET u == UnitOf(r) IN
  CASE rental[r].status \in AwaitingPickup ->
         Intersect(from, till, Sooner(rental[r].from, today), rental[r].till)
    [] rental[r].status = "ACTIVE" ->
         Intersect(from, till, rental[r].from,
                   IF inCell[u] THEN rental[r].till
                                ELSE Later(rental[r].till, today + 1))
    [] rental[r].status = "COMPLETED" ->
         /\ unit[u] # "AVAILABLE"
         /\ Intersect(from, till, rental[r].from, rental[r].till + 1)
    [] OTHER -> FALSE

(* Mutant: only paid reservations take their days.                          *)
FreeUnitsUnpaid(source, from) ==
  {u \in Units :
     /\ \/ inCell[u] /\ unit[u] # "AWAITING_CONFIRMATION"
        \/ /\ ~inCell[u] /\ unit[u] = "RENTED"
           /\ \E r \in Reservations : UnitOf(r) = u /\ IsUnfinished(r)
     /\ \A r \in Reservations : UnitOf(r) = u =>
          /\ ~RentalBlocks(r, from, from + Days)
          /\ \/ r = source \/ booking[r].status # "PAYMENT_AUTHORIZED"
             \/ ~Intersect(from, from + Days, booking[r].start,
                           booking[r].start + Days)}

(* _get_available_inventory_unit: bookable units free on the wanted days.   *)
FreeUnits(source, from) ==
  {u \in Units :
     /\ \/ inCell[u] /\ unit[u] # "AWAITING_CONFIRMATION"
        \/ /\ ~inCell[u] /\ unit[u] = "RENTED"
           /\ \E r \in Reservations : UnitOf(r) = u /\ IsUnfinished(r)
     /\ \A r \in Reservations : UnitOf(r) = u =>
          /\ ~RentalBlocks(r, from, from + Days)
          /\ r = source \/ ~IsActive(r) \/
             ~Intersect(from, from + Days, booking[r].start, booking[r].start + Days)}

(* The unit of the moved reservation first, else one that is AVAILABLE.     *)
Chosen(free, source) ==
  IF source # None /\ UnitOf(source) \in free THEN {UnitOf(source)}
  ELSE LET now == {u \in free : unit[u] = "AVAILABLE"}
       IN IF now # {} THEN now ELSE free

-----------------------------------------------------------------------------
MayStart(h) ==
  /\ session[h].at = "idle"
  /\ Overlap \/ \A k \in Handlers : session[k].at = "idle"

Go(h, s) == session' = [session EXCEPT ![h] = s]
Finish(h) == Go(h, Idle)

Fault == faults < MaxFaults /\ faults' = faults + 1

(* The payment row of r looks paid: "returning" is a refund of a batch that *)
(* has not been committed.                                                  *)
LooksPaid(r) == money[r] \in {"paid", "returning"}

(* The provider returns the money (then to), or refuses; it always refuses  *)
(* what it has returned before.                                             *)
Refund(r, to, ok) ==
  \/ ok /\ money[r] = "paid" /\ money' = [money EXCEPT ![r] = to]
        /\ UNCHANGED faults
  \/ ~ok /\ money[r] = "paid" /\ Fault /\ UNCHANGED money
  \/ ~ok /\ money[r] # "paid" /\ UNCHANGED <<money, faults>>

(* A call to the locker of u: it is done or it fails.                       *)
Locker(u, ok) ==
  \/ ok /\ u \notin Broken /\ UNCHANGED faults
  \/ ~ok /\ u \notin Broken /\ Fault
  \/ ~ok /\ u \in Broken /\ UNCHANGED faults

(* reserve_cell_with_pin, sync_cell_state: the cell takes the code of r.    *)
SetPin(u, r, ok) ==
  /\ Locker(u, ok)
  /\ pin' = IF ok THEN [pin EXCEPT ![u] = r] ELSE pin

Quiet == Overlap \/ \A h \in Handlers : session[h].at = "idle"

-----------------------------------------------------------------------------
(* Time and money.                                                          *)

(* The sweeps run every minute: a rental is not awaited past its deadline,  *)
(* nor a cell left open, until the next day; what fails is retried in time. *)
Attended(r) ==
  /\ rental[r].status # "PICKUP_OPENED"
  /\ rental[r].status = "PICKUP_READY" => rental[r].deadline > today

DayPasses ==
  /\ Quiet /\ today < LastDay
  /\ \A r \in Reservations : Attended(r)
  /\ today' = today + 1
  /\ UNCHANGED <<rows, pin, money, session, faults>>

(* The window for the payment ends (pickupWindowMinutes of the request).     *)
(* Until its first day is over that is nothing to a paid reservation.        *)
WindowCloses(r) ==
  /\ Quiet /\ ~booking[r].lapsed
  /\ \/ booking[r].status = "AWAITING_PAYMENT"
     \/ booking[r].status = "PAYMENT_AUTHORIZED" /\ today > booking[r].start
  /\ booking' = [booking EXCEPT ![r].lapsed = TRUE]
  /\ UNCHANGED <<today, rental, unit, inCell, pin, money, session, faults>>

(* Module PaymentFlow has the details.                                      *)
Pay(r) ==
  /\ Quiet
  /\ booking[r].status = "AWAITING_PAYMENT"
  /\ booking' = [booking EXCEPT ![r].status = "PAYMENT_AUTHORIZED"]
  /\ money' = [money EXCEPT ![r] = "paid"]
  /\ UNCHANGED <<today, rental, unit, inCell, pin, session, faults>>

-----------------------------------------------------------------------------
(* create_reservation: the checks, then the insert of what they found free.  *)
(* No check compares the first day with today: it may be over.              *)

HasActive(user, source) ==
  \E r \in Reservations \ {source} : booking[r].user = user /\ IsActive(r)

StartCreate(h, user, from, source) ==
  /\ MayStart(h)
  /\ \E r \in Reservations : booking[r].status = "NONE"
  /\ source # None => booking[source].user = user
  /\ ~HasActive(user, source)
  /\ \E u \in Chosen(FreeUnits(source, from), source) :
       Go(h, [Idle EXCEPT !.at = "insert", !.op = "create", !.seen = unit[u],
                !.new = [status |-> "AWAITING_PAYMENT", user |-> user,
                         unit |-> u, start |-> from, lapsed |-> FALSE]])
  /\ UNCHANGED <<today, rows, pin, money, faults>>

SetAside(u, seen) ==
  unit' = IF seen = "AVAILABLE" THEN [unit EXCEPT ![u] = "RESERVED"] ELSE unit

InsertReservation(h) ==
  LET s == session[h]
      free == {r \in Reservations : booking[r].status = "NONE"}
  IN /\ s.at = "insert"
     /\ \/ \E r \in free :
             /\ \A q \in free : r <= q
             /\ booking' = [booking EXCEPT ![r] = s.new]
             /\ SetAside(s.new.unit, s.seen)
        \/ UNCHANGED <<booking, unit>>          \* the commit fails
     /\ Finish(h)
     /\ UNCHANGED <<today, rental, inCell, pin, money, faults>>

-----------------------------------------------------------------------------
(* From reservation to rental.                                              *)

(* The last day to collect: the first day of a rental that starts later; the *)
(* same day, within hours, otherwise; or the end of its first day, if the    *)
(* client waited for somebody else's rental to be over                       *)
(* (calculate_handover_pickup_expires_at).                                  *)
PickupDeadlines(r, from) ==
  LET waited == \E q \in Reservations \ {r} :
                  UnitOf(q) = UnitOf(r) /\ rental[q].status \in {"COMPLETED", "CANCELLED"}
  IN IF from > today THEN {from + 1}
     ELSE IF waited THEN {today, Later(today, from + 1)} ELSE {today}

(* The rows both confirms write after the call.  The days run from the date  *)
(* they are given, wherever it lies.                                        *)
HandOver(r, seen, from) ==
  /\ \E d \in PickupDeadlines(r, from) :
       rental' = [rental EXCEPT ![r] =
         [status |-> "PICKUP_READY", from |-> from, till |-> from + Days,
          deadline |-> d]]
  /\ booking' = [booking EXCEPT ![r].status = "CONFIRMED"]
  /\ SetAside(UnitOf(r), seen)
  /\ UNCHANGED inCell

(* Mutant: an unpaid reservation is confirmed.                              *)
StartConfirmUnpaid(h, r) ==
  /\ MayStart(h)
  /\ IsActive(r) /\ ~IsExpired(r)
  /\ rental[r].status = "NONE"
  /\ CanHandOver(r)
  /\ Go(h, [Idle EXCEPT !.at = "confirm", !.op = "confirm", !.r = r,
                        !.seen = unit[UnitOf(r)]])
  /\ UNCHANGED <<today, rows, pin, money, faults>>

(* confirm_reservation.  A blocked reservation stays paid and waits.        *)
StartConfirm(h, r) ==
  /\ MayStart(h)
  /\ booking[r].status = "PAYMENT_AUTHORIZED" /\ ~IsExpired(r)
  /\ rental[r].status = "NONE"
  /\ CanHandOver(r)
  /\ Go(h, [Idle EXCEPT !.at = "confirm", !.op = "confirm", !.r = r,
                        !.seen = unit[UnitOf(r)]])
  /\ UNCHANGED <<today, rows, pin, money, faults>>

(* The reservation is not read again; rentals.reservation_id is unique.  The *)
(* startAt of the request goes before the date of the reservation.          *)
ConfirmAnswered(h) ==
  LET s == session[h]
  IN /\ s.at = "confirm" /\ s.op = "confirm"
     /\ \E ok \in BOOLEAN :
          /\ SetPin(UnitOf(s.r), s.r, ok)
          /\ IF ok /\ rental[s.r].status = "NONE"
               THEN \E startAt \in 0..LastDay : HandOver(s.r, s.seen, startAt)
               ELSE UNCHANGED rows
     /\ Finish(h)
     /\ UNCHANGED <<today, money>>

(* Mutant: only reservations of later days are swept.                       *)
StartTickLater ==
  /\ MayStart(Maintenance)
  /\ Go(Maintenance,
        [Idle EXCEPT !.at = "sweep", !.op = "tick",
           !.paid = {r \in Reservations : /\ booking[r].status = "PAYMENT_AUTHORIZED"
                                          /\ booking[r].start > today}])
  /\ UNCHANGED <<today, rows, pin, money, faults>>

(* auto_confirm_paid_reservations, first part of the maintenance tick.      *)
StartTick ==
  /\ MayStart(Maintenance)
  /\ Go(Maintenance,
        [Idle EXCEPT !.at = "sweep", !.op = "tick",
           !.paid = {r \in Reservations : booking[r].status = "PAYMENT_AUTHORIZED"}])
  /\ UNCHANGED <<today, rows, pin, money, faults>>

SweepOne(r) ==
  LET s == session[Maintenance]
      rest == [s EXCEPT !.paid = @ \ {r}]
  IN /\ s.at = "sweep" /\ r \in s.paid
     /\ \/ /\ PaidExpired(r) \/ (rental[r].status = "NONE" /\ ~CanHandOver(r))
           /\ Go(Maintenance, rest)
           /\ UNCHANGED booking
        \/ /\ ~PaidExpired(r) /\ rental[r].status # "NONE"
           /\ booking' = [booking EXCEPT ![r].status = "CONFIRMED"]
           /\ Go(Maintenance, rest)
        \/ /\ ~PaidExpired(r) /\ rental[r].status = "NONE" /\ CanHandOver(r)
           /\ Go(Maintenance, [rest EXCEPT !.at = "confirm", !.r = r,
                                           !.seen = unit[UnitOf(r)]])
           /\ UNCHANGED booking
     /\ UNCHANGED <<today, rental, unit, inCell, pin, money, faults>>

(* The reservation is read again after the call.  Without a pickup_at the    *)
(* rental starts now.  Every rollback expires the loaded rows, and the sweep *)
(* dies on the next attribute it reads.                                     *)
SweepAnswered ==
  LET s == session[Maintenance]
      next == [s EXCEPT !.at = "sweep", !.r = None, !.seen = "NONE"]
  IN /\ s.at = "confirm"
     /\ \E ok \in BOOLEAN :
          /\ SetPin(UnitOf(s.r), s.r, ok)
          /\ IF /\ ok /\ booking[s.r].status = "PAYMENT_AUTHORIZED"
                /\ rental[s.r].status = "NONE"
               THEN /\ \E from \in {booking[s.r].start, Later(booking[s.r].start, today)} :
                         HandOver(s.r, s.seen, from)
                    /\ Go(Maintenance, next)
               ELSE UNCHANGED rows /\ Go(Maintenance, [next EXCEPT !.paid = {}])
     /\ UNCHANGED <<today, money>>

-----------------------------------------------------------------------------
(* expire_stale_reservations, last part of the tick: one commit for all.    *)

StartExpiry ==
  LET s == session[Maintenance]
      stale(st) == {r \in Reservations : booking[r].status = st /\ IsExpired(r)}
  IN /\ s.at = "sweep" /\ s.paid = {}
     /\ Go(Maintenance, [s EXCEPT !.at = "expire",
                                  !.paid = stale("PAYMENT_AUTHORIZED"),
                                  !.unpaid = stale("AWAITING_PAYMENT")])
     /\ UNCHANGED <<today, rows, pin, money, faults>>

(* s with r taken off its list and, if closed, put into the batch.          *)
Expired(s, r, closed) ==
  [s EXCEPT !.at = "expire", !.r = None,
            !.paid = @ \ {r}, !.unpaid = @ \ {r},
            !.done = IF closed THEN @ \cup {r} ELSE @,
            !.freed = IF closed /\ Releases(r) THEN @ \cup {UnitOf(r)} ELSE @]

ExpireOne(r) ==
  LET s == session[Maintenance]
  IN /\ s.at = "expire" /\ r \in s.paid \cup s.unpaid
     /\ Go(Maintenance,
           IF r \in s.paid /\ LooksPaid(r)
             THEN [s EXCEPT !.at = "refund", !.r = r]
             ELSE Expired(s, r, TRUE))
     /\ UNCHANGED <<today, rows, pin, money, faults>>

ExpireRefunded ==
  LET s == session[Maintenance]
  IN /\ s.at = "refund"
     /\ \E ok \in BOOLEAN :
          /\ Refund(s.r, "returning", ok)
          /\ Go(Maintenance, Expired(s, s.r, ok))
     /\ UNCHANGED <<today, rows, pin>>

ExpiryCommitted ==
  LET s == session[Maintenance]
  IN /\ s.at = "expire" /\ s.paid = {} /\ s.unpaid = {}
     /\ booking' = [r \in Reservations |->
                      IF r \in s.done THEN [booking[r] EXCEPT !.status = "EXPIRED"]
                                      ELSE booking[r]]
     /\ unit' = [u \in Units |-> IF u \in s.freed THEN "AVAILABLE" ELSE unit[u]]
     /\ money' = [r \in Reservations |->
                    IF r \in s.done /\ money[r] = "returning" THEN "returned"
                                                              ELSE money[r]]
     /\ Finish(Maintenance)
     /\ UNCHANGED <<today, rental, inCell, pin, faults>>
-----------------------------------------------------------------------------
(* Cancellations.  The money goes first; nothing is read again after it.    *)

(* cancel_my_reservation writes CANCELLED whatever the row has become.      *)
CloseReservation(r) ==
  /\ booking' = [booking EXCEPT ![r].status = "CANCELLED"]
  /\ unit' = IF Releases(r) THEN [unit EXCEPT ![UnitOf(r)] = "AVAILABLE"] ELSE unit
  /\ UNCHANGED <<rental, inCell>>

StartCancel(h, r) ==
  /\ MayStart(h)
  /\ IsActive(r)
  /\ IF booking[r].status = "PAYMENT_AUTHORIZED" /\ LooksPaid(r)
       THEN /\ Go(h, [Idle EXCEPT !.at = "refund", !.op = "cancel", !.r = r])
            /\ UNCHANGED rows
       ELSE CloseReservation(r) /\ UNCHANGED session
  /\ UNCHANGED <<today, pin, money, faults>>

CancelRefunded(h) ==
  LET s == session[h]
  IN /\ s.at = "refund" /\ s.op = "cancel"
     /\ \E ok \in BOOLEAN :
          /\ Refund(s.r, "returned", ok)
          /\ IF ok THEN CloseReservation(s.r) ELSE UNCHANGED rows
     /\ Finish(h)
     /\ UNCHANGED <<today, pin>>

(* A rental ends before its pickup: the unit is free, the item stays in its *)
(* cell and gets a code nobody knows, unless another rental has its code    *)
(* there already (release_unit_kept_in_cell, reset_pin_after_pickup_cancel).*)
CloseRental(h, r, outcome) ==
  LET u == UnitOf(r)
      taken == \E q \in Reservations \ {r} :
                 UnitOf(q) = u /\ rental[q].status \in AwaitingPickup
  IN /\ rental' = [rental EXCEPT ![r].status = "CANCELLED"]
     /\ booking' = [booking EXCEPT ![r].status = outcome]
     /\ unit' = IF unit[u] \in {"RESERVED", "RENTED"}
                  THEN [unit EXCEPT ![u] = "AVAILABLE"] ELSE unit
     /\ IF inCell[u] /\ ~taken
          THEN Go(h, [Idle EXCEPT !.at = "pin", !.op = session[h].op, !.r = r])
          ELSE Finish(h)
     /\ UNCHANGED inCell

(* cancel_rental_before_pickup, allowed until the day before.               *)
StartCancelRental(h, r) ==
  /\ MayStart(h)
  /\ rental[r].status = "PICKUP_READY"
  /\ rental[r].from > today
  /\ IF LooksPaid(r)
       THEN /\ Go(h, [Idle EXCEPT !.at = "refund", !.op = "cancelRental", !.r = r])
            /\ UNCHANGED rows
       ELSE CloseRental(h, r, "CANCELLED")
  /\ UNCHANGED <<today, pin, money, faults>>

(* Mutant: the deadline itself is not yet late.                             *)
StartPickupExpiryLate(r) ==
  /\ MayStart(PickupExpiry)
  /\ rental[r].status = "PICKUP_READY"
  /\ rental[r].deadline < today
  /\ IF LooksPaid(r)
       THEN /\ Go(PickupExpiry, [Idle EXCEPT !.at = "refund", !.op = "expiry",
                                             !.r = r])
            /\ UNCHANGED rows
       ELSE CloseRental(PickupExpiry, r, booking[r].status)
  /\ UNCHANGED <<today, pin, money, faults>>

(* expire_stale_pickup_rentals, one rental: its reservation stays CONFIRMED.*)
StartPickupExpiry(r) ==
  /\ MayStart(PickupExpiry)
  /\ rental[r].status = "PICKUP_READY"
  /\ rental[r].deadline <= today
  /\ IF LooksPaid(r)
       THEN /\ Go(PickupExpiry, [Idle EXCEPT !.at = "refund", !.op = "expiry",
                                             !.r = r])
            /\ UNCHANGED rows
       ELSE CloseRental(PickupExpiry, r, booking[r].status)
  /\ UNCHANGED <<today, pin, money, faults>>

(* Mutant: the rental is closed although the refund was refused.            *)
RentalUnrefunded(h) ==
  LET s == session[h]
  IN /\ s.at = "refund" /\ s.op \in {"cancelRental", "expiry"}
     /\ \E ok \in BOOLEAN : Refund(s.r, "returned", ok)
     /\ CloseRental(h, s.r, IF s.op = "expiry" THEN booking[s.r].status
                                               ELSE "CANCELLED")
     /\ UNCHANGED <<today, pin>>

RentalRefunded(h) ==
  LET s == session[h]
  IN /\ s.at = "refund" /\ s.op \in {"cancelRental", "expiry"}
     /\ \E ok \in BOOLEAN :
          /\ Refund(s.r, "returned", ok)
          /\ IF ok
               THEN CloseRental(h, s.r, IF s.op = "expiry" THEN booking[s.r].status
                                                           ELSE "CANCELLED")
               ELSE Finish(h) /\ UNCHANGED rows
     /\ UNCHANGED <<today, pin>>

PinReset(h) ==
  LET s == session[h]
  IN /\ s.at = "pin"
     /\ \E ok \in BOOLEAN : SetPin(UnitOf(s.r), None, ok)
     /\ Finish(h)
     /\ UNCHANGED <<today, rows, money>>

-----------------------------------------------------------------------------
(* Pickup and return.                                                       *)

(* open_pickup_cell: a rental loaded as PICKUP_READY becomes PICKUP_OPENED. *)
StartOpen(h, r) ==
  /\ MayStart(h)
  /\ rental[r].status \in AwaitingPickup
  /\ rental[r].from <= today
  /\ inCell[UnitOf(r)]
  /\ Go(h, [Idle EXCEPT !.at = "open", !.op = "open", !.r = r,
                        !.seen = rental[r].status])
  /\ UNCHANGED <<today, rows, pin, money, faults>>

OpenAnswered(h) ==
  LET s == session[h]
  IN /\ s.at = "open"
     /\ \E ok \in BOOLEAN :
          /\ Locker(UnitOf(s.r), ok)
          /\ rental' = IF ok /\ s.seen = "PICKUP_READY"
                         THEN [rental EXCEPT ![s.r].status = "PICKUP_OPENED"]
                         ELSE rental
     /\ Finish(h)
     /\ UNCHANGED <<today, booking, unit, inCell, pin, money>>

(* Mutant: one day too many.                                                *)
TakeOutLonger(r) ==
  /\ rental' = [rental EXCEPT ![r] = [@ EXCEPT !.status = "ACTIVE", !.from = today,
                                               !.till = today + Days + 2]]
  /\ unit' = [unit EXCEPT ![UnitOf(r)] = "RENTED"]
  /\ inCell' = [inCell EXCEPT ![UnitOf(r)] = FALSE]
  /\ UNCHANGED booking

(* The client has the item; the rental runs from now.                       *)
TakeOut(r) ==
  /\ rental' = [rental EXCEPT ![r] = [@ EXCEPT !.status = "ACTIVE", !.from = today,
                                               !.till = today + Days + 1]]
  /\ unit' = [unit EXCEPT ![UnitOf(r)] = "RENTED"]
  /\ inCell' = [inCell EXCEPT ![UnitOf(r)] = FALSE]
  /\ UNCHANGED booking

(* confirm_pickup writes the code to the cell once more before it starts    *)
(* the rental; without a cell there is no code to write.                    *)
StartPickup(h, r) ==
  /\ MayStart(h)
  /\ rental[r].status \in AwaitingPickup
  /\ rental[r].from <= today
  /\ IF inCell[UnitOf(r)]
       THEN /\ Go(h, [Idle EXCEPT !.at = "pickup", !.op = "pickup", !.r = r])
            /\ UNCHANGED rows
       ELSE TakeOut(r) /\ UNCHANGED session
  /\ UNCHANGED <<today, pin, money, faults>>

PickupAnswered(h) ==
  LET s == session[h]
  IN /\ s.at = "pickup"
     /\ \E ok \in BOOLEAN :
          /\ SetPin(UnitOf(s.r), s.r, ok)
          /\ IF ok THEN TakeOut(s.r) ELSE UNCHANGED rows
     /\ Finish(h)
     /\ UNCHANGED <<today, money>>

(* auto_confirm_opened_pickups, 15 minutes after the cell was opened.       *)
AutoPickup(r) ==
  /\ Quiet
  /\ rental[r].status = "PICKUP_OPENED"
  /\ TakeOut(r)
  /\ UNCHANGED <<today, pin, money, session, faults>>

(* complete_return_request: the item lies in a cell and awaits an operator. *)
ReturnCompleted(r) ==
  /\ Quiet
  /\ rental[r].status = "ACTIVE"
  /\ rental' = [rental EXCEPT ![r].status = "COMPLETED", ![r].till = today + 1]
  /\ unit' = [unit EXCEPT ![UnitOf(r)] = "AWAITING_CONFIRMATION"]
  /\ inCell' = [inCell EXCEPT ![UnitOf(r)] = TRUE]
  /\ UNCHANGED <<today, booking, pin, money, session, faults>>

(* confirm_inventory_ready also completes every unfinished rental of u.     *)
ConfirmReady(u) ==
  /\ Quiet
  /\ inCell[u] /\ unit[u] = "AWAITING_CONFIRMATION"
  /\ unit' = [unit EXCEPT ![u] = "AVAILABLE"]
  /\ rental' = [r \in Reservations |->
                 IF UnitOf(r) = u /\ IsUnfinished(r)
                   THEN [rental[r] EXCEPT !.status = "COMPLETED", !.till = today + 1]
                   ELSE rental[r]]
  /\ UNCHANGED <<today, booking, inCell, pin, money, session, faults>>

-----------------------------------------------------------------------------
Starts(h) ==
  \/ \E user \in Users, from \in 0..LastDay, source \in Reservations \cup {None} :
       StartCreate(h, user, from, source)
  \/ \E r \in Reservations :
       \/ StartConfirm(h, r) \/ StartCancel(h, r) \/ StartCancelRental(h, r)
       \/ StartOpen(h, r) \/ StartPickup(h, r)

Answered(h) ==
  \/ InsertReservation(h) \/ ConfirmAnswered(h) \/ CancelRefunded(h)
  \/ RentalRefunded(h) \/ PinReset(h) \/ OpenAnswered(h) \/ PickupAnswered(h)

MaintenanceStep ==
  \/ StartTick \/ SweepAnswered \/ StartExpiry \/ ExpireRefunded \/ ExpiryCommitted
  \/ \E r \in Reservations : SweepOne(r) \/ ExpireOne(r)

PickupExpiryStep ==
  \/ \E r \in Reservations : StartPickupExpiry(r)
  \/ RentalRefunded(PickupExpiry) \/ PinReset(PickupExpiry)

Next ==
  \/ DayPasses
  \/ \E r \in Reservations :
       WindowCloses(r) \/ Pay(r) \/ AutoPickup(r) \/ ReturnCompleted(r)
  \/ \E u \in Units : ConfirmReady(u)
  \/ \E h \in Requests : Starts(h) \/ Answered(h)
  \/ PickupExpiryStep
  \/ MaintenanceStep

Spec == Init /\ [][Next]_vars

-----------------------------------------------------------------------------
TypeOK ==
  /\ today \in 0..LastDay
  /\ booking \in [Reservations -> Bookings]
  /\ rental \in [Reservations -> Rentals]
  /\ unit \in [Units -> UnitStatus]
  /\ inCell \in [Units -> BOOLEAN]
  /\ pin \in [Units -> Reservations \cup {None}]
  /\ money \in [Reservations -> {"none", "paid", "returning", "returned"}]
  /\ session \in [Handlers -> Sessions]
  /\ faults \in 0..MaxFaults

(* No rental is awaited when its days are over.  A request that names a date *)
(* of the past, or a rental of one day that nobody collects, makes one that  *)
(* is; it does not hold its unit (_is_unit_held_for_pickup).                 *)
WithinDays ==
  \A r \in Reservations : rental[r].status \in AwaitingPickup => rental[r].till > today

OneRental ==
  \A q, r \in Reservations :
    IsUnfinished(q) /\ IsUnfinished(r) /\ UnitOf(q) = UnitOf(r) => q = r

ItemAwaits ==
  \A r \in Reservations : rental[r].status \in AwaitingPickup =>
    pin[UnitOf(r)] = r /\ inCell[UnitOf(r)] /\ unit[UnitOf(r)] = "RESERVED"

(* An item is promised to one rental at a time: no unit has two unfinished   *)
(* rentals (docstring of reservation_handover), as long as no rental is      *)
(* awaited beyond its days.                                                 *)
OneUnfinishedRental == []WithinDays => []OneRental

(* As long as no rental is awaited beyond its days, a client who awaits the  *)
(* item can take it: the code in the application opens the cell, and the     *)
(* item lies there, set aside.                                              *)
PickupWorks == []WithinDays => []ItemAwaits

(* Who has or awaits the item has paid for it, with a reservation that is     *)
(* neither waiting nor closed (confirm_reservation, cancel_my_reservation,    *)
(* expire_stale_reservations).                                              *)
RentalIsBacked ==
  \A r \in Reservations :
    IsUnfinished(r) => booking[r].status = "CONFIRMED" /\ money[r] = "paid"

(* A rental is cancelled only after its money went back, whoever cancels it  *)
(* and however often the refund is refused.                                  *)
CancelledIsRefunded ==
  \A r \in Reservations : rental[r].status = "CANCELLED" => money[r] = "returned"

(* No two live bookings of one unit share a day.                             *)
NoDoubleBooking ==
  \A q, r \in Reservations :
    q # r /\ IsActive(q) /\ IsActive(r) /\ booking[q].user # booking[r].user
          /\ UnitOf(q) = UnitOf(r) =>
      ~Intersect(booking[q].start, booking[q].start + Days,
                 booking[r].start, booking[r].start + Days)

(* A new code for a cancelled rental never replaces the code of another one  *)
(* that has the cell already (_replace_pin: "we do not touch it").           *)
ForeignCodeKept ==
  [][\A u \in Units, r \in Reservations :
       pin[u] = r /\ rental[r].status \in AwaitingPickup /\ pin'[u] = None =>
         \E h \in Handlers : session[h].at = "pin" /\ session[h].r = r]_vars

-----------------------------------------------------------------------------
(* The scheduler threads keep running and every call ends.                   *)
FairSpec ==
  /\ Spec
  /\ SF_vars(MaintenanceStep)
  /\ SF_vars(PickupExpiryStep)
  /\ \A h \in Requests : WF_vars(Answered(h))

(* A paid reservation whose item lies ready for it at a working locker       *)
(* becomes a rental without any request of the client: "it simply waits for  *)
(* the next tick" (auto_confirm_paid_reservations).                          *)
ReadyIsHandedOver ==
  \A r \in Reservations :
    []<>~(/\ booking[r].status = "PAYMENT_AUTHORIZED"
          /\ CanHandOver(r) /\ UnitOf(r) \notin Broken)

(* A rental nobody collects does not keep its cell: it ends after the pickup *)
(* deadline, even if the refund is refused at first                          *)
(* (expire_stale_pickup_rentals).                                            *)
UncollectedEnds ==
  \A r \in Reservations :
    rental[r].status = "PICKUP_READY" /\ rental[r].deadline <= today ~>
      rental[r].status # "PICKUP_READY"
=============================================================================
