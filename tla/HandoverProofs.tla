--------------------------- MODULE HandoverProofs ---------------------------
(***************************************************************************)
(* Proofs about Handover and Calendar for any clients, units, days and      *)
(* requests.  With handlers interleaved at every call: types,               *)
(* CancelledIsRefunded, CalendarHonest.  One handler at a time: a rental is *)
(* paid for, bookings of one unit share no day and, until a rental is       *)
(* awaited beyond its days, an item is promised once and its code opens its *)
(* cell.                                                                    *)
(*                                                                         *)
(* A rental may be closed without a refund when no payment looks paid.  That *)
(* is right only because a rental exists only for a reservation that was    *)
(* paid, so its money can only be on its way back; and because no row and   *)
(* no session ever makes a paid reservation an unpaid one again.  Both are  *)
(* facts about copies in sessions as well, which may be old.                *)
(***************************************************************************)
EXTENDS Calendar, TLAPS

(* B, M and R are the rows of booking, money and rental.                    *)
Booked(r, B) == B[r].status # "NONE"

WasPaid(r, B, M) ==
  B[r].status \notin {"NONE", "AWAITING_PAYMENT"} /\ M[r] # "none"

RowTrue(r, B, M, R) ==
  /\ Booked(r, B) => B[r].unit \in Units
  /\ B[r].status = "PAYMENT_AUTHORIZED" => M[r] # "none"
  /\ R[r].status # "NONE" => WasPaid(r, B, M)
  /\ R[r].status = "CANCELLED" => M[r] = "returned"

(* What a session relies on across its call.                                *)
Carries(s, B, M, R) ==
  /\ \A r \in s.paid \cup s.unpaid \cup s.done : Booked(r, B)
  /\ s.at \in {"sweep", "confirm"} => \A r \in s.paid : WasPaid(r, B, M)
  /\ s.at = "insert" => s.new.status = "AWAITING_PAYMENT" /\ s.new.unit \in Units
  /\ s.at = "confirm" => s.r \in Reservations /\ WasPaid(s.r, B, M)
  /\ s.at = "refund" =>
       /\ s.r \in Reservations /\ Booked(s.r, B)
       /\ s.op \in {"cancelRental", "expiry"} => R[s.r].status # "NONE"
  /\ s.at \in {"open", "pickup"} => s.r \in Reservations /\ R[s.r].status # "NONE"
  /\ s.at = "open" => s.seen \in AwaitingPickup

RowTypes ==
  /\ today \in 0..LastDay
  /\ booking \in [Reservations -> Bookings]
  /\ rental \in [Reservations -> Rentals]
  /\ unit \in [Units -> UnitStatus]
  /\ inCell \in [Units -> BOOLEAN]

CallTypes ==
  /\ pin \in [Units -> Reservations \cup {None}]
  /\ money \in [Reservations -> {"none", "paid", "returning", "returned"}]
  /\ faults \in 0..MaxFaults

RowsTrue == \A r \in Reservations : RowTrue(r, booking, money, rental)

SessionsTrue ==
  /\ session \in [Handlers -> Sessions]
  /\ \A h \in Handlers : Carries(session[h], booking, money, rental)

IInv == RowTypes /\ CallTypes /\ RowsTrue /\ SessionsTrue

(* The maintenance thread does nothing but its tick.                        *)
Ticks == session[Maintenance].op \in {"none", "tick"}

(* Nothing that was booked, paid or rented is undone.                       *)
Grows ==
  /\ \A r \in Reservations : Booked(r, booking) => Booked(r, booking')
  /\ \A r \in Reservations : WasPaid(r, booking, money) => WasPaid(r, booking', money')
  /\ \A r \in Reservations : rental[r].status # "NONE" => rental'[r].status # "NONE"

-----------------------------------------------------------------------------
(* Sessions.                                                                *)

LEMMA IdleTrue ==
  ASSUME NEW B, NEW M, NEW R
  PROVE  Idle \in Sessions /\ Carries(Idle, B, M, R)
<1>1. NoBooking \in Bookings
  BY BoundsAssumption DEF NoBooking, Bookings
<1>2. QED
  BY <1>1 DEF Idle, Sessions, Carries

(* However long the call takes.                                             *)
LEMMA CarriesStays ==
  ASSUME NEW s \in Sessions, Carries(s, booking, money, rental), Grows
  PROVE  Carries(s, booking', money', rental')
  BY DEF Carries, Grows, Sessions

LEMMA SessionsKept ==
  ASSUME IInv, Grows, UNCHANGED session PROVE SessionsTrue'
  BY CarriesStays DEF IInv, SessionsTrue

(* A step of one handler.                                                   *)
LEMMA GoTrue ==
  ASSUME IInv, Grows, NEW h \in Handlers, NEW s \in Sessions,
         Carries(s, booking', money', rental'), Go(h, s)
  PROVE  SessionsTrue'
<1>1. session' = [session EXCEPT ![h] = s] /\ session \in [Handlers -> Sessions]
  BY DEF Go, IInv, SessionsTrue
<1>2. ASSUME NEW k \in Handlers, k # h
      PROVE  Carries(session'[k], booking', money', rental')
  BY <1>1, <1>2, CarriesStays DEF IInv, SessionsTrue
<1>3. QED
  BY <1>1, <1>2 DEF SessionsTrue

LEMMA FinishTrue ==
  ASSUME IInv, Grows, NEW h \in Handlers, Finish(h) PROVE SessionsTrue'
  BY IdleTrue, GoTrue DEF Finish

(* Steps that change no row.                                                *)
LEMMA RowsKept ==
  ASSUME IInv, UNCHANGED <<today, rows>>, UNCHANGED money
  PROVE  RowTypes' /\ RowsTrue' /\ Grows
  BY DEF IInv, rows, RowTypes, RowsTrue, RowTrue, Grows, Booked, WasPaid

LEMMA CallsKept ==
  ASSUME IInv, UNCHANGED <<pin, money, faults>> PROVE CallTypes'
  BY DEF IInv, CallTypes

LEMMA StepKeeps ==
  ASSUME RowTypes', CallTypes', RowsTrue', SessionsTrue' PROVE IInv'
  BY DEF IInv

-----------------------------------------------------------------------------
(* Calls.                                                                   *)

LEMMA LockerFaults ==
  ASSUME IInv, NEW u, NEW ok \in BOOLEAN, Locker(u, ok)
  PROVE  faults' \in 0..MaxFaults
  BY BoundsAssumption DEF IInv, CallTypes, Locker, Fault

LEMMA SetPinTypes ==
  ASSUME IInv, NEW u, NEW r \in Reservations \cup {None}, NEW ok \in BOOLEAN,
         SetPin(u, r, ok), UNCHANGED money
  PROVE  CallTypes'
<1>1. faults' \in 0..MaxFaults
  BY LockerFaults DEF SetPin
<1>2. QED
  BY <1>1 DEF IInv, CallTypes, SetPin

(* A refund only moves money that is paid, and only on its way back.        *)
LEMMA RefundTrue ==
  ASSUME IInv, NEW r \in Reservations, NEW to \in {"returning", "returned"},
         NEW ok \in BOOLEAN, Refund(r, to, ok), UNCHANGED pin
  PROVE  /\ CallTypes'
         /\ ok => money[r] = "paid" /\ money'[r] = to
         /\ \A q \in Reservations :
              \/ money'[q] = money[q]
              \/ money[q] = "paid" /\ money'[q] # "none"
  BY BoundsAssumption DEF IInv, CallTypes, Refund, Fault

LEMMA MoneyGrows ==
  ASSUME IInv, UNCHANGED <<today, rows>>,
         \A q \in Reservations : \/ money'[q] = money[q]
                                 \/ money[q] = "paid" /\ money'[q] # "none"
  PROVE  RowTypes' /\ RowsTrue' /\ Grows
  BY DEF IInv, rows, RowTypes, RowsTrue, RowTrue, Grows, Booked, WasPaid

-----------------------------------------------------------------------------
(* Rows.                                                                    *)

LEMMA SetAsideTypes ==
  ASSUME IInv, NEW u, NEW seen, SetAside(u, seen)
  PROVE  unit' \in [Units -> UnitStatus]
  BY DEF IInv, RowTypes, SetAside, UnitStatus

(* A rental is made for a reservation that was paid.                        *)
LEMMA HandOverTrue ==
  ASSUME IInv, NEW r \in Reservations, NEW seen, NEW from \in 0..LastDay,
         HandOver(r, seen, from), rental[r].status = "NONE", WasPaid(r, booking, money),
         UNCHANGED <<today, money>>
  PROVE  RowTypes' /\ RowsTrue' /\ Grows
<1>1. PICK d \in PickupDeadlines(r, from) :
        rental' = [rental EXCEPT ![r] =
          [status |-> "PICKUP_READY", from |-> from, till |-> from + Days,
           deadline |-> d]]
  BY DEF HandOver
<1>2. booking' = [booking EXCEPT ![r].status = "CONFIRMED"]
  BY DEF HandOver
<1>3. today \in 0..LastDay
  BY DEF IInv, RowTypes
<1>4. d \in 0..(LastDay + 1)
  BY <1>3, BoundsAssumption DEF PickupDeadlines, Later
<1>5. from + Days \in 0..(LastDay + Days + 1)
  BY <1>3, BoundsAssumption
<1>6. rental' \in [Reservations -> Rentals]
  BY <1>1, <1>3, <1>4, <1>5 DEF IInv, RowTypes, Rentals, Unfinished, AwaitingPickup
<1>7. booking' \in [Reservations -> Bookings]
  BY <1>2 DEF IInv, RowTypes, Bookings
<1>8. RowTypes'
  BY <1>6, <1>7, SetAsideTypes DEF IInv, RowTypes, HandOver
<1>9. /\ \A q \in Reservations : booking'[q].unit = booking[q].unit
      /\ \A q \in Reservations \ {r} : booking'[q] = booking[q] /\ rental'[q] = rental[q]
      /\ booking'[r].status = "CONFIRMED" /\ rental'[r].status = "PICKUP_READY"
  BY <1>1, <1>2 DEF IInv, RowTypes, Bookings
<1>10. RowsTrue'
  BY <1>9 DEF IInv, RowsTrue, RowTrue, Booked, WasPaid
<1>11. Grows
  BY <1>9 DEF Grows, Booked, WasPaid
<1>12. QED
  BY <1>8, <1>10, <1>11

(* Steps that only move the status of one reservation forward.              *)
LEMMA BookingTrue ==
  ASSUME IInv, NEW r \in Reservations,
         NEW st \in {"CONFIRMED", "EXPIRED", "CANCELLED"},
         booking' = [booking EXCEPT ![r].status = st],
         Booked(r, booking),
         unit' \in [Units -> UnitStatus], UNCHANGED <<today, rental, inCell, money>>
  PROVE  RowTypes' /\ RowsTrue' /\ Grows
<1>1. booking' \in [Reservations -> Bookings]
  BY DEF IInv, RowTypes, Bookings
<1>2. /\ \A q \in Reservations : booking'[q].unit = booking[q].unit
      /\ \A q \in Reservations \ {r} : booking'[q] = booking[q]
      /\ booking'[r].status = st
  BY DEF IInv, RowTypes, Bookings
<1>3. RowTypes'
  BY <1>1 DEF IInv, RowTypes
<1>4. RowsTrue' /\ Grows
  BY <1>2 DEF IInv, RowsTrue, RowTrue, Booked, WasPaid, Grows
<1>5. QED
  BY <1>3, <1>4

(* A rental ends with its money returned.                                   *)
LEMMA CloseRentalTrue ==
  ASSUME IInv, NEW h \in Handlers, NEW r \in Reservations, NEW outcome,
         CloseRental(h, r, outcome), outcome \in {"CANCELLED", booking[r].status},
         rental[r].status # "NONE", UNCHANGED today,
         money'[r] = "returned",
         \A q \in Reservations : \/ money'[q] = money[q]
                                 \/ money[q] = "paid" /\ money'[q] # "none"
  PROVE  RowTypes' /\ RowsTrue' /\ SessionsTrue'
<1> DEFINE s == [Idle EXCEPT !.at = "pin", !.op = session[h].op, !.r = r]
<1>1. /\ rental' = [rental EXCEPT ![r].status = "CANCELLED"]
      /\ booking' = [booking EXCEPT ![r].status = outcome]
      /\ UNCHANGED inCell
  BY DEF CloseRental
<1>2. unit' \in [Units -> UnitStatus]
  BY DEF CloseRental, IInv, RowTypes, UnitStatus
<1>3. WasPaid(r, booking, money)
  BY DEF IInv, RowsTrue, RowTrue
<1>4. booking' \in [Reservations -> Bookings] /\ rental' \in [Reservations -> Rentals]
  <2>1. outcome \in Active \cup {"NONE", "CONFIRMED", "EXPIRED", "CANCELLED"}
    BY DEF IInv, RowTypes, Bookings
  <2>2. booking' \in [Reservations -> Bookings]
    BY <1>1, <2>1 DEF IInv, RowTypes, Bookings
  <2>3. rental' \in [Reservations -> Rentals]
    BY <1>1 DEF IInv, RowTypes, Rentals
  <2>4. QED
    BY <2>2, <2>3
<1>5. /\ \A q \in Reservations : booking'[q].unit = booking[q].unit
      /\ \A q \in Reservations \ {r} : booking'[q] = booking[q] /\ rental'[q] = rental[q]
      /\ booking'[r].status = outcome /\ rental'[r].status = "CANCELLED"
  BY <1>1 DEF IInv, RowTypes, Bookings, Rentals
<1>6. RowTypes'
  BY <1>1, <1>2, <1>4 DEF IInv, RowTypes
<1>7. RowsTrue'
  BY <1>3, <1>5 DEF IInv, RowsTrue, RowTrue, Booked, WasPaid
<1>8. Grows
  BY <1>3, <1>5 DEF Grows, Booked, WasPaid
<1>9. s \in Sessions /\ Carries(s, booking', money', rental')
  <2>1. session[h].op \in {"none", "create", "confirm", "cancel", "cancelRental",
                           "open", "pickup", "tick", "expiry"}
    BY DEF IInv, SessionsTrue, Sessions
  <2>2. QED
    BY <2>1, IdleTrue DEF Idle, Sessions, Carries
<1>10. ASSUME Go(h, s) PROVE SessionsTrue'
  BY <1>8, <1>9, <1>10, GoTrue
<1>11. ASSUME Finish(h) PROVE SessionsTrue'
  BY <1>8, <1>11, FinishTrue
<1>12. QED
  BY <1>6, <1>7, <1>10, <1>11 DEF CloseRental

LEMMA TakeOutTrue ==
  ASSUME IInv, NEW r \in Reservations, TakeOut(r), rental[r].status # "NONE",
         UNCHANGED <<today, money>>
  PROVE  RowTypes' /\ RowsTrue' /\ Grows
<1>1. /\ unit' \in [Units -> UnitStatus] /\ inCell' \in [Units -> BOOLEAN]
      /\ booking' = booking
  BY DEF TakeOut, IInv, RowTypes, UnitStatus
<1>2. today \in 0..LastDay /\ today + Days + 1 \in 0..(LastDay + Days + 1)
  BY BoundsAssumption DEF IInv, RowTypes
<1>3. rental' = [rental EXCEPT ![r] = [@ EXCEPT !.status = "ACTIVE", !.from = today,
                                                !.till = today + Days + 1]]
  BY DEF TakeOut
<1>4. rental' \in [Reservations -> Rentals]
  BY <1>2, <1>3 DEF IInv, RowTypes, Rentals, Unfinished
<1>5. /\ \A q \in Reservations \ {r} : rental'[q] = rental[q]
      /\ rental'[r].status = "ACTIVE"
  BY <1>3 DEF IInv, RowTypes, Rentals
<1>6. RowTypes'
  BY <1>1, <1>4 DEF IInv, RowTypes
<1>7. RowsTrue' /\ Grows
  BY <1>1, <1>5 DEF IInv, RowsTrue, RowTrue, Grows, Booked, WasPaid
<1>8. QED
  BY <1>6, <1>7

-----------------------------------------------------------------------------
(* Time, payment, creation.                                                 *)

LEMMA DayPassesKeeps ==
  ASSUME IInv, DayPasses PROVE IInv'
<1>1. RowTypes'
  BY BoundsAssumption DEF IInv, RowTypes, DayPasses, rows
<1>2. RowsTrue' /\ Grows
  BY DEF IInv, DayPasses, rows, RowsTrue, RowTrue, Grows, Booked, WasPaid
<1>3. QED
  BY <1>1, <1>2, CallsKept, SessionsKept, StepKeeps DEF DayPasses

LEMMA WindowClosesKeeps ==
  ASSUME IInv, NEW r \in Reservations, WindowCloses(r) PROVE IInv'
<1>1. booking' = [booking EXCEPT ![r].lapsed = TRUE]
  BY DEF WindowCloses
<1>2. RowTypes'
  BY ZenonT(30), <1>1 DEF IInv, RowTypes, WindowCloses, Bookings
<1>3. \A q \in Reservations : /\ booking'[q].unit = booking[q].unit
                              /\ booking'[q].status = booking[q].status
  BY <1>1 DEF IInv, RowTypes, Bookings
<1>4. RowsTrue' /\ Grows
  BY <1>3 DEF IInv, WindowCloses, RowsTrue, RowTrue, Grows, Booked, WasPaid
<1>5. QED
  BY <1>2, <1>4, CallsKept, SessionsKept, StepKeeps DEF WindowCloses

LEMMA PayKeeps ==
  ASSUME IInv, NEW r \in Reservations, Pay(r) PROVE IInv'
<1>1. /\ booking' = [booking EXCEPT ![r].status = "PAYMENT_AUTHORIZED"]
      /\ money' = [money EXCEPT ![r] = "paid"]
      /\ booking[r].status = "AWAITING_PAYMENT"
      /\ UNCHANGED <<today, rental, unit, inCell, pin, session, faults>>
  BY DEF Pay
<1>2. RowTypes'
  BY <1>1 DEF IInv, RowTypes, Bookings, Active
<1>3. CallTypes'
  BY <1>1 DEF IInv, CallTypes
<1>4. /\ \A q \in Reservations : booking'[q].unit = booking[q].unit
      /\ \A q \in Reservations \ {r} : booking'[q] = booking[q] /\ money'[q] = money[q]
      /\ booking'[r].status = "PAYMENT_AUTHORIZED" /\ money'[r] = "paid"
  BY <1>1 DEF IInv, RowTypes, CallTypes, Bookings
<1>5. RowsTrue' /\ Grows
  BY <1>1, <1>4 DEF IInv, RowsTrue, RowTrue, Grows, Booked, WasPaid
<1>6. QED
  BY <1>1, <1>2, <1>3, <1>5, SessionsKept, StepKeeps

(* A step that only takes up work.                                          *)
LEMMA StartStep ==
  ASSUME IInv, NEW h \in Handlers, NEW s \in Sessions,
         Carries(s, booking, money, rental), Go(h, s),
         UNCHANGED <<today, rows, pin, money, faults>>
  PROVE  IInv'
<1>1. RowTypes' /\ RowsTrue' /\ Grows /\ CallTypes'
  BY RowsKept, CallsKept
<1>2. Carries(s, booking', money', rental')
  BY DEF rows
<1>3. SessionsTrue'
  BY <1>1, <1>2, GoTrue
<1>4. QED
  BY <1>1, <1>3, StepKeeps

LEMMA StartCreateKeeps ==
  ASSUME IInv, NEW h \in Handlers, NEW user \in Users, NEW from \in 0..LastDay,
         NEW source \in Reservations \cup {None}, StartCreate(h, user, from, source)
  PROVE  IInv'
<1> DEFINE s(u) == [Idle EXCEPT !.at = "insert", !.op = "create", !.seen = unit[u],
                !.new = [status |-> "AWAITING_PAYMENT", user |-> user,
                         unit |-> u, start |-> from, lapsed |-> FALSE]]
<1>1. PICK u \in Chosen(FreeUnits(source, from), source) : Go(h, s(u))
  BY DEF StartCreate
<1>2. u \in Units
  BY <1>1 DEF Chosen, FreeUnits
<1>3. unit[u] \in UnitStatus
  BY <1>2 DEF IInv, RowTypes
<1>4. [status |-> "AWAITING_PAYMENT", user |-> user, unit |-> u, start |-> from,
       lapsed |-> FALSE] \in Bookings
  BY <1>2 DEF Bookings, Active
<1>5. s(u) \in Sessions /\ Carries(s(u), booking, money, rental)
  BY ZenonT(30), <1>2, <1>3, <1>4, IdleTrue DEF Idle, Sessions, Carries
<1>6. QED
  BY <1>1, <1>5, StartStep DEF StartCreate

LEMMA InsertReservationKeeps ==
  ASSUME IInv, NEW h \in Handlers, InsertReservation(h) PROVE IInv'
<1> DEFINE s == session[h]
<1>1. /\ s.at = "insert" /\ Finish(h)
      /\ UNCHANGED <<today, rental, inCell, pin, money, faults>>
  BY DEF InsertReservation
<1>2. CallTypes'
  BY <1>1, CallsKept
<1>3. CASE UNCHANGED <<booking, unit>>
  BY <1>1, <1>2, <1>3, RowsKept, FinishTrue, StepKeeps DEF rows
<1>4. ASSUME NEW r \in Reservations, booking[r].status = "NONE",
             booking' = [booking EXCEPT ![r] = s.new], SetAside(s.new.unit, s.seen)
      PROVE  IInv'
  <2>1. s.new \in Bookings /\ s.new.status = "AWAITING_PAYMENT" /\ s.new.unit \in Units
    BY <1>1 DEF IInv, SessionsTrue, Carries, Sessions
  <2>2. RowTypes'
    BY <1>1, <1>4, <2>1, SetAsideTypes DEF IInv, RowTypes
  <2>3. /\ \A q \in Reservations \ {r} : booking'[q] = booking[q]
        /\ booking'[r] = s.new
    BY <1>4 DEF IInv, RowTypes
  <2>4. RowsTrue' /\ Grows
    BY <1>1, <1>4, <2>1, <2>3 DEF IInv, RowsTrue, RowTrue, Grows, Booked, WasPaid
  <2>5. QED
    BY <1>1, <1>2, <2>2, <2>4, FinishTrue, StepKeeps
<1>5. QED
  BY <1>3, <1>4 DEF InsertReservation

-----------------------------------------------------------------------------
(* From reservation to rental.                                              *)

LEMMA OfSession ==
  ASSUME IInv, NEW h \in Handlers
  PROVE  session[h] \in Sessions /\ Carries(session[h], booking, money, rental)
  BY DEF IInv, SessionsTrue

LEMMA StartConfirmKeeps ==
  ASSUME IInv, NEW h \in Handlers, NEW r \in Reservations, StartConfirm(h, r)
  PROVE  IInv'
<1> DEFINE s == [Idle EXCEPT !.at = "confirm", !.op = "confirm", !.r = r,
                             !.seen = unit[UnitOf(r)]]
<1>1. unit[UnitOf(r)] \in UnitStatus
  BY DEF StartConfirm, CanHandOver, HandoverReady, UnitStatus
<1>2. WasPaid(r, booking, money)
  BY DEF StartConfirm, IInv, RowsTrue, RowTrue, WasPaid
<1>3. s \in Sessions /\ Carries(s, booking, money, rental)
  BY <1>1, <1>2, IdleTrue DEF Idle, Sessions, Carries
<1>4. QED
  BY <1>3, StartStep DEF StartConfirm

LEMMA ConfirmAnsweredKeeps ==
  ASSUME IInv, NEW h \in Handlers, ConfirmAnswered(h) PROVE IInv'
<1> DEFINE s == session[h]
<1>1. /\ s.at = "confirm" /\ Finish(h) /\ UNCHANGED <<today, money>>
  BY DEF ConfirmAnswered
<1>2. s.r \in Reservations /\ WasPaid(s.r, booking, money)
  BY <1>1, OfSession DEF Carries
<1>3. PICK ok \in BOOLEAN :
        /\ SetPin(UnitOf(s.r), s.r, ok)
        /\ IF ok /\ rental[s.r].status = "NONE"
             THEN \E startAt \in 0..LastDay : HandOver(s.r, s.seen, startAt)
             ELSE UNCHANGED rows
  BY DEF ConfirmAnswered
<1>4. CallTypes'
  BY <1>1, <1>2, <1>3, SetPinTypes
<1>5. RowTypes' /\ RowsTrue' /\ Grows
  BY <1>1, <1>2, <1>3, HandOverTrue, RowsKept
<1>6. QED
  BY <1>1, <1>4, <1>5, FinishTrue, StepKeeps

LEMMA StartTickKeeps ==
  ASSUME IInv, StartTick PROVE IInv'
<1> DEFINE paid == {r \in Reservations : booking[r].status = "PAYMENT_AUTHORIZED"}
           s == [Idle EXCEPT !.at = "sweep", !.op = "tick", !.paid = paid]
<1>1. \A r \in paid : Booked(r, booking) /\ WasPaid(r, booking, money)
  BY DEF IInv, RowsTrue, RowTrue, WasPaid, Booked
<1>2. s \in Sessions /\ Carries(s, booking, money, rental)
  BY <1>1, IdleTrue DEF Idle, Sessions, Carries
<1>3. Maintenance \in Handlers
  BY DEF Handlers
<1>4. QED
  BY <1>2, <1>3, StartStep DEF StartTick

LEMMA SweepOneKeeps ==
  ASSUME IInv, NEW r \in Reservations, SweepOne(r) PROVE IInv'
<1> DEFINE s == session[Maintenance]
           rest == [s EXCEPT !.paid = @ \ {r}]
           go == [rest EXCEPT !.at = "confirm", !.r = r, !.seen = unit[UnitOf(r)]]
<1>1. /\ Maintenance \in Handlers /\ s \in Sessions
      /\ Carries(s, booking, money, rental)
  BY OfSession DEF Handlers
<1>2. /\ s.at = "sweep" /\ r \in s.paid
      /\ UNCHANGED <<today, rental, unit, inCell, pin, money, faults>>
  BY DEF SweepOne
<1>3. WasPaid(r, booking, money)
  BY <1>1, <1>2 DEF Carries
<1>4. rest \in Sessions /\ Carries(rest, booking, money, rental)
  BY <1>1, <1>2 DEF Sessions, Carries
<1>5. CASE Go(Maintenance, rest) /\ UNCHANGED booking
  BY <1>1, <1>2, <1>4, <1>5, StartStep DEF rows
<1>6. CASE /\ booking' = [booking EXCEPT ![r].status = "CONFIRMED"]
           /\ Go(Maintenance, rest)
  <2>1. Booked(r, booking) /\ unit' \in [Units -> UnitStatus]
    BY <1>2, <1>3 DEF Booked, WasPaid, IInv, RowTypes
  <2>2. RowTypes' /\ RowsTrue' /\ Grows
    BY <1>2, <1>6, <2>1, BookingTrue
  <2>3. CallTypes'
    BY <1>2, CallsKept
  <2>4. SessionsTrue'
    BY <1>1, <1>4, <1>6, <2>2, CarriesStays, GoTrue
  <2>5. QED
    BY <2>2, <2>3, <2>4, StepKeeps
<1>7. CASE Go(Maintenance, go) /\ UNCHANGED booking /\ CanHandOver(r)
  <2>1. unit[UnitOf(r)] \in UnitStatus
    BY <1>7 DEF CanHandOver, HandoverReady, UnitStatus
  <2>2. go \in Sessions /\ Carries(go, booking, money, rental)
    BY ZenonT(30), <1>1, <1>2, <1>3, <2>1 DEF Sessions, Carries
  <2>3. QED
    BY <1>1, <1>2, <1>7, <2>2, StartStep DEF rows
<1>8. QED
  BY <1>5, <1>6, <1>7 DEF SweepOne

LEMMA SweepAnsweredKeeps ==
  ASSUME IInv, SweepAnswered PROVE IInv'
<1> DEFINE s == session[Maintenance]
           next == [s EXCEPT !.at = "sweep", !.r = None, !.seen = "NONE"]
           dead == [next EXCEPT !.paid = {}]
<1>1. /\ Maintenance \in Handlers /\ s \in Sessions
      /\ Carries(s, booking, money, rental)
  BY OfSession DEF Handlers
<1>2. s.at = "confirm" /\ UNCHANGED <<today, money>>
  BY DEF SweepAnswered
<1>3. s.r \in Reservations /\ WasPaid(s.r, booking, money)
  BY <1>1, <1>2 DEF Carries
<1>4. PICK ok \in BOOLEAN :
        /\ SetPin(UnitOf(s.r), s.r, ok)
        /\ IF /\ ok /\ booking[s.r].status = "PAYMENT_AUTHORIZED"
              /\ rental[s.r].status = "NONE"
             THEN /\ \E from \in {booking[s.r].start, Later(booking[s.r].start, today)} :
                       HandOver(s.r, s.seen, from)
                  /\ Go(Maintenance, next)
             ELSE UNCHANGED rows /\ Go(Maintenance, dead)
  BY DEF SweepAnswered
<1>5. CallTypes'
  BY <1>2, <1>3, <1>4, SetPinTypes
<1>10. {booking[s.r].start, Later(booking[s.r].start, today)} \subseteq 0..LastDay
  BY <1>3 DEF Later, IInv, RowTypes, Bookings
<1>6. RowTypes' /\ RowsTrue' /\ Grows
  BY <1>2, <1>3, <1>4, <1>10, HandOverTrue, RowsKept
<1>7. /\ next \in Sessions /\ Carries(next, booking, money, rental)
      /\ dead \in Sessions /\ Carries(dead, booking, money, rental)
  BY ZenonT(30), <1>1, <1>2 DEF Sessions, Carries
<1>8. SessionsTrue'
  BY <1>1, <1>4, <1>6, <1>7, CarriesStays, GoTrue
<1>9. QED
  BY <1>5, <1>6, <1>8, StepKeeps

-----------------------------------------------------------------------------
(* The expiry sweep.                                                        *)

LEMMA StartExpiryKeeps ==
  ASSUME IInv, StartExpiry PROVE IInv'
<1> DEFINE s == session[Maintenance]
           stale(st) == {r \in Reservations : booking[r].status = st /\ IsExpired(r)}
           t == [s EXCEPT !.at = "expire", !.paid = stale("PAYMENT_AUTHORIZED"),
                          !.unpaid = stale("AWAITING_PAYMENT")]
<1>1. /\ Maintenance \in Handlers /\ s \in Sessions
      /\ Carries(s, booking, money, rental)
  BY OfSession DEF Handlers
<1>2. Go(Maintenance, t) /\ UNCHANGED <<today, rows, pin, money, faults>>
  BY DEF StartExpiry
<1>3. t \in Sessions /\ Carries(t, booking, money, rental)
  BY ZenonT(30), <1>1 DEF Sessions, Carries, Booked
<1>4. QED
  BY <1>1, <1>2, <1>3, StartStep

LEMMA ExpiredTrue ==
  ASSUME IInv, NEW s \in Sessions, Carries(s, booking, money, rental),
         NEW r \in Reservations, Booked(r, booking), NEW closed \in BOOLEAN
  PROVE  /\ Expired(s, r, closed) \in Sessions
         /\ Carries(Expired(s, r, closed), booking, money, rental)
<1>1. UnitOf(r) \in Units
  BY DEF IInv, RowsTrue, RowTrue, UnitOf
<1>2. Expired(s, r, closed) \in Sessions
  BY <1>1 DEF Expired, Sessions
<1>3. Carries(Expired(s, r, closed), booking, money, rental)
  BY DEF Expired, Sessions, Carries
<1>4. QED
  BY <1>2, <1>3

LEMMA ExpireOneKeeps ==
  ASSUME IInv, Ticks, NEW r \in Reservations, ExpireOne(r) PROVE IInv'
<1> DEFINE s == session[Maintenance]
           t == [s EXCEPT !.at = "refund", !.r = r]
<1>1. /\ Maintenance \in Handlers /\ s \in Sessions
      /\ Carries(s, booking, money, rental)
  BY OfSession DEF Handlers
<1>2. /\ s.at = "expire" /\ r \in s.paid \cup s.unpaid
      /\ UNCHANGED <<today, rows, pin, money, faults>>
  BY DEF ExpireOne
<1>3. Booked(r, booking)
  BY <1>1, <1>2 DEF Carries
<1>4. CASE Go(Maintenance, Expired(s, r, TRUE))
  BY <1>1, <1>2, <1>3, <1>4, ExpiredTrue, StartStep
<1>5. CASE Go(Maintenance, t)
  <2>1. s.op \notin {"cancelRental", "expiry"}
    BY DEF Ticks
  <2>2. t \in Sessions /\ Carries(t, booking, money, rental)
    BY <1>1, <1>2, <1>3, <2>1 DEF Sessions, Carries
  <2>3. QED
    BY <1>1, <1>2, <1>5, <2>2, StartStep
<1>6. QED
  BY <1>4, <1>5 DEF ExpireOne

LEMMA ExpireRefundedKeeps ==
  ASSUME IInv, ExpireRefunded PROVE IInv'
<1> DEFINE s == session[Maintenance]
<1>1. /\ Maintenance \in Handlers /\ s \in Sessions
      /\ Carries(s, booking, money, rental)
  BY OfSession DEF Handlers
<1>2. s.at = "refund" /\ UNCHANGED <<today, rows, pin>>
  BY DEF ExpireRefunded
<1>3. s.r \in Reservations /\ Booked(s.r, booking)
  BY <1>1, <1>2 DEF Carries
<1>4. PICK ok \in BOOLEAN : /\ Refund(s.r, "returning", ok)
                            /\ Go(Maintenance, Expired(s, s.r, ok))
  BY DEF ExpireRefunded
<1>5. CallTypes' /\ RowTypes' /\ RowsTrue' /\ Grows
  BY <1>2, <1>3, <1>4, RefundTrue, MoneyGrows
<1>6. SessionsTrue'
  BY <1>1, <1>3, <1>4, <1>5, ExpiredTrue, CarriesStays, GoTrue
<1>7. QED
  BY <1>5, <1>6, StepKeeps

LEMMA ExpiryCommittedKeeps ==
  ASSUME IInv, ExpiryCommitted PROVE IInv'
<1> DEFINE s == session[Maintenance]
<1>1. /\ Maintenance \in Handlers /\ s \in Sessions
      /\ Carries(s, booking, money, rental)
  BY OfSession DEF Handlers
<1>2. /\ booking' = [r \in Reservations |->
                       IF r \in s.done THEN [booking[r] EXCEPT !.status = "EXPIRED"]
                                       ELSE booking[r]]
      /\ unit' = [u \in Units |-> IF u \in s.freed THEN "AVAILABLE" ELSE unit[u]]
      /\ money' = [r \in Reservations |->
                     IF r \in s.done /\ money[r] = "returning" THEN "returned"
                                                               ELSE money[r]]
      /\ Finish(Maintenance)
      /\ UNCHANGED <<today, rental, inCell, pin, faults>>
  BY DEF ExpiryCommitted
<1>3. \A r \in s.done : Booked(r, booking)
  BY <1>1 DEF Carries
<1>4. RowTypes'
  BY <1>2 DEF IInv, RowTypes, Bookings, UnitStatus
<1>5. CallTypes'
  BY <1>2 DEF IInv, CallTypes
<1>6. \A r \in Reservations :
        /\ booking'[r].unit = booking[r].unit
        /\ IF r \in s.done THEN booking'[r].status = "EXPIRED"
                           ELSE booking'[r].status = booking[r].status
        /\ money'[r] = money[r] \/ (money[r] = "returning" /\ money'[r] = "returned")
  BY <1>2 DEF IInv, RowTypes, Bookings
<1>7. RowsTrue' /\ Grows
  BY <1>2, <1>3, <1>6 DEF IInv, RowsTrue, RowTrue, Grows, Booked, WasPaid
<1>8. QED
  BY <1>1, <1>2, <1>4, <1>5, <1>7, FinishTrue, StepKeeps

-----------------------------------------------------------------------------
(* Cancellations.                                                           *)

LEMMA CloseReservationTrue ==
  ASSUME IInv, NEW r \in Reservations, CloseReservation(r), Booked(r, booking),
         UNCHANGED <<today, money>>
  PROVE  RowTypes' /\ RowsTrue' /\ Grows
<1>1. unit' \in [Units -> UnitStatus]
  BY DEF CloseReservation, IInv, RowTypes, UnitStatus
<1>2. QED
  BY <1>1, BookingTrue DEF CloseReservation

LEMMA StartCancelKeeps ==
  ASSUME IInv, NEW h \in Handlers, NEW r \in Reservations, StartCancel(h, r)
  PROVE  IInv'
<1> DEFINE s == [Idle EXCEPT !.at = "refund", !.op = "cancel", !.r = r]
<1>1. Booked(r, booking) /\ UNCHANGED <<today, pin, money, faults>>
  BY DEF StartCancel, IsActive, Active, Booked
<1>2. s \in Sessions /\ Carries(s, booking, money, rental)
  BY <1>1, IdleTrue DEF Idle, Sessions, Carries
<1>3. CASE Go(h, s) /\ UNCHANGED rows
  BY <1>1, <1>2, <1>3, StartStep
<1>4. CASE CloseReservation(r) /\ UNCHANGED session
  BY <1>1, <1>4, CloseReservationTrue, CallsKept, SessionsKept, StepKeeps
<1>5. QED
  BY <1>3, <1>4 DEF StartCancel

(* The money moved, then the reservation closed.                            *)
LEMMA CancelRefundedKeeps ==
  ASSUME IInv, NEW h \in Handlers, CancelRefunded(h) PROVE IInv'
<1> DEFINE s == session[h]
<1>1. s.at = "refund" /\ Finish(h) /\ UNCHANGED <<today, pin>>
  BY DEF CancelRefunded
<1>2. s.r \in Reservations /\ Booked(s.r, booking)
  BY <1>1, OfSession DEF Carries
<1>3. PICK ok \in BOOLEAN :
        /\ Refund(s.r, "returned", ok)
        /\ IF ok THEN CloseReservation(s.r) ELSE UNCHANGED rows
  BY DEF CancelRefunded
<1>4. /\ CallTypes'
      /\ \A q \in Reservations : \/ money'[q] = money[q]
                                 \/ money[q] = "paid" /\ money'[q] # "none"
  BY <1>1, <1>2, <1>3, RefundTrue
<1>5. CASE UNCHANGED rows
  BY <1>1, <1>4, <1>5, MoneyGrows, FinishTrue, StepKeeps
<1>6. CASE CloseReservation(s.r)
  <2>1. /\ booking' = [booking EXCEPT ![s.r].status = "CANCELLED"]
        /\ unit' \in [Units -> UnitStatus] /\ UNCHANGED <<rental, inCell>>
    BY <1>6 DEF CloseReservation, IInv, RowTypes, UnitStatus
  <2>2. RowTypes'
    BY ZenonT(30), <1>1, <2>1 DEF IInv, RowTypes, Bookings
  <2>3. /\ \A q \in Reservations : booking'[q].unit = booking[q].unit
        /\ \A q \in Reservations \ {s.r} : booking'[q] = booking[q]
        /\ booking'[s.r].status = "CANCELLED"
    BY <1>2, <2>1 DEF IInv, RowTypes, Bookings
  <2>4. RowsTrue' /\ Grows
    BY <1>2, <1>4, <2>1, <2>3 DEF IInv, RowsTrue, RowTrue, Grows, Booked, WasPaid
  <2>5. QED
    BY <1>1, <1>4, <2>2, <2>4, FinishTrue, StepKeeps
<1>7. QED
  BY <1>3, <1>5, <1>6

(* A rental without a payment that looks paid has had its money returned.   *)
LEMMA NotPaidIsReturned ==
  ASSUME IInv, NEW r \in Reservations, rental[r].status # "NONE", ~LooksPaid(r)
  PROVE  money[r] = "returned"
  BY DEF IInv, CallTypes, RowsTrue, RowTrue, WasPaid, LooksPaid

LEMMA StartEnd ==
  ASSUME IInv, NEW h \in Handlers, NEW r \in Reservations,
         NEW op \in {"cancelRental", "expiry"},
         NEW outcome, outcome \in {"CANCELLED", booking[r].status},
         rental[r].status # "NONE", UNCHANGED <<today, pin, money, faults>>,
         IF LooksPaid(r)
           THEN /\ Go(h, [Idle EXCEPT !.at = "refund", !.op = op, !.r = r])
                /\ UNCHANGED rows
           ELSE CloseRental(h, r, outcome)
  PROVE  IInv'
<1> DEFINE s == [Idle EXCEPT !.at = "refund", !.op = op, !.r = r]
<1>1. CASE LooksPaid(r)
  <2>1. Booked(r, booking)
    BY DEF IInv, RowsTrue, RowTrue, WasPaid, Booked
  <2>2. s \in Sessions /\ Carries(s, booking, money, rental)
    BY <2>1, IdleTrue DEF Idle, Sessions, Carries
  <2>3. QED
    BY <1>1, <2>2, StartStep
<1>2. CASE ~LooksPaid(r)
  <2>1. money'[r] = "returned" /\ CallTypes'
    BY <1>2, NotPaidIsReturned, CallsKept
  <2>2. QED
    BY <1>2, <2>1, CloseRentalTrue, StepKeeps
<1>3. QED
  BY <1>1, <1>2

LEMMA StartCancelRentalKeeps ==
  ASSUME IInv, NEW h \in Handlers, NEW r \in Reservations, StartCancelRental(h, r)
  PROVE  IInv'
  BY StartEnd DEF StartCancelRental

LEMMA StartPickupExpiryKeeps ==
  ASSUME IInv, NEW r \in Reservations, StartPickupExpiry(r) PROVE IInv'
<1>1. PickupExpiry \in Handlers
  BY DEF Handlers
<1>2. QED
  BY <1>1, StartEnd DEF StartPickupExpiry

LEMMA RentalRefundedKeeps ==
  ASSUME IInv, NEW h \in Handlers, RentalRefunded(h) PROVE IInv'
<1> DEFINE s == session[h]
           outcome == IF s.op = "expiry" THEN booking[s.r].status ELSE "CANCELLED"
<1>1. s.at = "refund" /\ s.op \in {"cancelRental", "expiry"} /\ UNCHANGED <<today, pin>>
  BY DEF RentalRefunded
<1>2. s.r \in Reservations /\ rental[s.r].status # "NONE"
  BY <1>1, OfSession DEF Carries
<1>3. PICK ok \in BOOLEAN :
        /\ Refund(s.r, "returned", ok)
        /\ IF ok THEN CloseRental(h, s.r, outcome)
                 ELSE Finish(h) /\ UNCHANGED rows
  BY DEF RentalRefunded
<1>4. /\ CallTypes'
      /\ ok => money'[s.r] = "returned"
      /\ \A q \in Reservations : \/ money'[q] = money[q]
                                 \/ money[q] = "paid" /\ money'[q] # "none"
  BY <1>1, <1>2, <1>3, RefundTrue
<1>5. CASE ok
  BY <1>1, <1>2, <1>3, <1>4, <1>5, CloseRentalTrue, StepKeeps
<1>6. CASE ~ok
  BY <1>1, <1>3, <1>4, <1>6, MoneyGrows, FinishTrue, StepKeeps
<1>7. QED
  BY <1>5, <1>6

LEMMA PinResetKeeps ==
  ASSUME IInv, NEW h \in Handlers, PinReset(h) PROVE IInv'
<1>1. PICK ok \in BOOLEAN : SetPin(UnitOf(session[h].r), None, ok)
  BY DEF PinReset
<1>2. Finish(h) /\ UNCHANGED <<today, rows, money>>
  BY DEF PinReset
<1>3. CallTypes'
  BY <1>1, <1>2, SetPinTypes
<1>4. QED
  BY <1>2, <1>3, RowsKept, FinishTrue, StepKeeps

-----------------------------------------------------------------------------
(* Pickup and return.                                                       *)

LEMMA StartOpenKeeps ==
  ASSUME IInv, NEW h \in Handlers, NEW r \in Reservations, StartOpen(h, r)
  PROVE  IInv'
<1> DEFINE s == [Idle EXCEPT !.at = "open", !.op = "open", !.r = r,
                             !.seen = rental[r].status]
<1>1. rental[r].status \in AwaitingPickup
  BY DEF StartOpen
<1>2. s \in Sessions /\ Carries(s, booking, money, rental)
  BY <1>1, IdleTrue DEF Idle, Sessions, Carries, AwaitingPickup
<1>3. QED
  BY <1>2, StartStep DEF StartOpen

(* Steps that move rentals on, none of them to CANCELLED.                   *)
LEMMA RentalsTrue ==
  ASSUME IInv, rental' \in [Reservations -> Rentals],
         \A r \in Reservations :
           \/ rental'[r].status = rental[r].status
           \/ rental[r].status # "NONE" /\ rental'[r].status \notin {"NONE", "CANCELLED"},
         UNCHANGED <<today, booking, money>>,
         unit' \in [Units -> UnitStatus], inCell' \in [Units -> BOOLEAN]
  PROVE  RowTypes' /\ RowsTrue' /\ Grows
  BY DEF IInv, RowTypes, RowsTrue, RowTrue, Grows, Booked, WasPaid

(* The rental is opened whatever it has become since it was loaded.         *)
LEMMA OpenAnsweredKeeps ==
  ASSUME IInv, NEW h \in Handlers, OpenAnswered(h) PROVE IInv'
<1> DEFINE s == session[h]
<1>1. /\ s.at = "open" /\ Finish(h)
      /\ UNCHANGED <<today, booking, unit, inCell, pin, money>>
  BY DEF OpenAnswered
<1>2. s.r \in Reservations /\ rental[s.r].status # "NONE"
  BY <1>1, OfSession DEF Carries
<1>3. PICK ok \in BOOLEAN :
        /\ Locker(UnitOf(s.r), ok)
        /\ rental' = IF ok /\ s.seen = "PICKUP_READY"
                       THEN [rental EXCEPT ![s.r].status = "PICKUP_OPENED"]
                       ELSE rental
  BY DEF OpenAnswered
<1>4. CallTypes'
  BY <1>1, <1>3, LockerFaults DEF IInv, CallTypes
<1>5. rental' \in [Reservations -> Rentals]
  BY ZenonT(30), <1>3 DEF IInv, RowTypes, Rentals, Unfinished, AwaitingPickup
<1>6. \A r \in Reservations :
        \/ rental'[r].status = rental[r].status
        \/ rental[r].status # "NONE" /\ rental'[r].status \notin {"NONE", "CANCELLED"}
  BY <1>2, <1>3 DEF IInv, RowTypes, Rentals
<1>7. unit' \in [Units -> UnitStatus] /\ inCell' \in [Units -> BOOLEAN]
  BY <1>1 DEF IInv, RowTypes
<1>8. QED
  BY <1>1, <1>4, <1>5, <1>6, <1>7, RentalsTrue, FinishTrue, StepKeeps

LEMMA StartPickupKeeps ==
  ASSUME IInv, NEW h \in Handlers, NEW r \in Reservations, StartPickup(h, r)
  PROVE  IInv'
<1> DEFINE s == [Idle EXCEPT !.at = "pickup", !.op = "pickup", !.r = r]
<1>1. rental[r].status # "NONE" /\ UNCHANGED <<today, pin, money, faults>>
  BY DEF StartPickup, AwaitingPickup
<1>2. s \in Sessions /\ Carries(s, booking, money, rental)
  BY <1>1, IdleTrue DEF Idle, Sessions, Carries
<1>3. CASE Go(h, s) /\ UNCHANGED rows
  BY <1>1, <1>2, <1>3, StartStep
<1>4. CASE TakeOut(r) /\ UNCHANGED session
  BY <1>1, <1>4, TakeOutTrue, CallsKept, SessionsKept, StepKeeps
<1>5. QED
  BY <1>3, <1>4 DEF StartPickup

LEMMA PickupAnsweredKeeps ==
  ASSUME IInv, NEW h \in Handlers, PickupAnswered(h) PROVE IInv'
<1> DEFINE s == session[h]
<1>1. s.at = "pickup" /\ Finish(h) /\ UNCHANGED <<today, money>>
  BY DEF PickupAnswered
<1>2. s.r \in Reservations /\ rental[s.r].status # "NONE"
  BY <1>1, OfSession DEF Carries
<1>3. PICK ok \in BOOLEAN :
        /\ SetPin(UnitOf(s.r), s.r, ok)
        /\ IF ok THEN TakeOut(s.r) ELSE UNCHANGED rows
  BY DEF PickupAnswered
<1>4. CallTypes'
  BY <1>1, <1>2, <1>3, SetPinTypes
<1>5. RowTypes' /\ RowsTrue' /\ Grows
  BY <1>1, <1>2, <1>3, TakeOutTrue, RowsKept
<1>6. QED
  BY <1>1, <1>4, <1>5, FinishTrue, StepKeeps

LEMMA AutoPickupKeeps ==
  ASSUME IInv, NEW r \in Reservations, AutoPickup(r) PROVE IInv'
  BY TakeOutTrue, CallsKept, SessionsKept, StepKeeps DEF AutoPickup

LEMMA ReturnCompletedKeeps ==
  ASSUME IInv, NEW r \in Reservations, ReturnCompleted(r) PROVE IInv'
<1>1. /\ rental[r].status = "ACTIVE"
      /\ rental' = [rental EXCEPT ![r].status = "COMPLETED", ![r].till = today + 1]
      /\ UNCHANGED <<today, booking, pin, money, session, faults>>
  BY DEF ReturnCompleted
<1>2. unit' \in [Units -> UnitStatus] /\ inCell' \in [Units -> BOOLEAN]
  BY DEF ReturnCompleted, IInv, RowTypes, UnitStatus
<1>3. today + 1 \in 0..(LastDay + Days + 1)
  BY BoundsAssumption DEF IInv, RowTypes
<1>4. rental' \in [Reservations -> Rentals]
  BY ZenonT(30), <1>1, <1>3 DEF IInv, RowTypes, Rentals
<1>5. \A q \in Reservations :
        \/ rental'[q].status = rental[q].status
        \/ rental[q].status # "NONE" /\ rental'[q].status \notin {"NONE", "CANCELLED"}
  BY <1>1 DEF IInv, RowTypes, Rentals
<1>6. QED
  BY <1>1, <1>2, <1>4, <1>5, RentalsTrue, CallsKept, SessionsKept, StepKeeps

LEMMA ConfirmReadyKeeps ==
  ASSUME IInv, NEW u \in Units, ConfirmReady(u) PROVE IInv'
<1>1. /\ rental' = [r \in Reservations |->
                     IF UnitOf(r) = u /\ IsUnfinished(r)
                       THEN [rental[r] EXCEPT !.status = "COMPLETED", !.till = today + 1]
                       ELSE rental[r]]
      /\ UNCHANGED <<today, booking, inCell, pin, money, session, faults>>
  BY DEF ConfirmReady
<1>2. unit' \in [Units -> UnitStatus] /\ inCell' \in [Units -> BOOLEAN]
  BY DEF ConfirmReady, IInv, RowTypes, UnitStatus
<1>3. today + 1 \in 0..(LastDay + Days + 1)
  BY BoundsAssumption DEF IInv, RowTypes
<1>4. rental' \in [Reservations -> Rentals]
  BY ZenonT(30), <1>1, <1>3 DEF IInv, RowTypes, Rentals
<1>5. \A q \in Reservations :
        \/ rental'[q].status = rental[q].status
        \/ rental[q].status # "NONE" /\ rental'[q].status \notin {"NONE", "CANCELLED"}
  BY <1>1 DEF IInv, RowTypes, Rentals, IsUnfinished, Unfinished, AwaitingPickup
<1>6. QED
  BY <1>1, <1>2, <1>4, <1>5, RentalsTrue, CallsKept, SessionsKept, StepKeeps

-----------------------------------------------------------------------------
(* The maintenance thread.                                                  *)

(* What the other threads do is not its work.                               *)
LEMMA OthersGo ==
  ASSUME IInv, Ticks, NEW h \in Handlers \ {Maintenance}, NEW s,
         Go(h, s) \/ UNCHANGED session
  PROVE  Ticks'
<1>1. Maintenance \in Handlers /\ session \in [Handlers -> Sessions]
  BY DEF Handlers, IInv, SessionsTrue
<1>2. session'[Maintenance] = session[Maintenance]
  BY <1>1 DEF Go
<1>3. QED
  BY <1>2 DEF Ticks

LEMMA OthersTick ==
  ASSUME IInv, Ticks, NEW h \in Handlers \ {Maintenance},
         \/ Starts(h) \/ Answered(h)
         \/ \E r \in Reservations : h = PickupExpiry /\ StartPickupExpiry(r)
  PROVE  Ticks'
<1>1. ASSUME NEW r, NEW outcome, CloseRental(h, r, outcome) PROVE Ticks'
  BY <1>1, OthersGo DEF CloseRental, Finish
<1>2. ASSUME Starts(h) PROVE Ticks'
  BY <1>1, <1>2, OthersGo DEF Starts, StartCreate, StartConfirm, StartCancel,
       StartCancelRental, StartOpen, StartPickup
<1>3. ASSUME Answered(h) PROVE Ticks'
  BY <1>1, <1>3, OthersGo DEF Answered, InsertReservation, ConfirmAnswered,
       CancelRefunded, RentalRefunded, PinReset, OpenAnswered, PickupAnswered, Finish
<1>4. ASSUME NEW r \in Reservations, h = PickupExpiry, StartPickupExpiry(r)
      PROVE  Ticks'
  BY <1>1, <1>4, OthersGo DEF StartPickupExpiry
<1>5. QED
  BY <1>2, <1>3, <1>4

LEMMA MaintenanceTicks ==
  ASSUME IInv, Ticks, MaintenanceStep PROVE Ticks'
<1> DEFINE s == session[Maintenance]
<1>1. /\ Maintenance \in Handlers /\ session \in [Handlers -> Sessions]
      /\ s \in Sessions
  BY DEF Handlers, IInv, SessionsTrue
<1>2. ASSUME NEW t, Go(Maintenance, t), t.op \in {"none", "tick"} PROVE Ticks'
  BY <1>1, <1>2 DEF Go, Ticks
<1>3. Idle.op = "none"
  BY DEF Idle
<1>4. ASSUME NEW r, NEW closed PROVE Expired(s, r, closed).op = s.op
  BY <1>1 DEF Expired, Sessions
<1>5. ASSUME StartTick PROVE Ticks'
  BY <1>2, <1>5 DEF StartTick, Idle
<1>6. ASSUME SweepAnswered PROVE Ticks'
  BY <1>1, <1>2, <1>6 DEF SweepAnswered, Sessions, Ticks
<1>7. ASSUME StartExpiry PROVE Ticks'
  BY <1>1, <1>2, <1>7 DEF StartExpiry, Sessions, Ticks
<1>8. ASSUME ExpireRefunded PROVE Ticks'
  BY <1>2, <1>4, <1>8 DEF ExpireRefunded, Ticks
<1>9. ASSUME ExpiryCommitted PROVE Ticks'
  BY <1>2, <1>3, <1>9 DEF ExpiryCommitted, Finish
<1>10. ASSUME NEW r \in Reservations, SweepOne(r) PROVE Ticks'
  BY <1>1, <1>2, <1>10 DEF SweepOne, Sessions, Ticks
<1>11. ASSUME NEW r \in Reservations, ExpireOne(r) PROVE Ticks'
  <2>1. [s EXCEPT !.at = "refund", !.r = r].op = s.op
    BY <1>1 DEF Sessions
  <2>2. QED
    BY <1>2, <1>4, <1>11, <2>1 DEF ExpireOne, Ticks
<1>12. QED
  BY <1>5, <1>6, <1>7, <1>8, <1>9, <1>10, <1>11 DEF MaintenanceStep

-----------------------------------------------------------------------------
(* The specification.                                                       *)

LEMMA InitTrue == Init => IInv /\ Ticks
<1> SUFFICES ASSUME Init PROVE IInv /\ Ticks
  OBVIOUS
<1>1. NoBooking \in Bookings /\ NoRental \in Rentals
  BY BoundsAssumption DEF NoBooking, Bookings, NoRental, Rentals
<1>2. RowTypes /\ CallTypes
  BY <1>1, BoundsAssumption DEF Init, RowTypes, CallTypes, UnitStatus
<1>3. RowsTrue
  BY DEF Init, RowsTrue, RowTrue, NoBooking, NoRental, Booked
<1>4. SessionsTrue
  BY IdleTrue DEF Init, SessionsTrue
<1>5. Ticks
  BY DEF Init, Ticks, Handlers, Idle
<1>6. QED
  BY <1>2, <1>3, <1>4, <1>5 DEF IInv

LEMMA StutterKeeps ==
  ASSUME IInv, Ticks, UNCHANGED vars PROVE IInv' /\ Ticks'
<1>1. UNCHANGED <<today, rows>> /\ UNCHANGED <<pin, money, faults>> /\ UNCHANGED session
  BY DEF vars, rows
<1>2. QED
  BY <1>1, RowsKept, CallsKept, SessionsKept, StepKeeps DEF Ticks

LEMMA RequestKeeps ==
  ASSUME IInv, Ticks, NEW h \in Requests, Starts(h) \/ Answered(h)
  PROVE  IInv' /\ Ticks'
<1>1. h \in Handlers \ {Maintenance}
  BY NamesAssumption DEF Handlers
<1>2. ASSUME Starts(h) PROVE IInv'
  BY <1>1, <1>2, StartCreateKeeps, StartConfirmKeeps, StartCancelKeeps,
     StartCancelRentalKeeps, StartOpenKeeps, StartPickupKeeps DEF Starts
<1>3. ASSUME Answered(h) PROVE IInv'
  BY <1>1, <1>3, InsertReservationKeeps, ConfirmAnsweredKeeps, CancelRefundedKeeps,
     RentalRefundedKeeps, PinResetKeeps, OpenAnsweredKeeps, PickupAnsweredKeeps
     DEF Answered
<1>4. Ticks'
  BY <1>1, OthersTick
<1>5. QED
  BY <1>2, <1>3, <1>4

LEMMA PickupExpiryKeeps ==
  ASSUME IInv, Ticks, PickupExpiryStep PROVE IInv' /\ Ticks'
<1>1. PickupExpiry \in Handlers \ {Maintenance}
  BY NamesAssumption DEF Handlers
<1>2. IInv'
  BY <1>1, StartPickupExpiryKeeps, RentalRefundedKeeps, PinResetKeeps DEF PickupExpiryStep
<1>3. Ticks'
  BY <1>1, OthersTick DEF PickupExpiryStep, Answered
<1>4. QED
  BY <1>2, <1>3

LEMMA MaintenanceKeeps ==
  ASSUME IInv, Ticks, MaintenanceStep PROVE IInv' /\ Ticks'
<1>1. IInv'
  BY StartTickKeeps, SweepAnsweredKeeps, StartExpiryKeeps, ExpireRefundedKeeps,
     ExpiryCommittedKeeps, SweepOneKeeps, ExpireOneKeeps DEF MaintenanceStep
<1>2. QED
  BY <1>1, MaintenanceTicks

LEMMA NextKeeps == IInv /\ Ticks /\ [Next]_vars => (IInv /\ Ticks)'
<1> SUFFICES ASSUME IInv, Ticks, [Next]_vars PROVE IInv' /\ Ticks'
  OBVIOUS
<1>1. CASE DayPasses
  BY <1>1, DayPassesKeeps DEF DayPasses, Ticks
<1>2. ASSUME NEW r \in Reservations,
             WindowCloses(r) \/ Pay(r) \/ AutoPickup(r) \/ ReturnCompleted(r)
      PROVE  IInv' /\ Ticks'
  <2>1. IInv'
    BY <1>2, WindowClosesKeeps, PayKeeps, AutoPickupKeeps, ReturnCompletedKeeps
  <2>2. Ticks'
    BY <1>2 DEF WindowCloses, Pay, AutoPickup, ReturnCompleted, Ticks
  <2>3. QED
    BY <2>1, <2>2
<1>3. ASSUME NEW u \in Units, ConfirmReady(u) PROVE IInv' /\ Ticks'
  BY <1>3, ConfirmReadyKeeps DEF ConfirmReady, Ticks
<1>4. ASSUME NEW h \in Requests, Starts(h) \/ Answered(h) PROVE IInv' /\ Ticks'
  BY <1>4, RequestKeeps
<1>5. CASE PickupExpiryStep
  BY <1>5, PickupExpiryKeeps
<1>6. CASE MaintenanceStep
  BY <1>6, MaintenanceKeeps
<1>7. CASE UNCHANGED vars
  BY <1>7, StutterKeeps
<1>8. QED
  BY <1>1, <1>2, <1>3, <1>4, <1>5, <1>6, <1>7 DEF Next

(* In every state, whatever the order of calls and answers, rows and the    *)
(* copies handlers carry across their calls agree on what was booked, paid  *)
(* and rented.                                                              *)
THEOREM HandoverAlways == Spec => [](IInv /\ Ticks)
  BY InitTrue, NextKeeps, PTL DEF Spec

(* Type correctness: every column keeps one of its values.                  *)
THEOREM HandoverTypes == Spec => []TypeOK
<1>1. IInv => TypeOK
  BY DEF IInv, RowTypes, CallTypes, SessionsTrue, TypeOK
<1>2. QED
  BY <1>1, HandoverAlways, PTL

(* A rental is cancelled only after its money went back: by the client, by  *)
(* the expiry of its pickup, or because the money had been returned before. *)
THEOREM CancelledRefunded == Spec => []CancelledIsRefunded
<1>1. IInv => CancelledIsRefunded
  BY DEF IInv, RowsTrue, RowTrue, CancelledIsRefunded
<1>2. QED
  BY <1>1, HandoverAlways, PTL

-----------------------------------------------------------------------------
(* One handler at a time.  Who has or awaits an item has paid for it, and    *)
(* live bookings share no day.  And until a rental is awaited beyond its     *)
(* days (WithinDays), an item is promised to one rental and the code in the  *)
(* application opens the cell: a rental of past days does not hold its unit, *)
(* so the unit is handed over again, and with it the code.                  *)
(*                                                                         *)
(* With handlers that interleave none of this holds (run queue_overlap shows *)
(* what does).                                                              *)
(*                                                                         *)
(* The two arguments are one, about the rows and about what a handler relies *)
(* on across its call; within stands for "so far, no rental was awaited      *)
(* beyond its days", and the parts that need it are conditional on it.       *)

Waits(r, R) == R[r].status \in AwaitingPickup
Apart(a, b) == a + Days <= b \/ b + Days <= a
Claimed(u, B, R) == \E q \in Reservations : B[q].unit = u /\ Waits(q, R)

(* What a handler relies on across its call, when no other handler runs.    *)
Ready(within, s, B, R, U, C) ==
  LET b == B[s.r] IN
  /\ b.status = "PAYMENT_AUTHORIZED" /\ R[s.r].status = "NONE"
  /\ s.r \notin s.paid /\ s.seen = U[b.unit]
  /\ C[b.unit] /\ U[b.unit] \in HandoverReady
  /\ within => ~Claimed(b.unit, B, R)

Fits(within, s, B, R, U, C) ==
  /\ s.at = "insert" =>
       /\ s.seen = U[s.new.unit]
       /\ \A q \in Reservations :
            B[q].unit = s.new.unit /\ B[q].status \in Active /\ B[q].user # s.new.user
              => Apart(B[q].start, s.new.start)
  /\ s.at \in {"sweep", "confirm"} =>
       /\ s.done = {} /\ s.freed = {}
       /\ \A r \in s.paid : B[r].status = "PAYMENT_AUTHORIZED"
  /\ s.at = "confirm" => Ready(within, s, B, R, U, C)
  /\ s.at \in {"expire", "refund"} =>
       /\ \A r \in s.paid \cup s.unpaid \cup s.done : B[r].status \in Active
       /\ within => \A u \in s.freed : U[u] = "RESERVED" /\ ~Claimed(u, B, R)
  /\ s.at = "refund" =>
       IF s.op \in {"cancelRental", "expiry"} THEN R[s.r].status = "PICKUP_READY"
                                              ELSE B[s.r].status \in Active
  /\ s.at = "open" => R[s.r].status = s.seen
  /\ s.at = "pickup" => Waits(s.r, R)
  /\ s.at = "pin" => (within => ~Claimed(B[s.r].unit, B, R))

(* One handler at a time.                                                   *)
Alone ==
  \A h, k \in Handlers : session[h].at # "idle" /\ session[k].at # "idle" => h = k
SessionsFit(within) ==
  \A h \in Handlers : Fits(within, session[h], booking, rental, unit, inCell)

(* An item that is awaited is in its cell, set aside under the code of the   *)
(* client; one that is out is with the client.                              *)
Awaited(r) ==
  Waits(r, rental) =>
    pin[UnitOf(r)] = r /\ inCell[UnitOf(r)] /\ unit[UnitOf(r)] = "RESERVED"
IsOut(r) ==
  rental[r].status = "ACTIVE" => unit[UnitOf(r)] = "RENTED" /\ ~inCell[UnitOf(r)]
Backed(r) == IsUnfinished(r) => booking[r].status = "CONFIRMED" /\ money[r] = "paid"

CellsFit == OneRental /\ \A r \in Reservations : Awaited(r) /\ IsOut(r)
AllBacked == \A r \in Reservations : Backed(r)

(* The refunds of a batch of the expiry sweep that is not committed.         *)
Closing == IF session[Maintenance].at \in {"expire", "refund"}
             THEN session[Maintenance].done ELSE {}
MoneyFits ==
  \A r \in Reservations : booking[r].status = "PAYMENT_AUTHORIZED" =>
    money[r] = "paid" \/ (money[r] = "returning" /\ r \in Closing)

BookedApart ==
  \A q, r \in Reservations :
    /\ q # r /\ IsActive(q) /\ IsActive(r) /\ UnitOf(q) = UnitOf(r)
    /\ booking[q].user # booking[r].user
    => Apart(booking[q].start, booking[r].start)

InTurn(within) ==
  /\ Alone /\ SessionsFit(within)
  /\ within => CellsFit
  /\ AllBacked /\ MoneyFits /\ BookedApart

LEMMA IdleFits ==
  ASSUME NEW within, NEW s, s.at = "idle", NEW B, NEW R, NEW U, NEW C
  PROVE  Fits(within, s, B, R, U, C)
BY DEF Fits

LEMMA IdleIsIdle == Idle.at = "idle" /\ Idle.paid = {} /\ Idle.done = {} /\ Idle.freed = {}
BY DEF Idle

(* The step of the one handler that runs, or that starts when none does.    *)
LEMMA TakesTurn ==
  ASSUME ~Overlap, NEW within \in BOOLEAN, IInv, InTurn(within), NEW h \in Handlers,
         MayStart(h) \/ session[h].at # "idle", NEW s, Go(h, s),
         Fits(within, s, booking', rental', unit', inCell')
  PROVE  /\ Alone' /\ SessionsFit(within)'
         /\ h # Maintenance => Closing = {} /\ Closing' = {}
<1>1. session \in [Handlers -> Sessions] /\ session' = [session EXCEPT ![h] = s]
  BY DEF IInv, SessionsTrue, Go
<1>2. \A k \in Handlers : k # h => session[k].at = "idle" /\ session'[k] = session[k]
  BY <1>1 DEF MayStart, InTurn, Alone
<1>3. session'[h] = s
  BY <1>1
<1>4. Alone'
  BY <1>2 DEF Alone
<1>5. SessionsFit(within)'
  BY <1>2, <1>3, IdleFits DEF SessionsFit
<1>6. h # Maintenance => Closing = {} /\ Closing' = {}
  BY <1>2 DEF Closing, Handlers
<1>7. QED
  BY <1>4, <1>5, <1>6

LEMMA NobodysTurn ==
  ASSUME ~Overlap, NEW within \in BOOLEAN, IInv, InTurn(within),
         Quiet \/ (\E h \in Handlers : MayStart(h)), UNCHANGED session
  PROVE  Alone' /\ SessionsFit(within)' /\ Closing = {} /\ Closing' = {}
<1>1. \A k \in Handlers : session[k].at = "idle"
  BY DEF Quiet, MayStart
<1>2. Alone' /\ SessionsFit(within)'
  BY <1>1, IdleFits DEF Alone, SessionsFit
<1>3. QED
  BY <1>1, <1>2 DEF Closing, Handlers

(* The rows have their types.                                               *)
LEMMA RowFacts ==
  ASSUME IInv, NEW r \in Reservations
  PROVE  /\ today \in Nat /\ Days \in Nat /\ Days > 0
         /\ booking[r] \in Bookings /\ booking[r].start \in Nat
         /\ rental[r] \in Rentals /\ rental[r].deadline \in Nat
         /\ rental[r].from \in Nat /\ rental[r].till \in Nat
         /\ rental[r].status # "NONE" => UnitOf(r) \in Units
         /\ booking[r].status # "NONE" => UnitOf(r) \in Units
BY BoundsAssumption DEF IInv, RowTypes, RowsTrue, RowTrue, WasPaid, Booked, Bookings, Rentals,
   UnitOf

(* Held, which ignores rentals of past days, ignores none that is awaited.   *)
LEMMA NotHeld ==
  ASSUME WithinDays, NEW u, NEW r, ~Held(u, r), r \in Reservations => ~Waits(r, rental)
  PROVE  ~Claimed(u, booking, rental)
BY DEF Held, WithinDays, Claimed, Waits, UnitOf

(* Steps that give no item away.                                            *)
LEMMA CellsStay ==
  ASSUME CellsFit,
         \A q \in Reservations :
           /\ booking'[q].unit = booking[q].unit
           /\ IsUnfinished(q)' =>
                /\ Waits(q, rental') <=> Waits(q, rental)
                /\ rental'[q].status = "ACTIVE" <=> rental[q].status = "ACTIVE"
                /\ unit'[UnitOf(q)] = unit[UnitOf(q)]
                /\ inCell'[UnitOf(q)] = inCell[UnitOf(q)]
                /\ pin'[UnitOf(q)] = pin[UnitOf(q)]
  PROVE  CellsFit'
<1>1. \A q \in Reservations :
        /\ Waits(q, rental') => IsUnfinished(q)'
        /\ rental'[q].status = "ACTIVE" => IsUnfinished(q)'
        /\ IsUnfinished(q)' => IsUnfinished(q)
  BY DEF Waits, IsUnfinished, Unfinished
<1>2. OneRental'
  BY <1>1 DEF CellsFit, OneRental, UnitOf
<1>3. ASSUME NEW q \in Reservations PROVE Awaited(q)' /\ IsOut(q)'
  <2>1. Awaited(q) /\ IsOut(q)
    BY DEF CellsFit
  <2>2. Awaited(q)'
    BY <1>1, <2>1 DEF Awaited, UnitOf
  <2>3. IsOut(q)'
    BY <1>1, <2>1 DEF IsOut, UnitOf
  <2>4. QED
    BY <2>2, <2>3
<1>4. QED
  BY <1>2, <1>3 DEF CellsFit

(* Steps that take no paid reservation from under a rental.                  *)
LEMMA BackedStays ==
  ASSUME NEW within \in BOOLEAN, InTurn(within),
         \A q \in Reservations : IsUnfinished(q)' =>
           /\ IsUnfinished(q)
           /\ booking'[q].status = booking[q].status /\ money'[q] = money[q]
  PROVE  AllBacked'
BY DEF InTurn, AllBacked, Backed

(* Reservations that end leave the others apart.                            *)
LEMMA ApartStays ==
  ASSUME NEW within \in BOOLEAN, InTurn(within),
         \A q \in Reservations : /\ booking'[q].unit = booking[q].unit
                                 /\ booking'[q].user = booking[q].user
                                 /\ booking'[q].start = booking[q].start
                                 /\ IsActive(q)' => IsActive(q)
  PROVE  BookedApart'
BY DEF InTurn, BookedApart, UnitOf, Apart

LEMMA RowsSame ==
  ASSUME NEW within \in BOOLEAN, IInv, InTurn(within), UNCHANGED <<rows, pin, money>>
  PROVE  /\ within => CellsFit'
         /\ AllBacked' /\ BookedApart'
         /\ Closing \subseteq Closing' => MoneyFits'
<1>1. UNCHANGED <<booking, rental, unit, inCell, pin, money>>
  BY DEF rows
<1>2. CellsFit => CellsFit'
  BY <1>1 DEF CellsFit, OneRental, Awaited, IsOut, Waits, UnitOf, IsUnfinished
<1>3. AllBacked' /\ BookedApart' /\ (Closing \subseteq Closing' => MoneyFits')
  BY <1>1 DEF InTurn, AllBacked, Backed, IsUnfinished, BookedApart, Apart, IsActive, UnitOf,
     MoneyFits
<1>4. QED
  BY <1>2, <1>3 DEF InTurn

(* A step that only takes up work of a request.                             *)
LEMMA TakesUp ==
  ASSUME ~Overlap, NEW within \in BOOLEAN, IInv, InTurn(within),
         NEW h \in Handlers, h # Maintenance,
         MayStart(h) \/ session[h].at # "idle", NEW s, Go(h, s),
         Fits(within, s, booking, rental, unit, inCell), UNCHANGED <<rows, pin, money>>
  PROVE  InTurn(within)'
<1>1. Fits(within, s, booking', rental', unit', inCell')
  BY DEF rows
<1>2. QED
  BY <1>1, TakesTurn, RowsSame DEF InTurn

LEMMA DayPassesInTurn ==
  ASSUME ~Overlap, NEW within \in BOOLEAN, IInv, InTurn(within), DayPasses
  PROVE  InTurn(within)'
<1>1. Quiet /\ UNCHANGED <<rows, pin, money>> /\ UNCHANGED session
  BY DEF DayPasses
<1>2. QED
  BY <1>1, NobodysTurn, RowsSame DEF InTurn

LEMMA WindowClosesInTurn ==
  ASSUME ~Overlap, NEW within \in BOOLEAN, IInv, InTurn(within), NEW r \in Reservations,
         WindowCloses(r)
  PROVE  InTurn(within)'
<1>1. /\ booking' = [booking EXCEPT ![r].lapsed = TRUE] /\ Quiet
      /\ UNCHANGED <<rental, unit, inCell, pin, money, session>>
  BY DEF WindowCloses
<1>2. Alone' /\ SessionsFit(within)' /\ Closing = {}
  BY <1>1, NobodysTurn
<1>3. \A q \in Reservations : /\ booking'[q].status = booking[q].status
                              /\ booking'[q].unit = booking[q].unit
                              /\ booking'[q].user = booking[q].user
                              /\ booking'[q].start = booking[q].start
  BY <1>1 DEF IInv, RowTypes, Bookings
<1>4. CellsFit => CellsFit'
  BY <1>1, <1>3, CellsStay DEF IsUnfinished
<1>5. AllBacked' /\ BookedApart'
  BY <1>1, <1>3, BackedStays, ApartStays DEF IsUnfinished, IsActive
<1>6. MoneyFits'
  BY <1>1, <1>2, <1>3 DEF InTurn, MoneyFits
<1>7. QED
  BY <1>2, <1>4, <1>5, <1>6 DEF InTurn

LEMMA PayInTurn ==
  ASSUME ~Overlap, NEW within \in BOOLEAN, IInv, InTurn(within), NEW r \in Reservations,
         Pay(r)
  PROVE  InTurn(within)'
<1>1. /\ booking' = [booking EXCEPT ![r].status = "PAYMENT_AUTHORIZED"] /\ Quiet
      /\ booking[r].status = "AWAITING_PAYMENT" /\ money' = [money EXCEPT ![r] = "paid"]
      /\ UNCHANGED <<rental, unit, inCell, pin, session>>
  BY DEF Pay
<1>2. Alone' /\ SessionsFit(within)' /\ Closing = {}
  BY <1>1, NobodysTurn
<1>3. \A q \in Reservations :
        /\ booking'[q].status = IF q = r THEN "PAYMENT_AUTHORIZED" ELSE booking[q].status
        /\ booking'[q].unit = booking[q].unit
        /\ booking'[q].user = booking[q].user
        /\ booking'[q].start = booking[q].start
        /\ money'[q] = IF q = r THEN "paid" ELSE money[q]
  BY <1>1 DEF IInv, RowTypes, CallTypes, Bookings
<1>4. CellsFit => CellsFit'
  BY <1>1, <1>3, CellsStay DEF IsUnfinished
<1>5. \A q \in Reservations : IsUnfinished(q)' => IsUnfinished(q) /\ q # r
  BY <1>1 DEF InTurn, AllBacked, Backed, IsUnfinished
<1>6. AllBacked'
  BY <1>3, <1>5, BackedStays
<1>7. BookedApart'
  BY <1>1, <1>3, ApartStays DEF IsActive, Active
<1>8. MoneyFits'
  BY <1>2, <1>3 DEF InTurn, MoneyFits
<1>9. QED
  BY <1>2, <1>4, <1>6, <1>7, <1>8 DEF InTurn

(* The pickup: the item leaves its cell with the rental that awaited it.     *)
LEMMA TakeOutFits ==
  ASSUME NEW within \in BOOLEAN, IInv, InTurn(within), NEW r \in Reservations,
         Waits(r, rental), TakeOut(r),
         pin' = pin \/ pin' = [pin EXCEPT ![UnitOf(r)] = r], UNCHANGED money
  PROVE  /\ within => CellsFit'
         /\ AllBacked' /\ BookedApart'
         /\ Closing \subseteq Closing' => MoneyFits'
<1> DEFINE u == UnitOf(r)
<1>1. /\ rental' = [rental EXCEPT ![r] = [@ EXCEPT !.status = "ACTIVE", !.from = today,
                                                   !.till = today + Days + 1]]
      /\ unit' = [unit EXCEPT ![u] = "RENTED"] /\ inCell' = [inCell EXCEPT ![u] = FALSE]
      /\ booking' = booking
  BY DEF TakeOut
<1>2. /\ u \in Units /\ \A q \in Reservations \ {r} : rental'[q] = rental[q]
      /\ rental'[r].status = "ACTIVE" /\ unit'[u] = "RENTED" /\ inCell'[u] = FALSE
      /\ \A v \in Units \ {u} : unit'[v] = unit[v] /\ inCell'[v] = inCell[v]
  BY <1>1, RowFacts DEF IInv, RowTypes, Rentals, Waits, AwaitingPickup
<1>3. \A q \in Reservations : IsUnfinished(q)' <=> IsUnfinished(q)
  BY <1>2 DEF Waits, IsUnfinished, Unfinished
<1>4. AllBacked' /\ BookedApart'
  BY <1>1, <1>3, BackedStays, ApartStays DEF IsActive
<1>5. ASSUME CellsFit PROVE CellsFit'
  <2>1. \A q \in Reservations \ {r} : IsUnfinished(q) => UnitOf(q) \in Units \ {u}
    <3>1. \A q \in Reservations : IsUnfinished(q) => UnitOf(q) \in Units
      BY RowFacts DEF IsUnfinished, Unfinished, AwaitingPickup
    <3>2. IsUnfinished(r)
      BY DEF Waits, IsUnfinished, Unfinished
    <3>3. QED
      BY <1>5, <3>1, <3>2 DEF CellsFit, OneRental
  <2>2. OneRental'
    BY <1>1, <1>3, <1>5 DEF CellsFit, OneRental, UnitOf
  <2>3. Awaited(r)' /\ IsOut(r)'
    BY <1>1, <1>2 DEF Awaited, IsOut, Waits, AwaitingPickup, UnitOf
  <2>4. ASSUME NEW q \in Reservations \ {r} PROVE Awaited(q)' /\ IsOut(q)'
    <3>1. /\ Awaited(q) /\ IsOut(q) /\ rental'[q] = rental[q]
          /\ Waits(q, rental) => IsUnfinished(q)
          /\ rental[q].status = "ACTIVE" => IsUnfinished(q)
      BY <1>2, <1>5 DEF CellsFit, Waits, IsUnfinished, Unfinished
    <3>2. IsUnfinished(q) =>
            /\ unit'[UnitOf(q)] = unit[UnitOf(q)] /\ inCell'[UnitOf(q)] = inCell[UnitOf(q)]
            /\ pin'[UnitOf(q)] = pin[UnitOf(q)]
      BY <1>2, <2>1 DEF IInv, CallTypes
    <3>3. UnitOf(q)' = UnitOf(q)
      BY <1>1 DEF UnitOf
    <3>4. Awaited(q)'
      BY <3>1, <3>2, <3>3 DEF Awaited, Waits
    <3>5. IsOut(q)'
      BY <3>1, <3>2, <3>3 DEF IsOut
    <3>6. QED
      BY <3>4, <3>5
  <2>5. QED
    BY <2>2, <2>3, <2>4 DEF CellsFit
<1>6. Closing \subseteq Closing' => MoneyFits'
  BY <1>1 DEF InTurn, MoneyFits
<1>7. QED
  BY <1>4, <1>5, <1>6 DEF InTurn

LEMMA AutoPickupInTurn ==
  ASSUME ~Overlap, NEW within \in BOOLEAN, IInv, InTurn(within), NEW r \in Reservations,
         AutoPickup(r)
  PROVE  InTurn(within)'
<1>1. /\ Quiet /\ Waits(r, rental) /\ TakeOut(r)
      /\ UNCHANGED <<pin, money, session>>
  BY DEF AutoPickup, Waits, AwaitingPickup
<1>2. QED
  BY <1>1, NobodysTurn, TakeOutFits DEF InTurn

LEMMA ReturnCompletedInTurn ==
  ASSUME ~Overlap, NEW within \in BOOLEAN, IInv, InTurn(within), NEW r \in Reservations,
         ReturnCompleted(r)
  PROVE  InTurn(within)'
<1> DEFINE u == UnitOf(r)
<1>1. /\ Quiet /\ rental[r].status = "ACTIVE"
      /\ rental' = [rental EXCEPT ![r].status = "COMPLETED", ![r].till = today + 1]
      /\ unit' = [unit EXCEPT ![u] = "AWAITING_CONFIRMATION"]
      /\ inCell' = [inCell EXCEPT ![u] = TRUE]
      /\ UNCHANGED <<booking, pin, money, session>>
  BY DEF ReturnCompleted
<1>2. Alone' /\ SessionsFit(within)' /\ Closing = {}
  BY <1>1, NobodysTurn
<1>3. /\ u \in Units /\ \A q \in Reservations \ {r} : rental'[q] = rental[q]
      /\ rental'[r].status = "COMPLETED"
      /\ \A v \in Units \ {u} : unit'[v] = unit[v] /\ inCell'[v] = inCell[v]
  BY <1>1, RowFacts DEF IInv, RowTypes, Rentals
<1>4. \A q \in Reservations : IsUnfinished(q)' => IsUnfinished(q) /\ q # r
  BY <1>3 DEF IsUnfinished, Unfinished, AwaitingPickup
<1>5. ASSUME CellsFit PROVE CellsFit'
  <2>1. \A q \in Reservations : IsUnfinished(q) => UnitOf(q) \in Units
    BY RowFacts DEF IsUnfinished, Unfinished, AwaitingPickup
  <2>2. \A q \in Reservations \ {r} : IsUnfinished(q) => UnitOf(q) # u
    BY <1>1, <1>5 DEF CellsFit, OneRental, IsUnfinished, Unfinished
  <2>3. \A q \in Reservations : IsUnfinished(q)' =>
          /\ Waits(q, rental') <=> Waits(q, rental)
          /\ rental'[q].status = "ACTIVE" <=> rental[q].status = "ACTIVE"
          /\ unit'[UnitOf(q)] = unit[UnitOf(q)] /\ inCell'[UnitOf(q)] = inCell[UnitOf(q)]
    BY <1>3, <1>4, <2>1, <2>2 DEF Waits
  <2>4. QED
    BY <1>1, <1>5, <2>3, CellsStay
<1>6. AllBacked' /\ BookedApart'
  BY <1>1, <1>4, BackedStays, ApartStays DEF IsActive
<1>7. MoneyFits'
  BY <1>1, <1>2 DEF InTurn, MoneyFits
<1>8. QED
  BY <1>2, <1>5, <1>6, <1>7 DEF InTurn

LEMMA ConfirmReadyInTurn ==
  ASSUME ~Overlap, NEW within \in BOOLEAN, IInv, InTurn(within), NEW u \in Units,
         ConfirmReady(u)
  PROVE  InTurn(within)'
<1>1. /\ Quiet /\ unit' = [unit EXCEPT ![u] = "AVAILABLE"]
      /\ rental' = [r \in Reservations |->
                     IF UnitOf(r) = u /\ IsUnfinished(r)
                       THEN [rental[r] EXCEPT !.status = "COMPLETED", !.till = today + 1]
                       ELSE rental[r]]
      /\ UNCHANGED <<booking, inCell, pin, money, session>>
  BY DEF ConfirmReady
<1>2. Alone' /\ SessionsFit(within)' /\ Closing = {}
  BY <1>1, NobodysTurn
<1>3. /\ \A q \in Reservations : \/ rental'[q] = rental[q] /\ ~(UnitOf(q) = u /\ IsUnfinished(q))
                                 \/ rental'[q].status = "COMPLETED"
      /\ \A v \in Units \ {u} : unit'[v] = unit[v]
  BY <1>1, RowFacts DEF IInv, RowTypes, Rentals
<1>4. \A q \in Reservations : IsUnfinished(q)' =>
        rental'[q] = rental[q] /\ IsUnfinished(q) /\ UnitOf(q) # u
  BY <1>3 DEF IsUnfinished, Unfinished, AwaitingPickup
<1>5. \A q \in Reservations : IsUnfinished(q) => UnitOf(q) \in Units
  BY RowFacts DEF IsUnfinished, Unfinished, AwaitingPickup
<1>6. CellsFit => CellsFit'
  BY <1>1, <1>3, <1>4, <1>5, CellsStay DEF Waits
<1>7. AllBacked' /\ BookedApart'
  BY <1>1, <1>4, BackedStays, ApartStays DEF IsActive
<1>8. MoneyFits'
  BY <1>1, <1>2 DEF InTurn, MoneyFits
<1>9. QED
  BY <1>2, <1>6, <1>7, <1>8 DEF InTurn

-----------------------------------------------------------------------------
(* New reservations. *)

LEMMA IntersectApart ==
  ASSUME NEW a \in Nat, NEW b \in Nat, Days \in Nat, Days > 0
  PROVE  Intersect(a, a + Days, b, b + Days) <=> ~Apart(b, a)
BY DEF Intersect, Later, Sooner, Apart

LEMMA StartCreateInTurn ==
  ASSUME ~Overlap, NEW within \in BOOLEAN, IInv, InTurn(within),
         NEW h \in Handlers, h # Maintenance, NEW user \in Users,
         NEW from \in 0..LastDay, NEW source \in Reservations \cup {None},
         StartCreate(h, user, from, source)
  PROVE  InTurn(within)'
<1> DEFINE new(u) == [status |-> "AWAITING_PAYMENT", user |-> user, unit |-> u,
                      start |-> from, lapsed |-> FALSE]
           s(u) == [Idle EXCEPT !.at = "insert", !.op = "create", !.seen = unit[u],
                                !.new = new(u)]
<1>1. /\ MayStart(h) /\ UNCHANGED <<today, rows, pin, money, faults>>
      /\ source # None => booking[source].user = user
  BY DEF StartCreate
<1>2. PICK u \in Chosen(FreeUnits(source, from), source) : Go(h, s(u))
  BY DEF StartCreate
<1>3. u \in FreeUnits(source, from)
  BY <1>2 DEF Chosen
<1>4. ASSUME NEW q \in Reservations, UnitOf(q) = u, IsActive(q), booking[q].user # user
      PROVE  Apart(booking[q].start, from)
  <2>1. q # source
    <3>1. q # None
      BY NamesAssumption DEF Reservations
    <3>2. QED
      BY <1>1, <1>4, <3>1
  <2>2. ~Intersect(from, from + Days, booking[q].start, booking[q].start + Days)
    BY <1>3, <1>4, <2>1 DEF FreeUnits
  <2>3. booking[q].start \in Nat /\ from \in Nat /\ Days \in Nat /\ Days > 0
    BY RowFacts
  <2>4. QED
    BY <2>2, <2>3, IntersectApart
<1>5. s(u).at = "insert" /\ s(u).seen = unit[u] /\ s(u).new = new(u)
  BY DEF Idle
<1> HIDE DEF s
<1>6. Fits(within, s(u), booking, rental, unit, inCell)
  BY <1>4, <1>5 DEF Fits, UnitOf, IsActive
<1>7. QED
  BY <1>1, <1>2, <1>6, TakesUp

LEMMA InsertReservationInTurn ==
  ASSUME ~Overlap, NEW within \in BOOLEAN, IInv, InTurn(within),
         NEW h \in Handlers, h # Maintenance, InsertReservation(h)
  PROVE  InTurn(within)'
<1> DEFINE s == session[h]
<1>1. /\ s.at = "insert" /\ Finish(h)
      /\ UNCHANGED <<rental, inCell, pin, money>>
  BY DEF InsertReservation
<1>2. /\ Fits(within, s, booking, rental, unit, inCell) /\ s \in Sessions
      /\ Carries(s, booking, money, rental)
  BY OfSession DEF InTurn, SessionsFit
<1>3. Alone' /\ SessionsFit(within)' /\ Closing = {} /\ Closing' = {}
  BY <1>1, TakesTurn, IdleFits, IdleIsIdle DEF Finish
<1>4. CASE UNCHANGED <<booking, unit>>
  BY <1>1, <1>3, <1>4, RowsSame DEF rows, InTurn
<1>5. ASSUME NEW r \in Reservations, booking[r].status = "NONE",
             booking' = [booking EXCEPT ![r] = s.new], SetAside(s.new.unit, s.seen)
      PROVE  InTurn(within)'
  <2>1. /\ s.new \in Bookings /\ s.new.status = "AWAITING_PAYMENT" /\ s.new.unit \in Units
        /\ s.seen = unit[s.new.unit]
        /\ \A q \in Reservations :
             UnitOf(q) = s.new.unit /\ IsActive(q) /\ booking[q].user # s.new.user
               => Apart(booking[q].start, s.new.start)
    BY <1>1, <1>2 DEF Carries, Fits, Sessions, UnitOf, IsActive
  <2>2. /\ \A q \in Reservations \ {r} : booking'[q] = booking[q]
        /\ booking'[r] = s.new
    BY <1>5 DEF IInv, RowTypes
  <2>3. rental[r].status = "NONE"
    BY <1>5 DEF IInv, RowsTrue, RowTrue, WasPaid
  <2>4. ASSUME NEW v \in Units, unit'[v] # unit[v]
        PROVE  unit[v] = "AVAILABLE"
    BY <1>5, <2>1, <2>4 DEF SetAside, IInv, RowTypes
  <2>5. \A q \in Reservations : /\ IsUnfinished(q)' <=> IsUnfinished(q)
                                /\ IsUnfinished(q) => q # r
    BY <1>1, <2>3 DEF IsUnfinished, Unfinished, AwaitingPickup
  <2>6. ASSUME CellsFit PROVE CellsFit'
    <3>1. ASSUME NEW q \in Reservations, IsUnfinished(q)
          PROVE  unit'[UnitOf(q)] = unit[UnitOf(q)]
      <4>1. UnitOf(q) \in Units
        BY <3>1, RowFacts DEF IsUnfinished, Unfinished, AwaitingPickup
      <4>2. Awaited(q) /\ IsOut(q)
        BY <2>6 DEF CellsFit
      <4>3. unit[UnitOf(q)] # "AVAILABLE"
        BY <3>1, <4>2 DEF Awaited, IsOut, Waits, IsUnfinished, Unfinished
      <4>4. QED
        BY <2>4, <4>1, <4>3
    <3>2. ASSUME NEW q \in Reservations \ {r} PROVE Awaited(q)' /\ IsOut(q)'
      <4>1. /\ Awaited(q) /\ IsOut(q) /\ UnitOf(q)' = UnitOf(q)
            /\ Waits(q, rental) => IsUnfinished(q)
            /\ rental[q].status = "ACTIVE" => IsUnfinished(q)
        BY <2>2, <2>6 DEF CellsFit, UnitOf, Waits, IsUnfinished, Unfinished
      <4>2. Awaited(q)'
        BY <1>1, <3>1, <4>1 DEF Awaited, Waits
      <4>3. IsOut(q)'
        BY <1>1, <3>1, <4>1 DEF IsOut
      <4>4. QED
        BY <4>2, <4>3
    <3>3. Awaited(r)' /\ IsOut(r)'
      BY <1>1, <2>3 DEF Awaited, IsOut, Waits, AwaitingPickup
    <3>4. OneRental'
      BY <2>2, <2>5, <2>6 DEF CellsFit, OneRental, UnitOf
    <3>5. QED
      BY <3>2, <3>3, <3>4 DEF CellsFit
  <2>7. AllBacked'
    BY <1>1, <2>2, <2>5, BackedStays
  <2>8. MoneyFits'
    BY <1>1, <1>3, <2>1, <2>2 DEF InTurn, MoneyFits
  <2>9. ASSUME NEW p \in Reservations, NEW q \in Reservations, p # q,
               IsActive(p)', IsActive(q)', UnitOf(p)' = UnitOf(q)',
               booking'[p].user # booking'[q].user
        PROVE  Apart(booking'[p].start, booking'[q].start)
    <3>1. CASE p # r /\ q # r
      BY <2>2, <2>9, <3>1 DEF InTurn, BookedApart, IsActive, UnitOf
    <3>2. CASE q = r
      BY <2>1, <2>2, <2>9, <3>2 DEF IsActive, UnitOf
    <3>3. CASE p = r
      BY <2>1, <2>2, <2>9, <3>3 DEF IsActive, UnitOf, Apart
    <3>4. QED
      BY <3>1, <3>2, <3>3
  <2>10. BookedApart'
    BY <2>9 DEF BookedApart, Apart
  <2>11. QED
    BY <1>3, <2>6, <2>7, <2>8, <2>10 DEF InTurn
<1>6. QED
  BY <1>4, <1>5 DEF InsertReservation

-----------------------------------------------------------------------------
(* From reservation to rental. *)

LEMMA HandOverFits ==
  ASSUME NEW within \in BOOLEAN, IInv, InTurn(within), NEW s,
         s.r \in Reservations, Ready(within, s, booking, rental, unit, inCell),
         s.r \notin Closing, NEW from, HandOver(s.r, s.seen, from),
         pin' = [pin EXCEPT ![UnitOf(s.r)] = s.r], UNCHANGED money
  PROVE  /\ within => CellsFit'
         /\ AllBacked' /\ BookedApart'
         /\ Closing \subseteq Closing' => MoneyFits'
<1> DEFINE r == s.r
           u == UnitOf(r)
<1>1. /\ booking[r].status = "PAYMENT_AUTHORIZED"
      /\ rental[r].status = "NONE" /\ s.seen = unit[u] /\ inCell[u]
      /\ unit[u] \in HandoverReady
      /\ within => \A q \in Reservations : UnitOf(q) = u => ~Waits(q, rental)
  BY DEF Ready, Claimed, UnitOf
<1>2. PICK d \in PickupDeadlines(r, from) :
        rental' = [rental EXCEPT ![r] =
          [status |-> "PICKUP_READY", from |-> from, till |-> from + Days,
           deadline |-> d]]
  BY DEF HandOver
<1>3. /\ booking' = [booking EXCEPT ![r].status = "CONFIRMED"] /\ inCell' = inCell
      /\ SetAside(u, s.seen)
  BY DEF HandOver
<1>4. u \in Units
  BY <1>1, RowFacts
<1>5. money[r] = "paid"
  BY <1>1 DEF InTurn, MoneyFits
<1>6. /\ \A q \in Reservations \ {r} : rental'[q] = rental[q] /\ booking'[q] = booking[q]
      /\ booking'[r].status = "CONFIRMED" /\ booking'[r].unit = u
      /\ rental'[r].status = "PICKUP_READY"
  BY <1>2, <1>3 DEF IInv, RowTypes, Bookings, UnitOf
<1>7. AllBacked'
  <2>1. Backed(r)'
    BY <1>5, <1>6 DEF Backed
  <2>2. ASSUME NEW q \in Reservations \ {r} PROVE Backed(q)'
    BY <1>6 DEF InTurn, AllBacked, Backed, IsUnfinished
  <2>3. QED
    BY <2>1, <2>2 DEF AllBacked
<1>8. \A q \in Reservations : /\ booking'[q].unit = booking[q].unit
                              /\ booking'[q].user = booking[q].user
                              /\ booking'[q].start = booking[q].start
                              /\ IsActive(q)' => IsActive(q)
  BY <1>3, <1>6 DEF IInv, RowTypes, Bookings, IsActive, Active
<1>9. BookedApart'
  BY <1>8, ApartStays
<1>10. Closing \subseteq Closing' => MoneyFits'
  BY <1>6 DEF InTurn, MoneyFits
<1>11. ASSUME within PROVE CellsFit'
  <2>1. CellsFit
    BY <1>11 DEF InTurn
  <2>2. unit'[u] = "RESERVED" /\ \A v \in Units \ {u} : unit'[v] = unit[v]
    BY <1>1, <1>3, <1>4 DEF SetAside, HandoverReady, IInv, RowTypes
  <2>3. pin'[u] = r /\ \A v \in Units \ {u} : pin'[v] = pin[v]
    BY <1>4 DEF IInv, CallTypes
  <2>4. ASSUME NEW q \in Reservations, IsUnfinished(q) PROVE UnitOf(q) \in Units \ {u}
    <3>1. UnitOf(q) \in Units
      BY <2>4, RowFacts DEF IsUnfinished, Unfinished, AwaitingPickup
    <3>2. CASE Waits(q, rental)
      BY <1>1, <1>11, <3>1, <3>2
    <3>3. CASE rental[q].status = "ACTIVE"
      BY <1>1, <2>1, <3>1, <3>3 DEF CellsFit, IsOut
    <3>4. QED
      BY <2>4, <3>2, <3>3 DEF IsUnfinished, Unfinished, Waits
  <2>5. Awaited(r)' /\ IsOut(r)'
    BY <1>1, <1>3, <1>6, <2>2, <2>3 DEF Awaited, IsOut, UnitOf
  <2>6. ASSUME NEW q \in Reservations \ {r} PROVE Awaited(q)' /\ IsOut(q)'
    <3>1. /\ Awaited(q) /\ IsOut(q) /\ rental'[q] = rental[q] /\ UnitOf(q)' = UnitOf(q)
          /\ Waits(q, rental) => IsUnfinished(q)
          /\ rental[q].status = "ACTIVE" => IsUnfinished(q)
      BY <1>6, <2>1 DEF CellsFit, UnitOf, Waits, IsUnfinished, Unfinished
    <3>2. Awaited(q)'
      BY <1>3, <2>2, <2>3, <2>4, <3>1 DEF Awaited, Waits
    <3>3. IsOut(q)'
      BY <1>3, <2>2, <2>4, <3>1 DEF IsOut
    <3>4. QED
      BY <3>2, <3>3
  <2>7. OneRental'
    <3>1. ASSUME NEW p \in Reservations, NEW q \in Reservations,
                 IsUnfinished(p)', IsUnfinished(q)', UnitOf(p)' = UnitOf(q)'
          PROVE  p = q
      <4>1. \A x \in Reservations \ {r} : /\ IsUnfinished(x)' => IsUnfinished(x)
                                          /\ UnitOf(x)' = UnitOf(x)
        BY <1>6 DEF IsUnfinished, UnitOf
      <4>2. UnitOf(r)' = u
        BY <1>6 DEF UnitOf
      <4>3. QED
        BY <2>1, <2>4, <3>1, <4>1, <4>2 DEF CellsFit, OneRental
    <3>2. QED
      BY <3>1 DEF OneRental
  <2>8. QED
    BY <2>5, <2>6, <2>7 DEF CellsFit
<1>12. QED
  BY <1>7, <1>9, <1>10, <1>11

(* get_handover_blocker has looked; nothing runs until the locker answers.   *)
LEMMA ReadyNow ==
  ASSUME NEW within \in BOOLEAN, within => WithinDays, NEW r \in Reservations, NEW s,
         booking[r].status = "PAYMENT_AUTHORIZED",
         rental[r].status = "NONE", CanHandOver(r),
         s.r = r, s.seen = unit[UnitOf(r)], r \notin s.paid
  PROVE  Ready(within, s, booking, rental, unit, inCell)
<1>1. within => ~Claimed(UnitOf(r), booking, rental)
  BY NotHeld DEF CanHandOver, Waits, AwaitingPickup
<1>2. QED
  BY <1>1 DEF Ready, CanHandOver, UnitOf

LEMMA StartConfirmInTurn ==
  ASSUME ~Overlap, NEW within \in BOOLEAN, within => WithinDays, IInv,
         InTurn(within), NEW h \in Handlers, h # Maintenance,
         NEW r \in Reservations, StartConfirm(h, r)
  PROVE  InTurn(within)'
<1> DEFINE s == [Idle EXCEPT !.at = "confirm", !.op = "confirm", !.r = r,
                             !.seen = unit[UnitOf(r)]]
<1>1. /\ MayStart(h) /\ Go(h, s) /\ UNCHANGED <<today, rows, pin, money, faults>>
      /\ booking[r].status = "PAYMENT_AUTHORIZED"
      /\ rental[r].status = "NONE" /\ CanHandOver(r)
  BY DEF StartConfirm
<1>2. /\ s.at = "confirm" /\ s.r = r /\ s.seen = unit[UnitOf(r)] /\ s.paid = {}
      /\ s.done = {} /\ s.freed = {}
  BY DEF Idle
<1> HIDE DEF s
<1>3. Ready(within, s, booking, rental, unit, inCell)
  BY <1>1, <1>2, ReadyNow
<1>4. Fits(within, s, booking, rental, unit, inCell)
  BY <1>2, <1>3 DEF Fits
<1>5. QED
  BY <1>1, <1>4, TakesUp

LEMMA ConfirmAnsweredInTurn ==
  ASSUME ~Overlap, NEW within \in BOOLEAN, within => WithinDays, IInv,
         InTurn(within), NEW h \in Handlers, h # Maintenance, ConfirmAnswered(h)
  PROVE  InTurn(within)'
<1> DEFINE s == session[h]
<1>1. /\ s.at = "confirm" /\ Finish(h) /\ UNCHANGED <<today, money>>
  BY DEF ConfirmAnswered
<1>2. s.r \in Reservations /\ Ready(within, s, booking, rental, unit, inCell)
  BY <1>1, OfSession DEF Carries, InTurn, SessionsFit, Fits
<1>3. PICK ok \in BOOLEAN :
        /\ SetPin(UnitOf(s.r), s.r, ok)
        /\ IF ok /\ rental[s.r].status = "NONE"
             THEN \E startAt \in 0..LastDay : HandOver(s.r, s.seen, startAt)
             ELSE UNCHANGED rows
  BY DEF ConfirmAnswered
<1>4. Alone' /\ SessionsFit(within)' /\ Closing = {} /\ Closing' = {}
  BY <1>1, TakesTurn, IdleFits, IdleIsIdle DEF Finish
<1>5. CASE ok
  <2>1. pin' = [pin EXCEPT ![UnitOf(s.r)] = s.r]
    BY <1>3, <1>5 DEF SetPin
  <2>2. PICK startAt \in 0..LastDay : HandOver(s.r, s.seen, startAt)
    BY <1>2, <1>3, <1>5 DEF Ready
  <2>3. QED
    BY <1>1, <1>2, <1>4, <2>1, <2>2, HandOverFits DEF InTurn
<1>6. CASE ~ok
  BY <1>1, <1>3, <1>4, <1>6, RowsSame DEF SetPin, InTurn
<1>7. QED
  BY <1>5, <1>6

-----------------------------------------------------------------------------
(* Cancellations. *)

(* A unit set free by a reservation that ends was awaited by nobody.         *)
LEMMA ReleasesUnclaimed ==
  ASSUME NEW within \in BOOLEAN, within => WithinDays, InTurn(within),
         NEW r \in Reservations, IsActive(r), Releases(r)
  PROVE  /\ unit[UnitOf(r)] = "RESERVED"
         /\ within => ~Claimed(UnitOf(r), booking, rental)
<1>1. ~Waits(r, rental)
  BY DEF InTurn, AllBacked, Backed, IsUnfinished, Unfinished, Waits, IsActive, Active
<1>2. QED
  BY <1>1, NotHeld DEF Releases

(* Units that nobody awaits may become AVAILABLE.                           *)
LEMMA FreedFits ==
  ASSUME IInv, CellsFit, NEW freed, UNCHANGED <<rental, inCell, pin>>,
         \A u \in Units \ freed : unit'[u] = unit[u],
         \A u \in freed : unit[u] = "RESERVED" /\ ~Claimed(u, booking, rental),
         \A q \in Reservations : booking'[q].unit = booking[q].unit
  PROVE  CellsFit'
<1>1. ASSUME NEW q \in Reservations, IsUnfinished(q)
      PROVE  UnitOf(q) \in Units \ freed
  <2>1. UnitOf(q) \in Units /\ IsOut(q)
    BY <1>1, RowFacts DEF IsUnfinished, Unfinished, AwaitingPickup, CellsFit
  <2>2. CASE Waits(q, rental)
    BY <2>1, <2>2 DEF Claimed, UnitOf
  <2>3. CASE rental[q].status = "ACTIVE"
    BY <2>1, <2>3 DEF IsOut
  <2>4. QED
    BY <1>1, <2>2, <2>3 DEF IsUnfinished, Unfinished, Waits
<1>2. QED
  BY <1>1, CellsStay DEF IsUnfinished

LEMMA CloseReservationFits ==
  ASSUME NEW within \in BOOLEAN, within => WithinDays, IInv, InTurn(within),
         NEW r \in Reservations, IsActive(r), CloseReservation(r),
         UNCHANGED pin, \A q \in Reservations \ {r} : money'[q] = money[q]
  PROVE  /\ within => CellsFit'
         /\ AllBacked' /\ BookedApart'
         /\ Closing \subseteq Closing' => MoneyFits'
<1> DEFINE freed == IF Releases(r) THEN {UnitOf(r)} ELSE {}
<1>1. /\ booking' = [booking EXCEPT ![r].status = "CANCELLED"] /\ rental' = rental
      /\ inCell' = inCell
      /\ unit' = IF Releases(r) THEN [unit EXCEPT ![UnitOf(r)] = "AVAILABLE"] ELSE unit
  BY DEF CloseReservation
<1>2. \A q \in Reservations : /\ booking'[q].unit = booking[q].unit
                              /\ booking'[q].user = booking[q].user
                              /\ booking'[q].start = booking[q].start
                              /\ booking'[q].status = IF q = r THEN "CANCELLED"
                                                               ELSE booking[q].status
  BY <1>1 DEF IInv, RowTypes, Bookings
<1>3. \A u \in Units \ freed : unit'[u] = unit[u]
  BY <1>1 DEF IInv, RowTypes
<1>4. within => \A u \in freed : unit[u] = "RESERVED" /\ ~Claimed(u, booking, rental)
  BY ReleasesUnclaimed
<1>5. \A q \in Reservations : IsUnfinished(q) => q # r
  BY DEF InTurn, AllBacked, Backed, IsActive, Active
<1> HIDE DEF freed
<1>6. within => CellsFit'
  BY <1>1, <1>2, <1>3, <1>4, FreedFits DEF InTurn
<1>7. AllBacked'
  BY <1>1, <1>2, <1>5, BackedStays DEF IsUnfinished
<1>8. \A q \in Reservations : IsActive(q)' => IsActive(q)
  BY <1>2 DEF IsActive, Active
<1>9. BookedApart'
  BY <1>2, <1>8, ApartStays
<1>10. Closing \subseteq Closing' => MoneyFits'
  BY <1>2 DEF InTurn, MoneyFits
<1>11. QED
  BY <1>6, <1>7, <1>9, <1>10

LEMMA StartCancelInTurn ==
  ASSUME ~Overlap, NEW within \in BOOLEAN, within => WithinDays, IInv,
         InTurn(within), NEW h \in Handlers, h # Maintenance,
         NEW r \in Reservations, StartCancel(h, r)
  PROVE  InTurn(within)'
<1> DEFINE s == [Idle EXCEPT !.at = "refund", !.op = "cancel", !.r = r]
<1>1. MayStart(h) /\ IsActive(r) /\ UNCHANGED <<today, pin, money, faults>>
  BY DEF StartCancel
<1>2. CASE Go(h, s) /\ UNCHANGED rows
  <2>1. /\ s.at = "refund" /\ s.op = "cancel" /\ s.r = r /\ s.paid = {}
        /\ s.unpaid = {} /\ s.done = {} /\ s.freed = {}
    BY DEF Idle
  <2> HIDE DEF s
  <2>2. Fits(within, s, booking, rental, unit, inCell)
    BY <1>1, <2>1 DEF Fits, IsActive
  <2>3. QED
    BY <1>1, <1>2, <2>2, TakesUp
<1>3. CASE CloseReservation(r) /\ UNCHANGED session
  <2>1. Alone' /\ SessionsFit(within)' /\ Closing = {} /\ Closing' = {}
    BY <1>1, <1>3, NobodysTurn
  <2>2. QED
    BY <1>1, <1>3, <2>1, CloseReservationFits DEF InTurn
<1>4. QED
  BY <1>2, <1>3 DEF StartCancel

LEMMA CancelRefundedInTurn ==
  ASSUME ~Overlap, NEW within \in BOOLEAN, within => WithinDays, IInv,
         InTurn(within), NEW h \in Handlers, h # Maintenance, CancelRefunded(h)
  PROVE  InTurn(within)'
<1> DEFINE s == session[h]
<1>1. /\ s.at = "refund" /\ s.op = "cancel" /\ Finish(h) /\ UNCHANGED <<today, pin>>
  BY DEF CancelRefunded
<1>2. s.r \in Reservations /\ IsActive(s.r)
  BY <1>1, OfSession DEF Carries, InTurn, SessionsFit, Fits, IsActive
<1>3. PICK ok \in BOOLEAN :
        /\ Refund(s.r, "returned", ok)
        /\ IF ok THEN CloseReservation(s.r) ELSE UNCHANGED rows
  BY DEF CancelRefunded
<1>4. Alone' /\ SessionsFit(within)' /\ Closing = {} /\ Closing' = {}
  BY <1>1, TakesTurn, IdleFits, IdleIsIdle DEF Finish
<1>5. CASE ok
  <2>1. \A q \in Reservations \ {s.r} : money'[q] = money[q]
    BY <1>3, <1>5 DEF Refund, IInv, CallTypes
  <2>2. QED
    BY <1>1, <1>2, <1>3, <1>4, <1>5, <2>1, CloseReservationFits DEF InTurn
<1>6. CASE ~ok
  BY <1>1, <1>3, <1>4, <1>6, RowsSame DEF Refund, InTurn
<1>7. QED
  BY <1>5, <1>6

(* A rental ends before its pickup: nobody else has or awaits its unit.      *)
LEMMA CloseRentalInTurn ==
  ASSUME ~Overlap, NEW within \in BOOLEAN, within => WithinDays, IInv,
         InTurn(within), NEW h \in Handlers, h # Maintenance,
         MayStart(h) \/ session[h].at # "idle", NEW r \in Reservations,
         rental[r].status = "PICKUP_READY", NEW outcome, outcome \notin Active,
         CloseRental(h, r, outcome), UNCHANGED <<today, pin>>,
         \A q \in Reservations \ {r} : money'[q] = money[q]
  PROVE  InTurn(within)'
<1> DEFINE u == UnitOf(r)
           s == [Idle EXCEPT !.at = "pin", !.op = session[h].op, !.r = r]
<1>1. /\ rental' = [rental EXCEPT ![r].status = "CANCELLED"]
      /\ booking' = [booking EXCEPT ![r].status = outcome]
      /\ unit' = IF unit[u] \in {"RESERVED", "RENTED"}
                   THEN [unit EXCEPT ![u] = "AVAILABLE"] ELSE unit
      /\ inCell' = inCell /\ (Go(h, s) \/ Go(h, Idle))
  BY DEF CloseRental, Finish
<1>2. /\ rental'[r].status = "CANCELLED"
      /\ \A q \in Reservations \ {r} : rental'[q] = rental[q]
      /\ \A q \in Reservations : /\ booking'[q].unit = booking[q].unit
                                 /\ booking'[q].user = booking[q].user
                                 /\ booking'[q].start = booking[q].start
                                 /\ booking'[q].status = IF q = r THEN outcome
                                                                  ELSE booking[q].status
  BY <1>1 DEF IInv, RowTypes, Bookings, Rentals
<1>3. \A v \in Units : v # u => unit'[v] = unit[v]
  BY <1>1 DEF IInv, RowTypes
<1>4. \A q \in Reservations : IsUnfinished(q)' => IsUnfinished(q) /\ q # r
  BY <1>2 DEF IsUnfinished, Unfinished, AwaitingPickup
<1>5. CellsFit => \A q \in Reservations \ {r} :
                    IsUnfinished(q) => UnitOf(q) \in Units /\ UnitOf(q) # u
  BY RowFacts DEF CellsFit, OneRental, IsUnfinished, Unfinished, AwaitingPickup
<1>6. ASSUME CellsFit PROVE CellsFit'
  <2>1. \A q \in Reservations : IsUnfinished(q)' =>
          /\ Waits(q, rental') <=> Waits(q, rental)
          /\ rental'[q].status = "ACTIVE" <=> rental[q].status = "ACTIVE"
          /\ unit'[UnitOf(q)] = unit[UnitOf(q)]
    BY <1>2, <1>3, <1>4, <1>5, <1>6 DEF Waits
  <2>2. QED
    BY <1>1, <1>2, <1>6, <2>1, CellsStay
<1>7. AllBacked'
  BY <1>2, <1>4, BackedStays
<1>8. \A q \in Reservations : IsActive(q)' => IsActive(q)
  BY <1>2 DEF IsActive
<1>9. BookedApart'
  BY <1>2, <1>8, ApartStays
<1>10. within => ~Claimed(booking'[r].unit, booking', rental')
  BY <1>2, <1>5 DEF InTurn, Claimed, Waits, UnitOf, IsUnfinished, Unfinished, AwaitingPickup
<1>11. ASSUME NEW t, t \in {s, Idle}
       PROVE  Fits(within, t, booking', rental', unit', inCell')
  <2>1. s.at = "pin" /\ s.r = r
    BY DEF Idle
  <2> HIDE DEF s
  <2>2. Fits(within, s, booking', rental', unit', inCell')
    BY <1>10, <2>1 DEF Fits
  <2>3. QED
    BY <1>11, <2>2, IdleFits, IdleIsIdle
<1>12. PICK t \in {s, Idle} : Go(h, t)
  BY <1>1
<1>13. Alone' /\ SessionsFit(within)' /\ Closing = {} /\ Closing' = {}
  BY <1>11, <1>12, TakesTurn
<1>14. MoneyFits'
  BY <1>2, <1>13 DEF InTurn, MoneyFits, Active
<1>15. QED
  BY <1>6, <1>7, <1>9, <1>13, <1>14 DEF InTurn

(* A rental that has not been opened, and its refund.                       *)
LEMMA StartEndInTurn ==
  ASSUME ~Overlap, NEW within \in BOOLEAN, within => WithinDays, IInv,
         InTurn(within), NEW h \in Handlers, h # Maintenance, MayStart(h),
         NEW r \in Reservations, rental[r].status = "PICKUP_READY",
         NEW op \in {"cancelRental", "expiry"}, NEW outcome, outcome \notin Active,
         IF LooksPaid(r)
           THEN Go(h, [Idle EXCEPT !.at = "refund", !.op = op, !.r = r]) /\ UNCHANGED rows
           ELSE CloseRental(h, r, outcome),
         UNCHANGED <<today, pin, money, faults>>
  PROVE  InTurn(within)'
<1> DEFINE s == [Idle EXCEPT !.at = "refund", !.op = op, !.r = r]
<1>1. CASE Go(h, s) /\ UNCHANGED rows
  <2>1. /\ s.at = "refund" /\ s.op = op /\ s.r = r /\ s.paid = {}
        /\ s.unpaid = {} /\ s.done = {} /\ s.freed = {}
    BY DEF Idle
  <2> HIDE DEF s
  <2>2. Fits(within, s, booking, rental, unit, inCell)
    BY <2>1 DEF Fits
  <2>3. QED
    BY <1>1, <2>2, TakesUp
<1>2. CASE CloseRental(h, r, outcome)
  BY <1>2, CloseRentalInTurn
<1>3. QED
  BY <1>1, <1>2

LEMMA NotActiveThen ==
  ASSUME NEW within \in BOOLEAN, InTurn(within), NEW r \in Reservations, rental[r].status = "PICKUP_READY"
  PROVE  booking[r].status \notin Active
BY DEF InTurn, AllBacked, Backed, IsUnfinished, Unfinished, AwaitingPickup, Active

LEMMA StartCancelRentalInTurn ==
  ASSUME ~Overlap, NEW within \in BOOLEAN, within => WithinDays, IInv,
         InTurn(within), NEW h \in Handlers, h # Maintenance,
         NEW r \in Reservations, StartCancelRental(h, r)
  PROVE  InTurn(within)'
<1>1. /\ MayStart(h) /\ rental[r].status = "PICKUP_READY"
      /\ IF LooksPaid(r)
           THEN Go(h, [Idle EXCEPT !.at = "refund", !.op = "cancelRental", !.r = r])
                /\ UNCHANGED rows
           ELSE CloseRental(h, r, "CANCELLED")
      /\ UNCHANGED <<today, pin, money, faults>>
  BY DEF StartCancelRental
<1>2. "CANCELLED" \notin Active
  BY DEF Active
<1>3. QED
  BY <1>1, <1>2, StartEndInTurn

LEMMA StartPickupExpiryInTurn ==
  ASSUME ~Overlap, NEW within \in BOOLEAN, within => WithinDays, IInv,
         InTurn(within), NEW r \in Reservations, StartPickupExpiry(r)
  PROVE  InTurn(within)'
<1> DEFINE h == PickupExpiry
<1>1. h \in Handlers /\ h # Maintenance
  BY NamesAssumption DEF Handlers
<1>2. /\ MayStart(h) /\ rental[r].status = "PICKUP_READY"
      /\ IF LooksPaid(r)
           THEN Go(h, [Idle EXCEPT !.at = "refund", !.op = "expiry", !.r = r])
                /\ UNCHANGED rows
           ELSE CloseRental(h, r, booking[r].status)
      /\ UNCHANGED <<today, pin, money, faults>>
  BY DEF StartPickupExpiry
<1>3. booking[r].status \notin Active
  BY <1>2, NotActiveThen
<1> HIDE DEF h
<1>4. QED
  BY <1>1, <1>2, <1>3, StartEndInTurn

LEMMA RentalRefundedInTurn ==
  ASSUME ~Overlap, NEW within \in BOOLEAN, within => WithinDays, IInv,
         InTurn(within), NEW h \in Handlers, h # Maintenance, RentalRefunded(h)
  PROVE  InTurn(within)'
<1> DEFINE s == session[h]
           outcome == IF s.op = "expiry" THEN booking[s.r].status ELSE "CANCELLED"
<1>1. s.at = "refund" /\ s.op \in {"cancelRental", "expiry"} /\ UNCHANGED <<today, pin>>
  BY DEF RentalRefunded
<1>2. s.r \in Reservations /\ rental[s.r].status = "PICKUP_READY"
  BY <1>1, OfSession DEF Carries, InTurn, SessionsFit, Fits
<1>3. PICK ok \in BOOLEAN :
        /\ Refund(s.r, "returned", ok)
        /\ IF ok THEN CloseRental(h, s.r, outcome) ELSE Finish(h) /\ UNCHANGED rows
  BY DEF RentalRefunded
<1>4. CASE ok
  <2>1. \A q \in Reservations \ {s.r} : money'[q] = money[q]
    BY <1>3, <1>4 DEF Refund, IInv, CallTypes
  <2>2. outcome \notin Active
    BY <1>2, NotActiveThen DEF Active
  <2>3. QED
    BY <1>1, <1>2, <1>3, <1>4, <2>1, <2>2, CloseRentalInTurn
<1>5. CASE ~ok
  <2>1. Go(h, Idle) /\ UNCHANGED <<today, rows, pin, money>>
    BY <1>1, <1>3, <1>5 DEF Finish, Refund
  <2>2. QED
    BY <1>1, <2>1, TakesUp, IdleFits, IdleIsIdle
<1>6. QED
  BY <1>4, <1>5

(* The new code of a cell whose rental was closed: nobody awaits its unit.   *)
LEMMA PinResetInTurn ==
  ASSUME ~Overlap, NEW within \in BOOLEAN, within => WithinDays, IInv,
         InTurn(within), NEW h \in Handlers, h # Maintenance, PinReset(h)
  PROVE  InTurn(within)'
<1> DEFINE s == session[h]
<1>1. /\ s.at = "pin" /\ Finish(h) /\ UNCHANGED <<today, rows, money>>
      /\ pin' = pin \/ pin' = [pin EXCEPT ![UnitOf(s.r)] = None]
  BY DEF PinReset, SetPin
<1>2. within => ~Claimed(UnitOf(s.r), booking, rental)
  BY <1>1 DEF InTurn, SessionsFit, Fits, UnitOf
<1>3. Alone' /\ SessionsFit(within)' /\ Closing = {} /\ Closing' = {}
  BY <1>1, TakesTurn, IdleFits, IdleIsIdle DEF Finish
<1>4. ASSUME within, NEW q \in Reservations, Waits(q, rental)
      PROVE  pin'[UnitOf(q)] = pin[UnitOf(q)]
  <2>1. UnitOf(q) # UnitOf(s.r)
    BY <1>2, <1>4 DEF Claimed, UnitOf
  <2>2. UnitOf(q) \in Units
    BY <1>4, RowFacts DEF Waits, AwaitingPickup
  <2>3. QED
    BY <1>1, <2>1, <2>2 DEF IInv, CallTypes
<1>5. within => CellsFit'
  BY <1>1, <1>4 DEF rows, InTurn, CellsFit, OneRental, Awaited, IsOut, Waits, UnitOf,
     IsUnfinished
<1>6. AllBacked' /\ BookedApart'
  BY <1>1, BackedStays, ApartStays DEF rows, IsUnfinished, IsActive
<1>7. MoneyFits'
  BY <1>1, <1>3 DEF rows, InTurn, MoneyFits
<1>8. QED
  BY <1>3, <1>5, <1>6, <1>7 DEF InTurn

-----------------------------------------------------------------------------
(* Pickup. *)

LEMMA StartOpenInTurn ==
  ASSUME ~Overlap, NEW within \in BOOLEAN, within => WithinDays, IInv,
         InTurn(within), NEW h \in Handlers, h # Maintenance,
         NEW r \in Reservations, StartOpen(h, r)
  PROVE  InTurn(within)'
<1> DEFINE s == [Idle EXCEPT !.at = "open", !.op = "open", !.r = r,
                             !.seen = rental[r].status]
<1>1. MayStart(h) /\ Go(h, s) /\ UNCHANGED <<today, rows, pin, money, faults>>
  BY DEF StartOpen
<1>2. s.at = "open" /\ s.r = r /\ s.seen = rental[r].status
  BY DEF Idle
<1> HIDE DEF s
<1>3. Fits(within, s, booking, rental, unit, inCell)
  BY <1>2 DEF Fits
<1>4. QED
  BY <1>1, <1>3, TakesUp

LEMMA OpenAnsweredInTurn ==
  ASSUME ~Overlap, NEW within \in BOOLEAN, within => WithinDays, IInv,
         InTurn(within), NEW h \in Handlers, h # Maintenance, OpenAnswered(h)
  PROVE  InTurn(within)'
<1> DEFINE s == session[h]
<1>1. /\ s.at = "open" /\ Finish(h) /\ UNCHANGED <<today, booking, unit, inCell, pin, money>>
  BY DEF OpenAnswered
<1>2. s.r \in Reservations /\ rental[s.r].status = s.seen
  BY <1>1, OfSession DEF Carries, InTurn, SessionsFit, Fits
<1>3. \/ rental' = rental
      \/ s.seen = "PICKUP_READY" /\ rental' = [rental EXCEPT ![s.r].status = "PICKUP_OPENED"]
  BY DEF OpenAnswered
<1>4. Alone' /\ SessionsFit(within)' /\ Closing = {} /\ Closing' = {}
  BY <1>1, TakesTurn, IdleFits, IdleIsIdle DEF Finish
<1>5. \A q \in Reservations :
        \/ rental'[q].status = rental[q].status
        \/ rental[q].status = "PICKUP_READY" /\ rental'[q].status = "PICKUP_OPENED"
  BY <1>2, <1>3 DEF IInv, RowTypes, Rentals
<1>6. \A q \in Reservations : /\ Waits(q, rental') <=> Waits(q, rental)
                              /\ rental'[q].status = "ACTIVE" <=> rental[q].status = "ACTIVE"
                              /\ IsUnfinished(q)' <=> IsUnfinished(q)
  BY <1>5 DEF Waits, IsUnfinished, Unfinished, AwaitingPickup
<1>7. CellsFit => CellsFit'
  BY <1>1, <1>6, CellsStay
<1>8. AllBacked' /\ BookedApart'
  BY <1>1, <1>6, BackedStays, ApartStays DEF IsActive
<1>9. MoneyFits'
  BY <1>1, <1>4 DEF InTurn, MoneyFits
<1>10. QED
  BY <1>4, <1>7, <1>8, <1>9 DEF InTurn

LEMMA StartPickupInTurn ==
  ASSUME ~Overlap, NEW within \in BOOLEAN, within => WithinDays, IInv,
         InTurn(within), NEW h \in Handlers, h # Maintenance,
         NEW r \in Reservations, StartPickup(h, r)
  PROVE  InTurn(within)'
<1> DEFINE s == [Idle EXCEPT !.at = "pickup", !.op = "pickup", !.r = r]
<1>1. /\ Waits(r, rental) /\ MayStart(h) /\ UNCHANGED <<today, pin, money, faults>>
      /\ \/ Go(h, s) /\ UNCHANGED rows
         \/ TakeOut(r) /\ UNCHANGED session
  BY DEF StartPickup, Waits
<1>2. CASE Go(h, s) /\ UNCHANGED rows
  <2>1. s.at = "pickup" /\ s.r = r
    BY DEF Idle
  <2> HIDE DEF s
  <2>2. Fits(within, s, booking, rental, unit, inCell)
    BY <1>1, <2>1 DEF Fits
  <2>3. QED
    BY <1>1, <1>2, <2>2, TakesUp
<1>3. CASE TakeOut(r) /\ UNCHANGED session
  BY <1>1, <1>3, NobodysTurn, TakeOutFits DEF InTurn
<1>4. QED
  BY <1>1, <1>2, <1>3

LEMMA PickupAnsweredInTurn ==
  ASSUME ~Overlap, NEW within \in BOOLEAN, within => WithinDays, IInv,
         InTurn(within), NEW h \in Handlers, h # Maintenance, PickupAnswered(h)
  PROVE  InTurn(within)'
<1> DEFINE s == session[h]
<1>1. s.at = "pickup" /\ Finish(h) /\ UNCHANGED <<today, money>>
  BY DEF PickupAnswered
<1>2. s.r \in Reservations /\ Waits(s.r, rental)
  BY <1>1, OfSession DEF Carries, InTurn, SessionsFit, Fits
<1>3. PICK ok \in BOOLEAN :
        /\ SetPin(UnitOf(s.r), s.r, ok)
        /\ IF ok THEN TakeOut(s.r) ELSE UNCHANGED rows
  BY DEF PickupAnswered
<1>4. Alone' /\ SessionsFit(within)' /\ Closing = {} /\ Closing' = {}
  BY <1>1, TakesTurn, IdleFits, IdleIsIdle DEF Finish
<1>5. CASE ok
  <2>1. pin' = [pin EXCEPT ![UnitOf(s.r)] = s.r]
    BY <1>3, <1>5 DEF SetPin
  <2>2. QED
    BY <1>1, <1>2, <1>3, <1>4, <1>5, <2>1, TakeOutFits DEF InTurn
<1>6. CASE ~ok
  BY <1>1, <1>3, <1>4, <1>6, RowsSame DEF SetPin, InTurn
<1>7. QED
  BY <1>5, <1>6

-----------------------------------------------------------------------------
(* The maintenance tick. *)

LEMMA StartTickInTurn ==
  ASSUME ~Overlap, NEW within \in BOOLEAN, within => WithinDays, IInv,
         InTurn(within), StartTick PROVE InTurn(within)'
<1> DEFINE s == [Idle EXCEPT !.at = "sweep", !.op = "tick",
                   !.paid = {r \in Reservations : booking[r].status = "PAYMENT_AUTHORIZED"}]
<1>1. /\ Maintenance \in Handlers /\ MayStart(Maintenance) /\ Go(Maintenance, s)
      /\ UNCHANGED <<today, rows, pin, money, faults>>
  BY DEF StartTick, Handlers
<1>2. /\ s.at = "sweep" /\ s.done = {} /\ s.freed = {}
      /\ \A r \in s.paid : booking[r].status = "PAYMENT_AUTHORIZED"
  BY DEF Idle
<1> HIDE DEF s
<1>3. Fits(within, s, booking', rental', unit', inCell')
  BY <1>1, <1>2 DEF Fits, rows
<1>4. Alone' /\ SessionsFit(within)'
  BY <1>1, <1>3, TakesTurn
<1>5. session[Maintenance].at = "idle"
  BY <1>1 DEF MayStart
<1>6. Closing \subseteq Closing'
  BY <1>5 DEF Closing
<1>7. QED
  BY <1>1, <1>4, <1>6, RowsSame DEF InTurn

(* What the sweeps have in hand.                                            *)
LEMMA InHand ==
  ASSUME NEW within \in BOOLEAN, IInv, InTurn(within), session[Maintenance].at # "idle"
  PROVE  /\ Maintenance \in Handlers /\ session[Maintenance] \in Sessions
         /\ Carries(session[Maintenance], booking, money, rental)
         /\ Fits(within, session[Maintenance], booking, rental, unit, inCell)
         /\ \A t : Go(Maintenance, t) => session'[Maintenance] = t
<1>1. Maintenance \in Handlers /\ session \in [Handlers -> Sessions]
  BY DEF Handlers, IInv, SessionsTrue
<1>2. QED
  BY <1>1, OfSession DEF InTurn, SessionsFit, Go

LEMMA SweepOneInTurn ==
  ASSUME ~Overlap, NEW within \in BOOLEAN, within => WithinDays, IInv,
         InTurn(within), NEW r \in Reservations, SweepOne(r) PROVE InTurn(within)'
<1> DEFINE s == session[Maintenance]
           rest == [s EXCEPT !.paid = @ \ {r}]
           call == [rest EXCEPT !.at = "confirm", !.r = r, !.seen = unit[UnitOf(r)]]
<1>1. /\ s.at = "sweep" /\ r \in s.paid
      /\ UNCHANGED <<today, rental, unit, inCell, pin, money, faults>>
  BY DEF SweepOne
<1>2. /\ Maintenance \in Handlers /\ s \in Sessions
      /\ s.done = {} /\ s.freed = {}
      /\ \A q \in s.paid : booking[q].status = "PAYMENT_AUTHORIZED"
      /\ \A t : Go(Maintenance, t) => session'[Maintenance] = t
  BY <1>1, InHand DEF Fits
<1>3. /\ rest.at = "sweep" /\ rest.paid = s.paid \ {r} /\ rest.done = {} /\ rest.freed = {}
      /\ call.at = "confirm" /\ call.paid = s.paid \ {r} /\ call.done = {}
      /\ call.freed = {} /\ call.r = r /\ call.seen = unit[UnitOf(r)]
  BY <1>1, <1>2 DEF Sessions
<1> HIDE DEF rest, call
<1>4. Closing = {}
  BY <1>1 DEF Closing
<1>5. CASE Go(Maintenance, rest) /\ UNCHANGED booking
  <2>1. Fits(within, rest, booking', rental', unit', inCell')
    BY <1>2, <1>3, <1>5 DEF Fits
  <2>2. Alone' /\ SessionsFit(within)'
    BY <1>1, <1>2, <1>5, <2>1, TakesTurn
  <2>3. QED
    BY <1>1, <1>4, <1>5, <2>2, RowsSame DEF InTurn, rows
<1>6. CASE /\ booking' = [booking EXCEPT ![r].status = "CONFIRMED"]
           /\ Go(Maintenance, rest)
  <2>1. \A q \in Reservations : /\ booking'[q].unit = booking[q].unit
                                /\ booking'[q].user = booking[q].user
                                /\ booking'[q].start = booking[q].start
                                /\ booking'[q].status = IF q = r THEN "CONFIRMED"
                                                                 ELSE booking[q].status
    BY <1>6 DEF IInv, RowTypes, Bookings
  <2>2. Fits(within, rest, booking', rental', unit', inCell')
    BY <1>2, <1>3, <2>1 DEF Fits, Sessions
  <2>3. Alone' /\ SessionsFit(within)'
    BY <1>1, <1>2, <1>6, <2>2, TakesTurn
  <2>4. \A q \in Reservations : /\ IsUnfinished(q)' <=> IsUnfinished(q)
                                /\ IsUnfinished(q) => q # r
                                /\ IsActive(q)' => IsActive(q)
    BY <1>1, <1>2, <2>1 DEF InTurn, AllBacked, Backed, IsUnfinished, IsActive, Active
  <2>5. CellsFit => CellsFit'
    BY <1>1, <2>1, CellsStay
  <2>6. AllBacked' /\ BookedApart'
    BY <1>1, <2>1, <2>4, BackedStays, ApartStays
  <2>7. MoneyFits'
    BY <1>1, <1>4, <2>1 DEF InTurn, MoneyFits
  <2>8. QED
    BY <2>3, <2>5, <2>6, <2>7 DEF InTurn
<1>7. CASE /\ ~PaidExpired(r) /\ rental[r].status = "NONE" /\ CanHandOver(r)
           /\ Go(Maintenance, call) /\ UNCHANGED booking
  <2>1. Ready(within, call, booking, rental, unit, inCell)
    BY <1>1, <1>2, <1>3, <1>7, ReadyNow
  <2>2. Fits(within, call, booking', rental', unit', inCell')
    BY <1>1, <1>2, <1>3, <1>7, <2>1 DEF Fits
  <2>3. Alone' /\ SessionsFit(within)'
    BY <1>1, <1>2, <1>7, <2>2, TakesTurn
  <2>4. QED
    BY <1>1, <1>4, <1>7, <2>3, RowsSame DEF InTurn, rows
<1>8. QED
  BY <1>5, <1>6, <1>7 DEF SweepOne, rest, call

LEMMA SweepAnsweredInTurn ==
  ASSUME ~Overlap, NEW within \in BOOLEAN, within => WithinDays, IInv,
         InTurn(within), SweepAnswered PROVE InTurn(within)'
<1> DEFINE s == session[Maintenance]
           next == [s EXCEPT !.at = "sweep", !.r = None, !.seen = "NONE"]
           stop == [next EXCEPT !.paid = {}]
<1>1. s.at = "confirm" /\ UNCHANGED <<today, money>>
  BY DEF SweepAnswered
<1>2. /\ Maintenance \in Handlers /\ s \in Sessions /\ s.r \in Reservations
      /\ s.done = {} /\ s.freed = {} /\ Ready(within, s, booking, rental, unit, inCell)
      /\ \A q \in s.paid : booking[q].status = "PAYMENT_AUTHORIZED"
  BY <1>1, InHand DEF Fits, Carries
<1>3. /\ next.at = "sweep" /\ next.paid = s.paid /\ next.done = {} /\ next.freed = {}
      /\ stop.at = "sweep" /\ stop.paid = {} /\ stop.done = {} /\ stop.freed = {}
  BY <1>2 DEF Sessions
<1>4. Closing = {}
  BY <1>1 DEF Closing
<1>5. PICK ok \in BOOLEAN :
        /\ SetPin(UnitOf(s.r), s.r, ok)
        /\ IF /\ ok /\ booking[s.r].status = "PAYMENT_AUTHORIZED"
              /\ rental[s.r].status = "NONE"
             THEN /\ \E from \in {booking[s.r].start, Later(booking[s.r].start, today)} :
                       HandOver(s.r, s.seen, from)
                  /\ Go(Maintenance, next)
             ELSE UNCHANGED rows /\ Go(Maintenance, stop)
  BY DEF SweepAnswered
<1> HIDE DEF next, stop
<1>6. CASE ok
  <2>1. Go(Maintenance, next) /\ pin' = [pin EXCEPT ![UnitOf(s.r)] = s.r]
    BY <1>2, <1>5, <1>6 DEF Ready, SetPin
  <2>2. PICK from : HandOver(s.r, s.seen, from)
    BY <1>2, <1>5, <1>6 DEF Ready
  <2>3. \A q \in s.paid : booking'[q].status = "PAYMENT_AUTHORIZED"
    BY <1>2, <2>2 DEF HandOver, Ready, IInv, RowTypes, Sessions
  <2>4. Fits(within, next, booking', rental', unit', inCell')
    BY <1>3, <2>3 DEF Fits
  <2>5. Alone' /\ SessionsFit(within)'
    BY <1>1, <1>2, <2>1, <2>4, TakesTurn
  <2>6. QED
    BY <1>1, <1>2, <1>4, <2>1, <2>2, <2>5, HandOverFits DEF InTurn
<1>7. CASE ~ok
  <2>1. UNCHANGED <<today, rows, pin, money>> /\ Go(Maintenance, stop)
    BY <1>1, <1>5, <1>7 DEF SetPin
  <2>2. Fits(within, stop, booking', rental', unit', inCell')
    BY <1>3 DEF Fits
  <2>3. Alone' /\ SessionsFit(within)'
    BY <1>1, <1>2, <2>1, <2>2, TakesTurn
  <2>4. QED
    BY <1>4, <2>1, <2>3, RowsSame DEF InTurn
<1>8. QED
  BY <1>6, <1>7

LEMMA StartExpiryInTurn ==
  ASSUME ~Overlap, NEW within \in BOOLEAN, within => WithinDays, IInv,
         InTurn(within), StartExpiry PROVE InTurn(within)'
<1> DEFINE s == session[Maintenance]
           stale(st) == {r \in Reservations : booking[r].status = st /\ IsExpired(r)}
           t == [s EXCEPT !.at = "expire", !.paid = stale("PAYMENT_AUTHORIZED"),
                          !.unpaid = stale("AWAITING_PAYMENT")]
<1>1. /\ s.at = "sweep" /\ Go(Maintenance, t)
      /\ UNCHANGED <<today, rows, pin, money, faults>>
  BY DEF StartExpiry
<1>2. Maintenance \in Handlers /\ s \in Sessions /\ s.done = {} /\ s.freed = {}
  BY <1>1, InHand DEF Fits
<1>3. /\ t.at = "expire" /\ t.done = {} /\ t.freed = {}
      /\ \A r \in t.paid \cup t.unpaid : booking[r].status \in Active
  BY <1>2 DEF Sessions, Active
<1> HIDE DEF t
<1>4. Fits(within, t, booking', rental', unit', inCell')
  BY <1>1, <1>3 DEF Fits, rows
<1>5. Alone' /\ SessionsFit(within)'
  BY <1>1, <1>2, <1>4, TakesTurn
<1>6. Closing = {}
  BY <1>1 DEF Closing
<1>7. QED
  BY <1>1, <1>5, <1>6, RowsSame DEF InTurn

(* A reservation joins the batch, with its unit when that is set free.       *)
LEMMA ExpiredFits ==
  ASSUME ~Overlap, NEW within \in BOOLEAN, within => WithinDays, IInv,
         InTurn(within), NEW s \in Sessions,
         Fits(within, s, booking, rental, unit, inCell), s.at \in {"expire", "refund"},
         NEW r \in Reservations, IsActive(r), NEW closed \in BOOLEAN,
         UNCHANGED <<today, rows>>
  PROVE  /\ Expired(s, r, closed).at = "expire"
         /\ Expired(s, r, closed).done = s.done \cup (IF closed THEN {r} ELSE {})
         /\ Fits(within, Expired(s, r, closed), booking', rental', unit', inCell')
<1> DEFINE t == Expired(s, r, closed)
           freed == IF closed /\ Releases(r) THEN {UnitOf(r)} ELSE {}
<1>1. /\ t.at = "expire" /\ t.paid = s.paid \ {r} /\ t.unpaid = s.unpaid \ {r}
      /\ t.done = s.done \cup (IF closed THEN {r} ELSE {})
      /\ t.freed = s.freed \cup freed
  BY DEF Expired, Sessions
<1>2. within => \A u \in freed : unit[u] = "RESERVED" /\ ~Claimed(u, booking, rental)
  BY ReleasesUnclaimed
<1> HIDE DEF t, freed
<1>3. Fits(within, t, booking, rental, unit, inCell)
  BY <1>1, <1>2 DEF Fits, IsActive
<1>4. QED
  BY <1>1, <1>3 DEF t, rows

LEMMA ExpireOneInTurn ==
  ASSUME ~Overlap, NEW within \in BOOLEAN, within => WithinDays, IInv, Ticks,
         InTurn(within), NEW r \in Reservations, ExpireOne(r)
  PROVE  InTurn(within)'
<1> DEFINE s == session[Maintenance]
           call == [s EXCEPT !.at = "refund", !.r = r]
<1>1. /\ s.at = "expire" /\ r \in s.paid \cup s.unpaid
      /\ UNCHANGED <<today, rows, pin, money, faults>>
      /\ Go(Maintenance, call) \/ Go(Maintenance, Expired(s, r, TRUE))
  BY DEF ExpireOne
<1>2. /\ Maintenance \in Handlers /\ s \in Sessions /\ IsActive(r)
      /\ Fits(within, s, booking, rental, unit, inCell)
      /\ \A t : Go(Maintenance, t) => session'[Maintenance] = t
  BY <1>1, InHand DEF Fits, IsActive
<1>3. CASE Go(Maintenance, call)
  <2>1. /\ call.at = "refund" /\ call.r = r /\ call.op = s.op /\ call.paid = s.paid
        /\ call.unpaid = s.unpaid /\ call.done = s.done /\ call.freed = s.freed
    BY <1>2 DEF Sessions
  <2> HIDE DEF call
  <2>2. Fits(within, call, booking', rental', unit', inCell')
    BY <1>1, <1>2, <2>1 DEF Fits, IsActive, Ticks, rows
  <2>3. Closing \subseteq Closing'
    BY <1>1, <1>2, <1>3, <2>1 DEF Closing
  <2>4. QED
    BY <1>1, <1>2, <1>3, <2>2, <2>3, TakesTurn, RowsSame DEF InTurn
<1>4. CASE Go(Maintenance, Expired(s, r, TRUE))
  <2> DEFINE t == Expired(s, r, TRUE)
  <2>1. /\ t.at = "expire" /\ t.done = s.done \cup (IF TRUE THEN {r} ELSE {})
        /\ Fits(within, t, booking', rental', unit', inCell')
    <3>1. TRUE \in BOOLEAN /\ UNCHANGED <<today, rows>>
      BY <1>1
    <3>2. QED
      BY <1>1, <1>2, <3>1, ExpiredFits
  <2> HIDE DEF t
  <2>2. Go(Maintenance, t)
    BY <1>4 DEF t
  <2>3. Closing \subseteq Closing'
    BY <1>1, <1>2, <2>1, <2>2 DEF Closing
  <2>4. QED
    BY <1>1, <1>2, <2>1, <2>2, <2>3, TakesTurn, RowsSame DEF InTurn
<1>5. QED
  BY <1>1, <1>3, <1>4

LEMMA ExpireRefundedInTurn ==
  ASSUME ~Overlap, NEW within \in BOOLEAN, within => WithinDays, IInv, Ticks,
         InTurn(within), ExpireRefunded PROVE InTurn(within)'
<1> DEFINE s == session[Maintenance]
<1>1. s.at = "refund" /\ UNCHANGED <<today, rows, pin>>
  BY DEF ExpireRefunded
<1>2. PICK ok \in BOOLEAN :
        Refund(s.r, "returning", ok) /\ Go(Maintenance, Expired(s, s.r, ok))
  BY DEF ExpireRefunded
<1> DEFINE t == Expired(s, s.r, ok)
<1>3. /\ Maintenance \in Handlers /\ s \in Sessions
      /\ s.r \in Reservations /\ IsActive(s.r)
      /\ Fits(within, s, booking, rental, unit, inCell)
      /\ \A x : Go(Maintenance, x) => session'[Maintenance] = x
  BY <1>1, InHand DEF Fits, IsActive, Ticks, Carries
<1>4. /\ t.at = "expire" /\ t.done = s.done \cup (IF ok THEN {s.r} ELSE {})
      /\ Fits(within, t, booking', rental', unit', inCell')
  BY <1>1, <1>3, ExpiredFits
<1> HIDE DEF t
<1>5. Go(Maintenance, t)
  BY <1>2 DEF t
<1>6. Alone' /\ SessionsFit(within)'
  BY <1>1, <1>3, <1>4, <1>5, TakesTurn
<1>7. Closing' = Closing \cup (IF ok THEN {s.r} ELSE {})
  BY <1>1, <1>3, <1>4, <1>5 DEF Closing
<1>8. \A q \in Reservations :
        money'[q] = money[q] \/ (ok /\ q = s.r /\ money'[q] = "returning")
  BY <1>2, <1>3 DEF Refund, IInv, CallTypes
<1>9. MoneyFits'
  BY <1>1, <1>7, <1>8 DEF InTurn, MoneyFits, rows
<1>10. \A q \in Reservations : IsUnfinished(q) => money'[q] = money[q]
  BY <1>3, <1>8 DEF InTurn, AllBacked, Backed, IsActive, Active
<1>11. AllBacked' /\ BookedApart'
  BY <1>1, <1>10, BackedStays, ApartStays DEF rows, IsUnfinished, IsActive
<1>12. CellsFit => CellsFit'
  BY <1>1, CellsStay DEF rows, IsUnfinished
<1>13. QED
  BY <1>6, <1>9, <1>11, <1>12 DEF InTurn

LEMMA ExpiryCommittedInTurn ==
  ASSUME ~Overlap, NEW within \in BOOLEAN, within => WithinDays, IInv,
         InTurn(within), ExpiryCommitted PROVE InTurn(within)'
<1> DEFINE s == session[Maintenance]
<1>1. /\ s.at = "expire" /\ Finish(Maintenance)
      /\ booking' = [r \in Reservations |->
                       IF r \in s.done THEN [booking[r] EXCEPT !.status = "EXPIRED"]
                                       ELSE booking[r]]
      /\ unit' = [u \in Units |-> IF u \in s.freed THEN "AVAILABLE" ELSE unit[u]]
      /\ money' = [r \in Reservations |->
                     IF r \in s.done /\ money[r] = "returning" THEN "returned"
                                                               ELSE money[r]]
      /\ UNCHANGED <<today, rental, inCell, pin, faults>>
  BY DEF ExpiryCommitted
<1>2. /\ Maintenance \in Handlers
      /\ \A r \in s.done : booking[r].status \in Active
      /\ within => \A u \in s.freed : unit[u] = "RESERVED" /\ ~Claimed(u, booking, rental)
  BY <1>1, InHand DEF Fits
<1>3. Alone' /\ SessionsFit(within)'
  BY <1>1, <1>2, TakesTurn, IdleFits, IdleIsIdle DEF Finish
<1>4. \A q \in Reservations : /\ booking'[q].unit = booking[q].unit
                              /\ booking'[q].user = booking[q].user
                              /\ booking'[q].start = booking[q].start
                              /\ booking'[q].status = IF q \in s.done THEN "EXPIRED"
                                                               ELSE booking[q].status
  BY <1>1 DEF IInv, RowTypes, Bookings
<1>5. \A q \in Reservations : q \in s.done => ~IsUnfinished(q)
  BY <1>2 DEF InTurn, AllBacked, Backed, Active
<1>6. \A q \in Reservations \ s.done : money'[q] = money[q]
  BY <1>1
<1>7. \A q \in Reservations : IsUnfinished(q) =>
        booking'[q].status = booking[q].status /\ money'[q] = money[q]
  BY <1>4, <1>5, <1>6
<1>8. within => CellsFit'
  BY <1>1, <1>2, <1>4, FreedFits DEF InTurn
<1>14. AllBacked'
  BY <1>1, <1>7, BackedStays DEF IsUnfinished
<1>9. \A q \in Reservations : IsActive(q)' => IsActive(q)
  BY <1>4 DEF IsActive, Active
<1>10. BookedApart'
  BY <1>4, <1>9, ApartStays
<1>11. Closing = s.done
  BY <1>1 DEF Closing
<1>12. MoneyFits'
  BY <1>4, <1>6, <1>11 DEF InTurn, MoneyFits
<1>13. QED
  BY <1>3, <1>8, <1>10, <1>12, <1>14 DEF InTurn

-----------------------------------------------------------------------------
(* The specification, one handler at a time. *)

LEMMA InitInTurn ==
  ASSUME NEW within \in BOOLEAN PROVE Init => InTurn(within)
<1> SUFFICES ASSUME Init PROVE InTurn(within)
  OBVIOUS
<1>1. Alone /\ SessionsFit(within)
  BY IdleFits, IdleIsIdle DEF Init, Alone, SessionsFit
<1>2. \A r \in Reservations : booking[r].status = "NONE" /\ rental[r].status = "NONE"
  BY DEF Init, NoBooking, NoRental
<1>3. CellsFit
  BY <1>2 DEF CellsFit, Awaited, IsOut, Waits, OneRental, IsUnfinished, Unfinished,
     AwaitingPickup
<1>4. AllBacked /\ MoneyFits /\ BookedApart
  BY <1>2 DEF AllBacked, Backed, IsUnfinished, Unfinished, AwaitingPickup, MoneyFits,
     BookedApart, IsActive, Active
<1>5. QED
  BY <1>1, <1>3, <1>4 DEF InTurn

LEMMA RequestInTurn ==
  ASSUME ~Overlap, NEW within \in BOOLEAN, within => WithinDays, IInv, InTurn(within),
         NEW h \in Requests, Starts(h) \/ Answered(h)
  PROVE  InTurn(within)'
<1>1. h \in Handlers /\ h # Maintenance
  BY NamesAssumption DEF Handlers
<1>2. ASSUME Starts(h) PROVE InTurn(within)'
  BY <1>1, <1>2, StartCreateInTurn, StartConfirmInTurn, StartCancelInTurn,
     StartCancelRentalInTurn, StartOpenInTurn, StartPickupInTurn DEF Starts
<1>3. ASSUME Answered(h) PROVE InTurn(within)'
  BY <1>1, <1>3, InsertReservationInTurn, ConfirmAnsweredInTurn, CancelRefundedInTurn,
     RentalRefundedInTurn, PinResetInTurn, OpenAnsweredInTurn, PickupAnsweredInTurn
     DEF Answered
<1>4. QED
  BY <1>2, <1>3

LEMMA NextInTurn ==
  ASSUME ~Overlap, NEW within \in BOOLEAN
  PROVE  (within => WithinDays) /\ IInv /\ Ticks /\ InTurn(within) /\ [Next]_vars
           => InTurn(within)'
<1> SUFFICES ASSUME within => WithinDays, IInv, Ticks, InTurn(within), [Next]_vars
             PROVE  InTurn(within)'
  OBVIOUS
<1>1. CASE DayPasses
  BY <1>1, DayPassesInTurn
<1>2. ASSUME NEW r \in Reservations,
             WindowCloses(r) \/ Pay(r) \/ AutoPickup(r) \/ ReturnCompleted(r)
      PROVE  InTurn(within)'
  BY <1>2, WindowClosesInTurn, PayInTurn, AutoPickupInTurn, ReturnCompletedInTurn
<1>3. ASSUME NEW u \in Units, ConfirmReady(u) PROVE InTurn(within)'
  BY <1>3, ConfirmReadyInTurn
<1>4. ASSUME NEW h \in Requests, Starts(h) \/ Answered(h) PROVE InTurn(within)'
  BY <1>4, RequestInTurn
<1>5. CASE PickupExpiryStep
  <2>1. PickupExpiry \in Handlers /\ PickupExpiry # Maintenance
    BY NamesAssumption DEF Handlers
  <2>2. QED
    BY <1>5, <2>1, StartPickupExpiryInTurn, RentalRefundedInTurn, PinResetInTurn
       DEF PickupExpiryStep
<1>6. CASE MaintenanceStep
  BY <1>6, StartTickInTurn, SweepAnsweredInTurn, StartExpiryInTurn, ExpireRefundedInTurn,
     ExpiryCommittedInTurn, SweepOneInTurn, ExpireOneInTurn DEF MaintenanceStep
<1>7. CASE UNCHANGED vars
  <2>1. UNCHANGED <<rows, pin, money>> /\ UNCHANGED session
    BY <1>7 DEF vars, rows
  <2>2. Alone' /\ SessionsFit(within)' /\ Closing' = Closing
    BY SMTT(20), <2>1 DEF rows, InTurn, Alone, SessionsFit, Fits, Ready, Claimed, Waits,
                          Closing
  <2>3. QED
    BY <2>1, <2>2, RowsSame DEF InTurn
<1>8. QED
  BY <1>1, <1>2, <1>3, <1>4, <1>5, <1>6, <1>7 DEF Next

(* Whatever dates are asked for.                                            *)
LEMMA AlwaysInTurn == ASSUME ~Overlap PROVE Spec => []InTurn(FALSE)
<1>1. IInv /\ Ticks /\ InTurn(FALSE) /\ [Next]_vars => InTurn(FALSE)'
  BY NextInTurn
<1>2. Init => InTurn(FALSE)
  BY InitInTurn
<1>3. QED
  BY <1>1, <1>2, HandoverAlways, PTL DEF Spec

(* As long as no rental is awaited beyond its days.                         *)
LEMMA AlwaysWithin == ASSUME ~Overlap PROVE Spec /\ []WithinDays => []InTurn(TRUE)
<1>1. WithinDays /\ IInv /\ Ticks /\ InTurn(TRUE) /\ [Next]_vars => InTurn(TRUE)'
  BY NextInTurn
<1>2. Init => InTurn(TRUE)
  BY InitInTurn
<1>3. QED
  BY <1>1, <1>2, HandoverAlways, PTL DEF Spec

(* An item is promised to one rental at a time, as long as no rental is       *)
(* awaited beyond its days: confirm_reservation and the sweep ask             *)
(* get_handover_blocker before they hand over, and an item that is awaited or *)
(* out blocks.  The dates of reservations and rentals are any dates.          *)
THEOREM OneRentalPerUnit == ASSUME ~Overlap PROVE Spec => OneUnfinishedRental
<1>1. InTurn(TRUE) => OneRental
  BY DEF InTurn, CellsFit
<1>2. QED
  BY <1>1, AlwaysWithin, PTL DEF OneUnfinishedRental

(* As long as no rental is awaited beyond its days, the code a client sees in  *)
(* the application opens the cell in which the item lies, set aside, whatever *)
(* is cancelled, expired or returned around it.                               *)
THEOREM CodeOpensTheCell == ASSUME ~Overlap PROVE Spec => PickupWorks
<1>1. InTurn(TRUE) => ItemAwaits
  BY DEF InTurn, CellsFit, Awaited, Waits, ItemAwaits
<1>2. QED
  BY <1>1, AlwaysWithin, PTL DEF PickupWorks

(* Who has or awaits an item has paid for it: no refund and no sweep takes    *)
(* the money or the reservation away from under a rental, whatever its dates. *)
THEOREM RentersHavePaid == ASSUME ~Overlap PROVE Spec => []RentalIsBacked
<1>1. InTurn(FALSE) => RentalIsBacked
  BY DEF InTurn, AllBacked, Backed, RentalIsBacked
<1>2. QED
  BY <1>1, AlwaysInTurn, PTL

(* Two clients never hold live bookings of one unit on one day: what          *)
(* _get_available_inventory_unit found free is free when it is inserted.      *)
THEOREM BookingsShareNoDay == ASSUME ~Overlap PROVE Spec => []NoDoubleBooking
<1>1. IInv /\ InTurn(FALSE) => NoDoubleBooking
  <2> SUFFICES ASSUME IInv, InTurn(FALSE), NEW q \in Reservations, NEW r \in Reservations,
                      q # r, IsActive(q), IsActive(r), booking[q].user # booking[r].user,
                      UnitOf(q) = UnitOf(r)
               PROVE  ~Intersect(booking[q].start, booking[q].start + Days,
                                 booking[r].start, booking[r].start + Days)
    BY DEF NoDoubleBooking
  <2>1. Apart(booking[r].start, booking[q].start)
    BY DEF InTurn, BookedApart
  <2>2. /\ booking[q].start \in Nat /\ booking[r].start \in Nat
        /\ Days \in Nat /\ Days > 0
    BY RowFacts
  <2>3. QED
    BY <2>1, <2>2, IntersectApart
<1>2. QED
  BY <1>1, AlwaysInTurn, HandoverAlways, PTL

-----------------------------------------------------------------------------
(* The calendar, with handlers in any order and rentals of any length.       *)

(* The first shared day of two ranges. *)
LEMMA SharedDay ==
  ASSUME NEW a \in Nat, NEW b \in Nat, NEW c \in Nat, NEW d \in Nat, Intersect(a, b, c, d)
  PROVE  \E x \in Nat : a <= x /\ x < b /\ c <= x /\ x < d
<1>1. Later(a, c) \in Nat /\ a <= Later(a, c) /\ c <= Later(a, c)
  BY DEF Later
<1>2. Later(a, c) < b /\ Later(a, c) < d
  BY <1>1 DEF Intersect, Sooner
<1>3. QED
  BY <1>1, <1>2

(* Every day of a range that the calendar offers is greyed out by nothing.   *)
LEMMA OfferedDay ==
  ASSUME NEW from \in Nat, Days \in Nat \ {0}, Offered(from), NEW r \in Reservations,
         NEW x \in Nat, from <= x, x < from + Days
  PROVE  x \notin DaysOfReservation(r) /\ x \notin DaysOfRental(r)
<1>1. x \in from..(from + (IF Days = 1 THEN 0 ELSE Days))
  OBVIOUS
<1>2. x \notin BusyDays
  BY <1>1 DEF Offered
<1>3. QED
  BY <1>2 DEF BusyDays

LEMMA OfferedIsFree ==
  ASSUME IInv, NEW from \in Nat, Offered(from), ~DayAfterReturn(from)
  PROVE  FreeUnits(None, from) # {}
<1>1. PICK u \in Units :
        \/ inCell[u] /\ unit[u] # "AWAITING_CONFIRMATION"
        \/ ~inCell[u] /\ unit[u] = "RENTED"
             /\ \E r \in Reservations : UnitOf(r) = u /\ IsUnfinished(r)
  BY DEF Offered, Bookable
<1>2. Days \in Nat \ {0} /\ today \in Nat /\ from + Days \in Nat
  BY BoundsAssumption DEF IInv, RowTypes
<1>3. ASSUME NEW r \in Reservations, UnitOf(r) = u PROVE ~RentalBlocks(r, from, from + Days)
  <2> DEFINE d == rental[r]
  <2>1. d.from \in Nat /\ d.till \in Nat
    BY RowFacts
  <2>2. CASE d.status \in AwaitingPickup
    <3>1. SUFFICES ASSUME Intersect(from, from + Days, Sooner(d.from, today), d.till)
                   PROVE  FALSE
      BY <2>2 DEF RentalBlocks, AwaitingPickup
    <3>2. Sooner(d.from, today) \in Nat
      BY <1>2, <2>1 DEF Sooner
    <3>3. PICK x \in Nat : /\ from <= x /\ x < from + Days
                           /\ Sooner(d.from, today) <= x /\ x < d.till
      BY <1>2, <2>1, <3>1, <3>2, SharedDay
    <3>4. x \in DaysOfRental(r)
      <4>1. DaysOfRental(r) = Sooner(d.from, today)..d.till
        BY <2>2 DEF DaysOfRental, AwaitingPickup
      <4>2. x \in Sooner(d.from, today)..d.till
        BY <2>1, <3>2, <3>3
      <4>3. QED
        BY <4>1, <4>2
    <3>5. QED
      BY <1>2, <3>3, <3>4, OfferedDay
  <2>3. CASE d.status = "ACTIVE"
    <3> DEFINE end == IF inCell[u] THEN d.till ELSE Later(d.till, today + 1)
    <3>1. SUFFICES ASSUME Intersect(from, from + Days, d.from, end) PROVE FALSE
      BY <1>3, <2>3 DEF RentalBlocks, AwaitingPickup
    <3>2. end \in Nat
      BY <1>2, <2>1 DEF Later
    <3>3. PICK x \in Nat : from <= x /\ x < from + Days /\ d.from <= x /\ x < end
      BY <1>2, <2>1, <3>1, <3>2, SharedDay
    <3>4. x \in d.from..(IF inCell[u] THEN d.till - 1 ELSE Later(d.till - 1, today))
      BY <1>2, <2>1, <3>3 DEF Later
    <3>5. /\ d.status \notin AwaitingPickup
          /\ DaysOfRental(r) =
               d.from..(IF inCell[u] THEN d.till - 1 ELSE Later(d.till - 1, today))
      <4>1. d.status \notin AwaitingPickup
        BY <2>3 DEF AwaitingPickup
      <4>2. QED
        BY <1>3, <2>3, <4>1 DEF DaysOfRental
    <3>6. QED
      BY <1>2, <3>3, <3>4, <3>5, OfferedDay
  <2>4. CASE d.status = "COMPLETED"
    <3>1. SUFFICES ASSUME unit[u] # "AVAILABLE",
                          Intersect(from, from + Days, d.from, d.till + 1)
                   PROVE  FALSE
      BY <1>3, <2>4 DEF RentalBlocks, AwaitingPickup
    <3>2. PICK x \in Nat : from <= x /\ x < d.till + 1
      BY <1>2, <2>1, <3>1, SharedDay
    <3>3. from <= d.till
      BY <2>1, <3>2
    <3>4. QED
      BY <1>3, <2>4, <3>1, <3>3 DEF DayAfterReturn
  <2>5. QED
    BY <2>2, <2>3, <2>4 DEF RentalBlocks
<1>4. ASSUME NEW r \in Reservations, UnitOf(r) = u, IsActive(r)
      PROVE  ~Intersect(from, from + Days, booking[r].start, booking[r].start + Days)
  <2>1. SUFFICES ASSUME Intersect(from, from + Days, booking[r].start,
                                  booking[r].start + Days)
                 PROVE  FALSE
    OBVIOUS
  <2>2. booking[r].start \in Nat /\ booking[r].start + Days \in Nat
    BY <1>2, RowFacts
  <2>3. PICK x \in Nat : /\ from <= x /\ x < from + Days
                         /\ booking[r].start <= x /\ x < booking[r].start + Days
    BY <1>2, <2>1, <2>2, SharedDay
  <2>4. x \in DaysOfReservation(r)
    BY <1>4, <2>2, <2>3 DEF DaysOfReservation
  <2>5. QED
    BY <1>2, <2>3, <2>4, OfferedDay
<1>5. u \in FreeUnits(None, from)
  BY <1>1, <1>3, <1>4 DEF FreeUnits
<1>6. QED
  BY <1>5

(* Whatever the rows are, the two functions that read them agree: a range     *)
(* the calendar lets the client choose is one that the creation of the       *)
(* reservation finds a unit for, but for the day after a return.             *)
THEOREM CalendarKeepsItsWord == Spec => []CalendarHonest
<1>1. IInv => CalendarHonest
  <2> SUFFICES ASSUME IInv, NEW from \in Chooseable, ~DayAfterReturn(from)
               PROVE  FreeUnits(None, from) # {}
    BY DEF CalendarHonest
  <2>1. from \in Nat /\ Offered(from)
    BY BoundsAssumption DEF Chooseable, IInv, RowTypes
  <2>2. QED
    BY <2>1, OfferedIsFree
<1>2. QED
  BY <1>1, HandoverAlways, PTL
=============================================================================
