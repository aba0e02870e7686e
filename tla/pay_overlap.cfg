SPECIFICATION FairSpec
CONSTANTS
  r1 = r1
  r2 = r2
  p1 = p1
  p2 = p2
  Reservations = {r1}
  Payments = {p1, p2}
  Owner <- AllFirst
  Requests = {h1}
  Scheduler = scheduler
  NoReservation = NoReservation
  NoPayment = NoPayment
  Operations = {"pay", "poll", "webhook", "list", "cancel"}
  PaidStates = {"succeeded"}
  LateLinks = TRUE
  Overlap = TRUE
  Faults = {"silent", "refused", "lost", "crash"}
  MaxFaults = 1
INVARIANT TypeOK
INVARIANT PaidIsBacked
INVARIANT ReturnedIsTrue
PROPERTY PaymentNoticed
