SPECIFICATION Spec
CONSTANTS
  r1 = r1
  r2 = r2
  p1 = p1
  p2 = p2
  Reservations = {r1}
  Payments = {p1}
  Owner <- AllFirst
  Requests = {h1}
  Scheduler = scheduler
  NoReservation = NoReservation
  NoPayment = NoPayment
  Operations = {"pay", "poll", "webhook", "list", "cancel"}
  PaidStates = {"succeeded"}
  LateLinks = FALSE
  Overlap = FALSE
  Faults = {}
  MaxFaults = 0
INVARIANT CancelReturnsMoney
