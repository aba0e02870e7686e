SPECIFICATION QueueSpec
CONSTANTS
  r1 = r1
  r2 = r2
  p1 = p1
  p2 = p2
  Reservations = {r1, r2}
  Payments = {p1, p2}
  Owner <- OneEach
  Requests = {h1}
  Scheduler = scheduler
  NoReservation = NoReservation
  NoPayment = NoPayment
  Operations = {"pay", "webhook", "list", "cancel"}
  PaidStates = {"succeeded", "waiting_for_capture"}
  LateLinks = TRUE
  Overlap = FALSE
  Faults = {"silent", "refused"}
  MaxFaults = 2
PROPERTY KeepsPromise
PROPERTY SettledStays
PROPERTY DeadlineResolved
