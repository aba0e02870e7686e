SPECIFICATION Spec
CONSTANTS
  Users = {ann, bob}
  Units = {bike}
  MaxReservations = 2
  LastDay = 2
  Days = 2
  Requests = {h1}
  Maintenance = maintenance
  PickupExpiry = pickupExpiry
  Broken = {}
  Overlap = FALSE
  MaxFaults = 1
  None = None
INVARIANT TypeOK
INVARIANT RentalIsBacked
INVARIANT NoDoubleBooking
INVARIANT CalendarHonest
SYMMETRY Symmetry
