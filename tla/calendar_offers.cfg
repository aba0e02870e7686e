SPECIFICATION Spec
CONSTANTS
  Users = {ann, bob}
  Units = {bike}
  MaxReservations = 2
  LastDay = 2
  Days = 1
  Requests = {h1}
  Maintenance = maintenance
  PickupExpiry = pickupExpiry
  Broken = {}
  Overlap = FALSE
  MaxFaults = 0
  None = None
INVARIANT CalendarMatches
SYMMETRY Symmetry
