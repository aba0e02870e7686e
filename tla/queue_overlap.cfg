SPECIFICATION Spec
CONSTANTS
  Users = {ann, bob}
  Units = {bike}
  MaxReservations = 1
  LastDay = 1
  Days = 1
  Requests = {h1, h2}
  Maintenance = maintenance
  PickupExpiry = pickupExpiry
  Broken = {}
  Overlap = TRUE
  MaxFaults = 1
  None = None
INVARIANT CancelledIsRefunded
SYMMETRY Symmetry
