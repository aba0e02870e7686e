SPECIFICATION FairSpec
CONSTANTS
  Users = {ann, bob}
  Units = {bike}
  MaxReservations = 2
  LastDay = 1
  Days = 1
  Requests = {h1}
  Maintenance = maintenance
  PickupExpiry = pickupExpiry
  Broken = {}
  Overlap = FALSE
  MaxFaults = 1
  None = None
PROPERTY ReadyIsHandedOver
PROPERTY UncollectedEnds
PROPERTY OneUnfinishedRental
PROPERTY PickupWorks
