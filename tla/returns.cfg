SPECIFICATION AtDoorSpec
CONSTANTS
  r1 = r1
  r2 = r2
  r3 = r3
  u1 = u1
  u2 = u2
  Rentals = {r1, r2, r3}
  Units = {u1, u2}
  Cells = {1, 2}
  UnitOf <- UnitOf3
  HomeOf <- FirstCell
  Out = {r1, r2}
  MaxReturns = 2
  Budgets <- SmallBudgets
  Returned = {r1, r2}
  Photos = {f1, f2}
  Notes = {n1}
  NoNote = NoNote
  PhotosMax = 1
  Tabs = {h1, h2}
  OneReturn = TRUE
  Hires = 2
  MaxPost = 1
  PickupBounds <- SmallPickups
INVARIANT ReturnTypes
INVARIANT OneReturnPerCell
INVARIANT LiveRentalKeepsUnit
INVARIANT OwnDoor
INVARIANT OneReport
PROPERTY ReturnEnds
PROPERTY CodeFollowsRental
CHECK_DEADLOCK FALSE
