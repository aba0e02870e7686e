SPECIFICATION ClientSpec
CONSTANTS
  a = a
  b = b
  d1 = d1
  d2 = d2
  Orders = {a, b}
  Price <- Price20
  SharePercent = 90
  AccrualPercent = 7
  Points = {0, 5, 18}
  Corrections = {4}
  Grant = 20
  Requests = {h1, h2}
  Racing = {"pay", "confirm"}
  OneAttempt = TRUE
  MaxLinks = 2
  MaxCorrections = 1
  Charges = {c1, c2}
  Terms = {1}
  FirstEnd = 1
  LastTick = 2
  NextStarts = {2}
  Batch = 1
  Clients = {h1}
  Sweeper = sweeper
  Marker = marker
  Modes = {FALSE, TRUE}
  Docs = {d1, d2}
  MaxTries = 2
  MaxCodes = 2
  MaxSubmissions = 3
  Callers = {h1, h2}
  AccountBudgets <- SmallAccounts
  Tabs = {t1, t2}
  MaxSessions = 2
  MaxPasswords = 1
  NoTokens = NoTokens
  TabBudgets <- SmallTabs
  BasePlans <- Bundle
  FilterPlans <- FilterTariffs
  Markups <- WeekMarkups
  StartDays = {11, 13}
  Ranges = {0, 3, 9}
  Zones <- SomeZones
  PricingBudgets <- SmallPricing
INVARIANT ClientTypes
INVARIANT PointsAccounted
INVARIANT EndIsPaidFor
INVARIANT ApprovedIsReviewed
INVARIANT GuessesBounded
INVARIANT PriceAgrees
PROPERTY PaidExtensionSettles
PROPERTY SignedOutForAReason
CHECK_DEADLOCK FALSE
