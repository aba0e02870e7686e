SPECIFICATION StaffSpec
CONSTANTS
  w1 = w1
  w2 = w2
  v1 = v1
  p1 = p1
  Widgets = {v1}
  Panels = {p1}
  Workers = {w1, w2}
  Of <- EachItsOwn
  PageLimit = 1
  Cooldown = 2
  ChatBudgets <- SmallChats
  n1 = n1
  n2 = n2
  m1 = m1
  c1 = c1
  x1 = x1
  Rome = Rome
  Names = {n1, n2, n3, m1}
  Listed = {l1}
  Chats = {c1, c2, x1}
  NoChat = NoChat
  OnMax = {m1, x1}
  Cities = {Rome}
  Network = Network
  UploadLimit = 2
  Replies = {"ok", "bare", "late", "lost", "blocked", "rejected", "unready", "error"}
  BotBudgets <- SmallBots
  i1 = i1
  i2 = i2
  Addresses = {i1, i2}
  Pictures = {q1, q2, q3}
  Ttl = 1
  MaxUsed = 2
  MaxTracked = 1
  LastSecond = 3
  Limit <- SmallDoors
  FormBudgets <- SmallForms
  Cards = {k1, k2}
  Editors = {e1, e2}
  Texts = {x, y}
  Images = {g1}
  CatalogBudgets <- SmallCatalogs
  Points = {o1, o2, o3}
  Boxes = {b1, b2, b3, b4}
  Items = {t1, t2, t3, t4}
  NoId = NoId
  FleetBudgets <- SmallFleets
INVARIANT StaffTypes
 
INVARIANT TypedIsKept
INVARIANT PingPerBurst
INVARIANT ToldExactlyOnce
INVARIANT NewestStartWins
INVARIANT FormsGuarded
INVARIANT EditsKept
INVARIANT HiresKeepPlace
CHECK_DEADLOCK FALSE
