------------------------------- MODULE MCStaff ------------------------------
(***************************************************************************)
(* What people send to the staff, the staff's notifications, and what       *)
(* operators and deploys both change: the chat, the bots, the public forms,  *)
(* a card of the catalogue, the lockers.  The five share no state that one   *)
(* of them changes: a behaviour starts in one and stays there.              *)
(***************************************************************************)
EXTENDS SupportChat, StaffBots, PublicForm, Catalog, Fleet, TLC
CONSTANTS w1, w2, v1, p1,  n1, n2, m1, c1, x1, Rome,  i1, i2
VARIABLE focus

EachItsOwn == v1 :> w1 @@ p1 :> w2
CBudget(t, d, a, k, o, r, w) ==
  [texts |-> t, drops |-> d, acts |-> a, ticks |-> k, overlap |-> o, ready |-> r,
   who |-> w]
SmallChats ==
  {CBudget(2, 1, 0, 0, FALSE, TRUE, {v1, p1}),
   CBudget(2, 0, 1, 0, TRUE, TRUE, {v1, p1}),
   CBudget(3, 0, 0, 3, FALSE, TRUE, {v1, p1}),
   CBudget(2, 0, 0, 2, TRUE, FALSE, {v1}), CBudget(2, 0, 1, 2, TRUE, TRUE, {v1}),
   CBudget(1, 0, 0, 0, FALSE, FALSE, {v1, p1}),
   CBudget(2, 1, 0, 0, FALSE, FALSE, {v1})}

(* One chat may have started the bot under two names.                       *)
Row(c) == [city |-> Network, enabled |-> TRUE, chat |-> c, exists |-> TRUE]
Linked == [n \in Names |-> IF n \in OnMax THEN Row(x1) ELSE Row(c1)]
Few == [n \in Names |-> IF n = m1 THEN Row(x1) ELSE NoSub]
Regional ==
  [n \in Names |-> CASE n = n1 -> [Row(c1) EXCEPT !.city = Rome]
                     [] n = n2 -> Row(c1) [] OTHER -> NoSub]
BBudget(acts, n, sends, rows) ==
  [acts |-> acts, photos |-> n, sends |-> sends, subs |-> rows]
SmallBots ==
  {BBudget(0, 1, TRUE, Linked), BBudget(1, 2, TRUE, Few),
   BBudget(1, 1, TRUE, Regional), BBudget(4, 0, FALSE, Few)}

Door(each, eachWindow, all, window) ==
  [each |-> each, eachWindow |-> eachWindow, all |-> all, window |-> window]
SmallDoors ==
  [captcha |-> Door(3, 3, 3, 3), idea |-> Door(1, 1, 2, 2), lead |-> Door(1, 1, 2, 2)]
SmallForms ==
  {[doors |-> {"captcha", "idea"}, addresses |-> {i1}, restarts |-> 1],
   [doors |-> {"lead"}, addresses |-> {i1, i2}, restarts |-> 1]}

DB(kind, edits, deploys, aside, racing) ==
  [kind |-> kind, edits |-> edits, deploys |-> deploys, aside |-> aside,
   racing |-> racing]
SmallCatalogs ==
  {DB("product", 2, 2, "outside", FALSE), DB("product", 3, 1, "never", FALSE),
   DB("product", 2, 1, "anyhow", TRUE), DB("filter", 2, 2, "outside", FALSE),
   DB("city", 2, 1, "anyhow", FALSE)}

DF(acts, taken, deploys, sweeps, serial, past) ==
  [acts |-> acts, hires |-> taken, deploys |-> deploys, sweeps |-> sweeps,
   second |-> serial, past |-> past]
SmallFleets ==
  {DF(0, 0, 1, 1, s, w) : s \in {"west", "center"}, w \in {"none", "ready", "out", "done"}}
    \cup {DF(2, 1, 1, 0, "machine", "none"), DF(1, 1, 1, 1, "machine", "out"),
          DF(2, 0, 1, 1, "west", "out"), DF(2, 1, 0, 1, "center", "none"),
          DF(0, 1, 0, 1, "fake", "none")}

StaffInit ==
  /\ ChatInit /\ BotInit /\ FormInit /\ CatalogInit /\ FleetInit
  /\ focus \in {"chat", "bots", "forms", "catalog", "fleet"}
  /\ focus # "chat" => chatBudget = CHOOSE q \in ChatBudgets : TRUE
  /\ focus # "bots" => botBudget = CHOOSE q \in BotBudgets : TRUE
  /\ focus # "forms" => formBudget = CHOOSE q \in FormBudgets : TRUE
  /\ focus # "catalog" => catalogBudget = CHOOSE q \in CatalogBudgets : TRUE
  /\ focus # "fleet" => fleetBudget = CHOOSE q \in FleetBudgets : TRUE
StaffNext ==
  \/ focus = "chat" /\ ChatNext /\ UNCHANGED <<botVars, formVars, catalogVars, fleetVars, focus>>
  \/ focus = "bots" /\ BotNext /\ UNCHANGED <<chatVars, formVars, catalogVars, fleetVars, focus>>
  \/ focus = "forms" /\ FormNext /\ UNCHANGED <<chatVars, botVars, catalogVars, fleetVars, focus>>
  \/ focus = "catalog" /\ CatalogNext /\ UNCHANGED <<chatVars, botVars, formVars, fleetVars, focus>>
  \/ focus = "fleet" /\ FleetNext
       /\ UNCHANGED <<chatVars, botVars, formVars, catalogVars, focus>>
StaffSpec ==
  StaffInit /\ [][StaffNext]_<<chatVars, botVars, formVars, catalogVars, fleetVars, focus>>

(* Every variable of the five components has its type.                      *)
StaffTypes == ChatTypeOK /\ BotTypeOK /\ FormTypeOK /\ CatalogTypeOK /\ FleetTypeOK
=============================================================================
