------------------------------ MODULE MCClient ------------------------------
(***************************************************************************)
(* What belongs to a client: the points, the term of a rental, the account, *)
(* the sessions and the sum to pay.  The five share no state that one of    *)
(* them changes: a behaviour starts in one and stays there.  The fairness   *)
(* is that of the term, the only one with a liveness property.              *)
(***************************************************************************)
EXTENDS BonusLedger, Extension, Account, SignedIn, Pricing, TLC
CONSTANTS a, b, d1, d2
VARIABLE focus

Price20 == [o \in Orders |-> 20]

ABudget(parts, racing, docs, lost) ==
  [parts |-> parts, racing |-> racing, docs |-> docs, lost |-> lost]
Owner == {"submit", "delete", "review"}
SmallAccounts ==
  {ABudget({"request", "confirm", "block"}, {}, {}, 1),
   ABudget({"request", "confirm"}, {"request", "confirm"}, {}, 0),
   ABudget(Owner \cup {"block"}, {}, {d1, d2}, 1),
   ABudget(Owner, {"delete", "review"}, {d1}, 1),
   ABudget(Owner, {"submit", "delete"}, {d1, d2}, 0)}

TBudget(app, ages, faults, acts, logins) ==
  [app |-> app, ages |-> ages, faults |-> faults, acts |-> acts, logins |-> logins]
SmallTabs ==
  {TBudget("site", 1, 1, 1, 1), TBudget("site", 1, 0, 0, 2),
   TBudget("helper", 1, 1, 0, 1), TBudget("helper", 1, 0, 1, 1),
   TBudget("admin", 1, 0, 1, 1), TBudget("admin", 0, 0, 2, 1),
   TBudget("admin", 1, 1, 0, 1), TBudget("phone", 1, 1, 1, 1)}

(* In kopecks: with and without a tariff for one day, odd sums.             *)
Bundle == {1 :> 125000 @@ 3 :> 338000, 2 :> 112000}
FilterTariffs == {<<>>, 1 :> 49955, 3 :> 100100}
WeekMarkups == {[d \in 0..6 |-> IF d \in 4..6 THEN 20 ELSE 0],
                [d \in 0..6 |-> CASE d = 0 -> -10 [] d = 6 -> 33 [] OTHER -> 0]}
SomeZones == {-1, 9}

(* The days of a term, counted one by one.                                  *)
ASSUME DaysCounted ==
  \A start \in 0..13, days \in 1..30, d \in 0..6 :
    DaysOf(d, start, days) = Cardinality({i \in 0..(days - 1) : (start + i) % 7 = d})

(* The page's formula and the server's give one sum for every term and any   *)
(* day of the week.                                                         *)
ASSUME FormulasAgree ==
  \A sum \in {100 * k + 55 : k \in 100..130}, days \in 1..30, start \in 0..6,
     m \in WeekMarkups :
    RentalPrice([base |-> 1 :> sum, filter |-> <<>>, markups |-> m, byDay |-> TRUE],
                start, days)
      = Estimate([plans |-> 1 :> sum, markups |-> m], start, days)
SmallPricing == {[edits |-> 1, choices |-> 1, payments |-> 1],
                 [edits |-> 0, choices |-> 2, payments |-> 2]}

ClientVars == <<vars, extVars, accountVars, tabVars, pricingVars, focus>>
AnyOf(S) == CHOOSE q \in S : TRUE
ClientInit ==
  /\ Init /\ ExtInit /\ AccountInit /\ TabInit /\ PricingInit
  /\ focus \in {"points", "term", "account", "session", "price"}
  /\ focus # "account" => accountBudget = AnyOf(AccountBudgets)
  /\ focus # "session" => tabBudget = AnyOf(TabBudgets)
  /\ focus # "term" => overlap
  /\ focus # "price" => tariffs = [base |-> AnyOf(BasePlans), filter |-> AnyOf(FilterPlans),
                                   markups |-> AnyOf(Markups), byDay |-> FALSE]
                          /\ zone = AnyOf(Zones) /\ pricingBudget = AnyOf(PricingBudgets)

ClientNext ==
  \/ focus = "points" /\ Next
       /\ UNCHANGED <<extVars, accountVars, tabVars, pricingVars, focus>>
  \/ focus = "term" /\ ExtNext
       /\ UNCHANGED <<vars, accountVars, tabVars, pricingVars, focus>>
  \/ focus = "account" /\ AccountNext
       /\ UNCHANGED <<vars, extVars, tabVars, pricingVars, focus>>
  \/ focus = "session" /\ TabNext
       /\ UNCHANGED <<vars, extVars, accountVars, pricingVars, focus>>
  \/ focus = "price" /\ PricingNext
       /\ UNCHANGED <<vars, extVars, accountVars, tabVars, focus>>

ClientSpec == ClientInit /\ [][ClientNext]_ClientVars /\ ExtFairness
(* Every variable of the five components has its type.                      *)
ClientTypes == TypeOK /\ ExtTypeOK /\ AccountTypeOK /\ TabTypeOK /\ PricingTypeOK
=============================================================================
