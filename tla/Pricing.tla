------------------------------ MODULE Pricing ------------------------------
(***************************************************************************)
(* What a rental costs: the tariffs of a product, which a deploy and the     *)
(* operators change, the page of the product and the checkout that show a   *)
(* sum, and the reservation and the payment that are made for it.           *)
(*                                                                         *)
(* Sums are in kopecks, days are numbered from a Monday and begin at         *)
(* midnight in Moscow; zone is the client's distance from Moscow in hours.  *)
(***************************************************************************)
EXTENDS Integers

CONSTANTS
  BasePlans, FilterPlans, \* price_plans and tariffs of the filter: term -> sum
  Markups,                \* percents from Monday to Sunday, within the limits of the panel
  StartDays, Ranges,      \* days and nights a client may choose
  Zones,
  PricingBudgets          \* edits, choices, payments: bounds

ASSUME PricingAssumption ==
  /\ \A p \in BasePlans \cup FilterPlans :
       DOMAIN p \subseteq Nat \ {0} /\ p \in [DOMAIN p -> Nat]
  /\ \A m \in Markups : m \in [0..6 -> -50..200]
  /\ StartDays \subseteq Nat \ {0} /\ Ranges \subseteq Nat /\ Zones \subseteq Int
  /\ PricingBudgets \subseteq [edits : Nat, choices : Nat, payments : Nat]

VARIABLES
  tariffs,     \* base, filter, and markups with whether the product obeys them
  zone,
  page,        \* the product as loaded, the range chosen, the server's answer
  checkout,    \* the term in the address of the page and the sum it shows
  reservation, \* the client's active reservation
  charged,     \* the last payment, beside the sum shown when it was made
  pricingBudget

pricingVars == <<tariffs, zone, page, checkout, reservation, charged, pricingBudget>>

NotYet == [at |-> "none"]
NoPrice == 0 - 1
NoMarkups == [d \in 0..6 |-> 0]

-----------------------------------------------------------------------------
(* The formula.                                                             *)

(* progressive_discount_percent                                             *)
Discount(days) ==
  CASE days <= 1 -> 0 [] days = 2 -> 5 [] days > 18 -> 25 [] OTHER -> 7 + days

(* To ten roubles, a half upwards.                                          *)
Rounded(scaled, step) == ((scaled + step \div 2) \div step) * 1000

(* progressive_total_minor                                                  *)
TermTotal(perDay, days) ==
  Rounded(perDay * days * (100 - Discount(days)), 100000)

(* How often a day of the week comes in a term, and the percents of all days *)
(* of the term together.                                                    *)
DaysOf(weekday, start, days) == (days + ((start + 6 - weekday) % 7)) \div 7
Surcharge(start, days, markups) ==
  LET of(d) == markups[d] * DaysOf(d, start, days)
  IN of(0) + of(1) + of(2) + of(3) + of(4) + of(5) + of(6)

(* weekday_markup_total_minor                                               *)
WithMarkups(sum, start, days, markups) ==
  LET extra == Surcharge(start, days, markups)
  IN IF sum <= 0 \/ extra = 0 THEN sum
     ELSE Rounded(sum * (100 * days + extra), 100000 * days)

(* _find_exact_price                                                        *)
ExactPrice(t, days) ==
  IF days \in DOMAIN t.filter THEN t.filter[days]
  ELSE IF days \in DOMAIN t.base THEN t.base[days] ELSE NoPrice

(* _resolve_term_price                                                      *)
TermPrice(t, days) ==
  IF ExactPrice(t, days) # NoPrice THEN ExactPrice(t, days)
  ELSE IF days \in 2..30 /\ ExactPrice(t, 1) > 0
         THEN TermTotal(ExactPrice(t, 1), days) ELSE NoPrice

(* resolve_rental_price                                                     *)
RentalPrice(t, start, days) ==
  LET sum == TermPrice(t, days) IN
  IF sum = NoPrice \/ ~t.byDay THEN sum ELSE WithMarkups(sum, start, days, t.markups)

(* _get_price_plan refuses a sum that no row of price_plans stands behind.   *)
HasPlan(t, days) ==
  \/ days \in DOMAIN t.base
  \/ ExactPrice(t, days) = NoPrice /\ 1 \in DOMAIN t.base

(* startAt: midnight of the chosen day in the client's zone.                *)
StartAt(day) == 24 * day - zone

(* Mutant: the day it is in Moscow.                                         *)
MoscowDay(hour) == hour \div 24

(* rental_start_day: the midnight nearest to it.                            *)
StartDay(hour) == (hour + 12) \div 24

-----------------------------------------------------------------------------
(* The page of the product: web/src/app/products/[id], rentalPricing.ts     *)

(* resolve_effective_price_plans                                            *)
EffectivePlans(t) == IF DOMAIN t.filter # {} THEN t.filter ELSE t.base

(* rentalDays: the range chosen, or the longest tariff that fits into it.    *)
RentalDays(plans, nights) ==
  LET days == IF nights = 0 THEN 1 ELSE nights
      least == CHOOSE d \in DOMAIN plans : \A k \in DOMAIN plans : d <= k
      fitting == {d \in DOMAIN plans : d <= days}
  IN IF 1 \in DOMAIN plans \/ days \in DOMAIN plans THEN days
     ELSE IF DOMAIN plans = {} THEN 0
     ELSE IF fitting = {} THEN least
     ELSE CHOOSE d \in fitting : \A k \in fitting : k <= d

(* calculateRentalTotalMinor, weekdayMarkupTotalMinor: Math.round of a       *)
(* quotient.                                                                *)
RoundedOnPage(x, q) == ((2 * x + q) \div (2 * q)) * 1000

(* estimatedTotalMinor                                                      *)
Estimate(p, start, days) ==
  LET sum == IF days \in DOMAIN p.plans THEN p.plans[days]
             ELSE RoundedOnPage(p.plans[1] * days * (100 - Discount(days)), 100000)
      extra == Surcharge(start, days, p.markups)
  IN IF days = 0 THEN NoPrice
     ELSE IF sum <= 0 \/ extra = 0 THEN sum
     ELSE RoundedOnPage(sum * (100 * days + extra), 100000 * days)

-----------------------------------------------------------------------------
PricingInit ==
  /\ \E b \in BasePlans, f \in FilterPlans, m \in Markups, by \in BOOLEAN :
       tariffs = [base |-> b, filter |-> f, markups |-> m, byDay |-> by]
  /\ zone \in Zones
  /\ page = NotYet /\ checkout = NotYet /\ reservation = NotYet /\ charged = NotYet
  /\ pricingBudget \in PricingBudgets

PricingSpends(what) ==
  /\ pricingBudget[what] > 0
  /\ pricingBudget' = [pricingBudget EXCEPT ![what] = @ - 1]

(* What was shown before an edit is no longer the price.                    *)
Outdated(s) == IF s = NotYet THEN s ELSE [s EXCEPT !.fresh = FALSE]
Edits(t) ==
  /\ t # tariffs /\ tariffs' = t
  /\ page' = Outdated(page) /\ checkout' = Outdated(checkout)
  /\ reservation' = Outdated(reservation)
  /\ UNCHANGED <<zone, charged>>

(* _sync_price_plans: terms the bundle no longer has become inactive.       *)
SyncPricePlans(b) == PricingSpends("edits") /\ Edits([tariffs EXCEPT !.base = b])
(* The tariffs of create_, update_ and delete_product_filter.               *)
EditFilter(f) == PricingSpends("edits") /\ Edits([tariffs EXCEPT !.filter = f])
(* update_weekday_pricing, and weekdayPricingEnabled of a product.          *)
EditMarkups(m) == PricingSpends("edits") /\ Edits([tariffs EXCEPT !.markups = m])
EditFlag == PricingSpends("edits") /\ Edits([tariffs EXCEPT !.byDay = ~@])

(* get_product                                                              *)
OpenPage(start, nights) ==
  /\ PricingSpends("choices")
  /\ page' = [plans |-> EffectivePlans(tariffs), start |-> start, nights |-> nights,
              markups |-> IF tariffs.byDay THEN tariffs.markups ELSE NoMarkups,
              answer |-> NoPrice, fresh |-> TRUE]
  /\ UNCHANGED <<tariffs, zone, checkout, reservation, charged>>

ChosenDays == RentalDays(page.plans, page.nights)

(* get_product_pricing: the page takes the answer for the range it shows.    *)
PricingArrives ==
  /\ page # NotYet /\ page.answer = NoPrice /\ ChosenDays > 0
  /\ RentalPrice(tariffs, page.start, ChosenDays) # NoPrice
  /\ page' = [page EXCEPT !.answer = RentalPrice(tariffs, page.start, ChosenDays)]
  /\ UNCHANGED <<tariffs, zone, checkout, reservation, charged, pricingBudget>>

(* The term is in the address; the page loads its own sum.                  *)
OpenCheckout ==
  /\ page # NotYet /\ ChosenDays > 0 /\ checkout = NotYet
  /\ checkout' = [start |-> page.start, days |-> ChosenDays, fresh |-> TRUE,
                  shown |-> RentalPrice(tariffs, page.start, ChosenDays)]
  /\ UNCHANGED <<tariffs, zone, page, reservation, charged, pricingBudget>>

ChargeFor(r) ==
  charged' = [amount |-> r.amount, shown |-> checkout.shown,
              fresh |-> checkout.fresh /\ r.fresh,
              reused |-> [start |-> r.start, days |-> r.days]
                           # [start |-> checkout.start, days |-> checkout.days]]

(* handleCheckout: create_reservation, and the payment for what it says.     *)
Pay ==
  LET day == StartDay(StartAt(checkout.start))
      new == [start |-> checkout.start, days |-> checkout.days, fresh |-> TRUE,
              amount |-> RentalPrice(tariffs, day, checkout.days)]
  IN
  /\ checkout # NotYet /\ checkout.shown # NoPrice /\ reservation = NotYet
  /\ new.amount # NoPrice /\ HasPlan(tariffs, checkout.days)
  /\ PricingSpends("payments")
  /\ reservation' = new /\ ChargeFor(new)
  /\ UNCHANGED <<tariffs, zone, page, checkout>>

(* ACTIVE_RESERVATION_EXISTS: the page pays for the reservation there is.    *)
PayForActive ==
  /\ checkout # NotYet /\ checkout.shown # NoPrice /\ reservation # NotYet
  /\ PricingSpends("payments") /\ ChargeFor(reservation)
  /\ UNCHANGED <<tariffs, zone, page, checkout, reservation>>

LeaveCheckout ==
  /\ checkout # NotYet /\ checkout' = NotYet
  /\ UNCHANGED <<tariffs, zone, page, reservation, charged, pricingBudget>>

(* It expires, is cancelled, or becomes a rental.                           *)
ReservationEnds ==
  /\ reservation # NotYet /\ reservation' = NotYet
  /\ UNCHANGED <<tariffs, zone, page, checkout, charged, pricingBudget>>

PricingNext ==
  \/ (\E b \in BasePlans : SyncPricePlans(b)) \/ (\E f \in FilterPlans : EditFilter(f))
  \/ (\E m \in Markups : EditMarkups(m)) \/ EditFlag
  \/ \E start \in StartDays, nights \in Ranges : OpenPage(start, nights)
  \/ PricingArrives \/ OpenCheckout \/ Pay \/ PayForActive \/ LeaveCheckout
  \/ ReservationEnds
PricingSpec == PricingInit /\ [][PricingNext]_pricingVars

-----------------------------------------------------------------------------
(* Every variable has its type.                                             *)
PricingTypeOK ==
  /\ tariffs \in [base : BasePlans, filter : FilterPlans, markups : Markups,
                   byDay : BOOLEAN]
  /\ zone \in Zones /\ pricingBudget \in [edits : Nat, choices : Nat, payments : Nat]
  /\ page # NotYet => page.answer \in Nat \cup {NoPrice} /\ ChosenDays \in Nat
  /\ checkout # NotYet => checkout.shown \in Nat \cup {NoPrice} /\ checkout.days > 0
  /\ reservation # NotYet => reservation.amount \in Nat
  /\ charged # NotYet => charged.amount \in Nat /\ charged.shown \in Nat

(* Who pays for the term that the checkout shows pays the sum it shows, in    *)
(* whatever zone the client is, unless the prices were edited meanwhile      *)
(* (the comment of CheckoutClient: not one price here, another in the       *)
(* payment).                                                                *)
ChargedIsShown ==
  charged # NotYet /\ charged.fresh /\ ~charged.reused => charged.amount = charged.shown

(* The sum the page computes itself is the one the server answers, where the *)
(* filter of the product has no tariffs or no other terms than price_plans.  *)
EstimateAgrees ==
  page # NotYet /\ page.fresh /\ ChosenDays > 0
    /\ (DOMAIN tariffs.filter # {} => DOMAIN tariffs.base \subseteq DOMAIN tariffs.filter)
    /\ RentalPrice(tariffs, page.start, ChosenDays) # NoPrice =>
      Estimate(page, page.start, ChosenDays) = RentalPrice(tariffs, page.start, ChosenDays)

(* A sum shown to the client, computed by the page or by the server, is what  *)
(* the server asks for.                                                     *)
PriceAgrees == ChargedIsShown /\ EstimateAgrees

(* Whatever reservation is paid for, the payment is the sum the checkout      *)
(* shows.                                                                   *)
PaidIsShown == charged # NotYet /\ charged.fresh => charged.amount = charged.shown
=============================================================================
