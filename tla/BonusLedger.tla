---------------------------- MODULE BonusLedger ----------------------------
(***************************************************************************)
(* The bonus points of one client.  Points are an append-only ledger whose *)
(* sum is the balance.  Paying an order may spend points, which lowers the *)
(* amount of the payment link; closing the order gives them back; a        *)
(* completed rental earns a share of the money that was really charged;    *)
(* an operator adjusts the balance by hand.                                *)
(*                                                                         *)
(* A handler reads, waits (for YooKassa, for the lock of the client's row  *)
(* or of the rental's row, for the database), and commits.  session holds  *)
(* what it read and what it has added but not committed; nobody else sees  *)
(* that.  An order is a reservation and the rental it becomes.             *)
(***************************************************************************)
EXTENDS Integers, FiniteSets, Sequences

CONSTANTS
  Orders,        \* reservations of the client
  Price,         \* Price[o]: Reservation.quoted_amount, in roubles
  SharePercent,  \* BONUS_MAX_ORDER_SHARE_PERCENT
  AccrualPercent,\* BONUS_ACCRUAL_PERCENT
  Points,        \* amounts the client may ask to spend; 0: no bonusAmount field
  Corrections,   \* amounts of manual operations
  Grant,         \* points earned before the model starts
  Requests,      \* handlers that may be in flight at once
  Racing,        \* operations whose handlers may interleave with each other
  OneAttempt,    \* TRUE: the client makes one attempt at a time to pay an
                 \* order and pays the newest link; FALSE: two tabs may be open
  MaxLinks,      \* bound: links created
  MaxCorrections \* bound: manual operations

ASSUME AmountsAssumption ==
  /\ Orders # {}
  /\ Price \in [Orders -> Nat \ {0}]
  /\ SharePercent \in 0..100 /\ AccrualPercent \in 0..100
  /\ Points \subseteq Nat /\ Corrections \subseteq Nat \ {0}
  /\ Grant \in Nat
ASSUME RacingAssumption ==
  /\ Racing \subseteq {"pay", "close", "confirm", "complete", "adjust"}
  /\ OneAttempt \in BOOLEAN /\ MaxLinks \in Nat /\ MaxCorrections \in Nat

VARIABLES
  stage,      \* Reservation.status and Rental.status of an order, merged
  preauth,    \* Reservation.preauth_amount
  links,      \* amounts of the open payment links, oldest first
  card,       \* amount of the captured payment, 0 without one
  spent,      \* ORDER_SPEND rows of an order, summed, as a positive number
  refunded,   \* ORDER_SPEND_REFUND rows of an order, summed
  accrued,    \* ORDER_ACCRUAL rows of an order, summed
  balance,    \* the sum of all rows (get_balance)
  session,    \* what each handler carries across its waits
  corrections \* manual operations so far

order == <<stage, preauth, links, card>>
ledger == <<spent, refunded, accrued, balance>>
vars == <<stage, preauth, links, card, spent, refunded, accrued, balance,
          session, corrections>>

Stages == {"awaiting", "paid", "ready", "rented", "completed", "closed"}
HasRental == {"ready", "rented", "completed"}

(* A handler: the operation, how far it is, its order, the points it adds    *)
(* (a spend as a positive number), the points it gives back, and the amount *)
(* it read or set for the card.                                             *)
Idle == [op |-> "none", at |-> "idle", o |-> CHOOSE o \in Orders : TRUE,
         k |-> 0, back |-> 0, money |-> 0]

(* Mutant: what came back already is not subtracted.                        *)
OutstandingAll(o) == spent[o]
(* What is still spent on an order (bonus_spent_for_reservation).           *)
Outstanding(o) == IF spent[o] > refunded[o] THEN spent[o] - refunded[o] ELSE 0

Least(a, b) == IF a < b THEN a ELSE b

(* max_spendable_for_order: the smaller of balance and share, in roubles.   *)
Spendable(b, price) ==
  IF b > 0 THEN Least(b, (price * SharePercent) \div 100) ELSE 0

(* Seven per cent of the money, rounded down to a rouble.                   *)
Accrual(money) == (money * AccrualPercent) \div 100

Init ==
  /\ stage = [o \in Orders |-> "awaiting"]
  /\ preauth = Price
  /\ links = [o \in Orders |-> <<>>]
  /\ card = [o \in Orders |-> 0]
  /\ spent = [o \in Orders |-> 0]
  /\ refunded = [o \in Orders |-> 0]
  /\ accrued = [o \in Orders |-> 0]
  /\ balance = Grant
  /\ session = [h \in Requests |-> Idle]
  /\ corrections = 0

-----------------------------------------------------------------------------
(* A handler starts alone, or next to handlers of racing operations.        *)
MayStart(h, op) ==
  /\ session[h] = Idle
  /\ \A g \in Requests : session[g] = Idle \/ {op, session[g].op} \subseteq Racing

Go(h, s) == session' = [session EXCEPT ![h] = s]
Finish(h) == session' = [session EXCEPT ![h] = Idle]

Paying(o) == \E h \in Requests : session[h].op = "pay" /\ session[h].o = o

(* Spending locks the client's row for update until the handler ends; every *)
(* row that refers to the client (a payment, a ledger row) needs it shared. *)
ClientFree(h, exclusive) ==
  \A g \in Requests \ {h} :
    session[g].at = "linking" => ~exclusive /\ session[g].k = 0

(* A return holds the row of its rental from its first query on.            *)
RentalFree(h, o) ==
  \A g \in Requests \ {h} : ~(session[g].op = "confirm" /\ session[g].o = o)

-----------------------------------------------------------------------------
(* create_preauth_for_reservation *)

StartPay(h, o, k) ==
  /\ MayStart(h, "pay")
  /\ OneAttempt => ~Paying(o)
  /\ stage[o] = "awaiting" /\ card[o] = 0
  /\ Go(h, [op |-> "pay", at |-> "checked", o |-> o, k |-> k, back |-> 0,
            money |-> preauth[o]])
  /\ UNCHANGED <<order, ledger, corrections>>

(* Mutant: the client's row is not locked.                                  *)
SpendUnlocked(h) ==
  LET s == session[h]
      back == IF s.k > 0 THEN Outstanding(s.o) ELSE 0
  IN /\ s.op = "pay" /\ s.at = "checked"
     /\ s.k <= Spendable(balance + back, Price[s.o])
     /\ Go(h, [s EXCEPT !.at = "linking", !.back = back,
                        !.money = IF s.k > 0 THEN Price[s.o] - s.k ELSE @])
     /\ UNCHANGED <<order, ledger, corrections>>

(* apply_bonus_spend: lock the client, take back what this order spent       *)
(* before, compare with what the rest allows.                               *)
Spend(h) ==
  LET s == session[h]
      back == IF s.k > 0 THEN Outstanding(s.o) ELSE 0
  IN /\ s.op = "pay" /\ s.at = "checked"
     /\ ClientFree(h, s.k > 0)
     /\ s.k <= Spendable(balance + back, Price[s.o])
     /\ Go(h, [s EXCEPT !.at = "linking", !.back = back,
                        !.money = IF s.k > 0 THEN Price[s.o] - s.k ELSE @])
     /\ UNCHANGED <<order, ledger, corrections>>

(* BONUS_AMOUNT_INVALID: the request ends, nothing is kept.                 *)
SpendRefused(h) ==
  LET s == session[h]
  IN /\ s.op = "pay" /\ s.at = "checked" /\ s.k > 0
     /\ ClientFree(h, TRUE)
     /\ s.k > Spendable(balance + Outstanding(s.o), Price[s.o])
     /\ Finish(h)
     /\ UNCHANGED <<order, ledger, corrections>>

OpenLinks == LET Count[S \in SUBSET Orders] ==
                   IF S = {} THEN 0
                   ELSE LET o == CHOOSE o \in S : TRUE
                        IN Len(links[o]) + Count[S \ {o}]
             IN Count[Orders]

(* YooKassa has made the link; the spend and the payment are committed.     *)
LinkCreated(h) ==
  LET s == session[h]
  IN /\ s.op = "pay" /\ s.at = "linking"
     /\ OpenLinks < MaxLinks
     /\ links' = [links EXCEPT ![s.o] = Append(@, s.money)]
     /\ preauth' = IF s.k > 0 THEN [preauth EXCEPT ![s.o] = s.money] ELSE preauth
     /\ spent' = [spent EXCEPT ![s.o] = @ + s.k]
     /\ refunded' = [refunded EXCEPT ![s.o] = @ + s.back]
     /\ balance' = balance + s.back - s.k
     /\ Finish(h)
     /\ UNCHANGED <<stage, card, accrued, corrections>>

(* YOOKASSA_REQUEST_FAILED: everything is rolled back, the spend included.  *)
LinkFailed(h) ==
  /\ session[h].op = "pay" /\ session[h].at = "linking"
  /\ Finish(h)
  /\ UNCHANGED <<order, ledger, corrections>>

-----------------------------------------------------------------------------
(* The order goes on.                                                       *)

(* The client pays a link.  An older one stays payable at YooKassa.         *)
LinkPaid(o) ==
  /\ stage[o] = "awaiting"
  /\ \E i \in DOMAIN links[o] :
       /\ OneAttempt => i = Len(links[o]) /\ ~Paying(o)
       /\ card' = [card EXCEPT ![o] = links[o][i]]
  /\ stage' = [stage EXCEPT ![o] = "paid"]
  /\ UNCHANGED <<preauth, links, ledger, session, corrections>>

HandOver(o) ==
  /\ stage[o] = "paid"
  /\ stage' = [stage EXCEPT ![o] = "ready"]
  /\ UNCHANGED <<preauth, links, card, ledger, session, corrections>>

PickUp(o) ==
  /\ stage[o] = "ready"
  /\ stage' = [stage EXCEPT ![o] = "rented"]
  /\ UNCHANGED <<preauth, links, card, ledger, session, corrections>>

-----------------------------------------------------------------------------
(* The order is closed: by the client before or after the hand-over, by the *)
(* expiry of the reservation or of the pick-up, by an operator.             *)

StartClose(h, o) ==
  /\ MayStart(h, "close")
  /\ stage[o] \in {"awaiting", "paid", "ready"}
  /\ Go(h, [op |-> "close", at |-> "checked", o |-> o, k |-> 0, back |-> 0,
            money |-> card[o]])
  /\ UNCHANGED <<order, ledger, corrections>>

(* Mutant: the points come back although the provider refused the refund.   *)
ReleaseEarly(h) ==
  LET s == session[h]
  IN /\ s.op = "close" /\ s.at = "checked"
     /\ refunded' = [refunded EXCEPT ![s.o] = @ + Outstanding(s.o)]
     /\ balance' = balance + Outstanding(s.o)
     /\ Go(h, [s EXCEPT !.at = "releasing"])
     /\ UNCHANGED <<order, spent, accrued, corrections>>

(* The money is back, or there was none: release_bonus_spend.               *)
Release(h) ==
  LET s == session[h]
  IN /\ s.op = "close" /\ s.at = "checked"
     /\ Go(h, [s EXCEPT !.at = "releasing", !.back = Outstanding(s.o)])
     /\ UNCHANGED <<order, ledger, corrections>>

(* The provider refuses the refund: the order stays as it is.               *)
RefundRefused(h) ==
  /\ session[h].op = "close" /\ session[h].at = "checked"
  /\ session[h].money > 0
  /\ Finish(h)
  /\ UNCHANGED <<order, ledger, corrections>>

Closed(h) ==
  LET s == session[h]
  IN /\ s.op = "close" /\ s.at = "releasing"
     /\ ClientFree(h, FALSE)
     /\ stage' = [stage EXCEPT ![s.o] = "closed"]
     /\ card' = IF s.money > 0 THEN [card EXCEPT ![s.o] = 0] ELSE card
     /\ refunded' = [refunded EXCEPT ![s.o] = @ + s.back]
     /\ balance' = balance + s.back
     /\ Finish(h)
     /\ UNCHANGED <<preauth, links, spent, accrued, corrections>>

-----------------------------------------------------------------------------
(* The rental is completed: by the client's return ("confirm", which locks   *)
(* the rental), or by the locker or an operator ("complete").               *)

(* accrue_rental_bonus: nothing if the rental has an accrual; else its share *)
(* of the captured payment.                                                 *)
StartComplete(h, op, o) ==
  /\ MayStart(h, op)
  /\ op = "confirm" => RentalFree(h, o)
  /\ stage[o] = "rented" \/ (op = "complete" /\ stage[o] = "ready")
  /\ Go(h, [op |-> op, at |-> "checked", o |-> o,
            k |-> IF accrued[o] > 0 THEN 0 ELSE Accrual(card[o]),
            back |-> 0, money |-> card[o]])
  /\ UNCHANGED <<order, ledger, corrections>>

Completed(h) ==
  LET s == session[h]
  IN /\ s.op \in {"confirm", "complete"}
     /\ ClientFree(h, FALSE) /\ (s.op = "complete" => RentalFree(h, s.o))
     /\ stage' = [stage EXCEPT ![s.o] = "completed"]
     /\ accrued' = [accrued EXCEPT ![s.o] = @ + s.k]
     /\ balance' = balance + s.k
     /\ Finish(h)
     /\ UNCHANGED <<preauth, links, card, spent, refunded, corrections>>

-----------------------------------------------------------------------------
(* admin_adjust *)

(* amount < 0 withdraws, and not more than there is.                        *)
StartAdjust(h, amount) ==
  /\ MayStart(h, "adjust")
  /\ corrections < MaxCorrections
  /\ balance + amount >= 0 \/ amount > 0
  /\ Go(h, [op |-> "adjust", at |-> "checked", o |-> Idle.o, k |-> amount,
            back |-> 0, money |-> 0])
  /\ UNCHANGED <<order, ledger, corrections>>

Adjusted(h) ==
  /\ session[h].op = "adjust"
  /\ ClientFree(h, FALSE)
  /\ balance' = balance + session[h].k
  /\ corrections' = corrections + 1
  /\ Finish(h)
  /\ UNCHANGED <<order, spent, refunded, accrued>>

-----------------------------------------------------------------------------
OrderStep(o) == LinkPaid(o) \/ HandOver(o) \/ PickUp(o)

Starts(h) ==
  \/ \E o \in Orders, k \in Points : StartPay(h, o, k)
  \/ \E o \in Orders : StartClose(h, o)
  \/ \E o \in Orders, op \in {"confirm", "complete"} : StartComplete(h, op, o)
  \/ \E a \in Corrections : StartAdjust(h, a) \/ StartAdjust(h, -a)

Continues(h) ==
  \/ Spend(h) \/ SpendRefused(h) \/ LinkCreated(h) \/ LinkFailed(h)
  \/ Release(h) \/ RefundRefused(h) \/ Closed(h)
  \/ Completed(h) \/ Adjusted(h)

Next ==
  \/ \E o \in Orders : OrderStep(o)
  \/ \E h \in Requests : Starts(h) \/ Continues(h)

Spec == Init /\ [][Next]_vars

-----------------------------------------------------------------------------
Sessions ==
  [op : {"none", "pay", "close", "confirm", "complete", "adjust"},
   at : {"idle", "checked", "linking", "releasing"},
   o : Orders, k : Int, back : Nat, money : Int]

(* Every row and every session has its type.                                *)
TypeOK ==
  /\ stage \in [Orders -> Stages]
  /\ preauth \in [Orders -> Int] /\ card \in [Orders -> Int]
  /\ links \in [Orders -> Seq(Int)]
  /\ spent \in [Orders -> Nat] /\ refunded \in [Orders -> Nat]
  /\ \A o \in Orders : refunded[o] <= spent[o]
  /\ accrued \in [Orders -> Nat] /\ balance \in Int
  /\ session \in [Requests -> Sessions]
  /\ corrections \in 0..MaxCorrections

(* Two payments in flight never spend the same points: the balance is never *)
(* negative (apply_bonus_spend locks the client's row).                     *)
BalanceNotNegative == balance >= 0

(* However often the client pays again with other points and taps "return"    *)
(* again, no points are spent twice, what the card was charged and what is   *)
(* still spent make up the price, a closed order holds no points, and a      *)
(* rental earns its share of the money once (apply_bonus_spend takes the     *)
(* earlier spend of the order back, every handler that closes an order calls *)
(* release_bonus_spend, confirm_return locks the rental for                  *)
(* accrue_rental_bonus).                                                    *)
PointsAccounted ==
  /\ BalanceNotNegative
  /\ \A o \in Orders :
       /\ stage[o] \in {"paid"} \cup HasRental => card[o] + Outstanding(o) = Price[o]
       /\ stage[o] = "closed" => Outstanding(o) = 0
       /\ accrued[o] <= Accrual(card[o])
=============================================================================
