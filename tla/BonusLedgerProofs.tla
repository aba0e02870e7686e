------------------------- MODULE BonusLedgerProofs -------------------------
(***************************************************************************)
(* Proofs about BonusLedger for any orders, prices, amounts and handlers,    *)
(* about Extension for any payments, terms and threads, and about Pricing    *)
(* for any tariffs, markups, days and terms.                                *)
(*                                                                         *)
(* The balance is covered because a handler that spends holds the client's  *)
(* row from the comparison to the commit: between the two nobody else       *)
(* commits a row of the ledger.  That needs nothing else, whichever         *)
(* handlers race, as long as an operator's correction, which compares       *)
(* without the lock, runs alone.                                            *)
(*                                                                         *)
(* That the sums of an order agree needs more: that the newest link has the *)
(* amount of the reservation, that what a handler read of an order is still *)
(* so when it commits, and that no order has two handlers.                  *)
(*                                                                         *)
(* No day of a rental is given away because of the money under what was      *)
(* read: the end that a handler carries is already shared out among other    *)
(* payments than its own, which nobody takes back, so its own term may come  *)
(* on top whatever the others have written since (Owed).                    *)
(*                                                                         *)
(* A sum shown is the sum asked for because everything a page or a           *)
(* reservation holds is outdated by the edit that changes the price          *)
(* (Priced), because the two formulas round alike, and because the midnight  *)
(* the client meant is the nearest one in Moscow.  No sum is negative because *)
(* the days of the week of a term add up to its days, so that markups within  *)
(* the limits of the panel leave half of it (DaysCount, HalfIsLeft).          *)
(***************************************************************************)
EXTENDS BonusLedger, Extension, Pricing, FiniteSetTheorems, WellFoundedInduction, TLAPS

Alone(h) == \A g \in Requests \ {h} : session[g] = Idle

RowTypes ==
  /\ stage \in [Orders -> Stages]
  /\ preauth \in [Orders -> Nat] /\ card \in [Orders -> Nat]
  /\ links \in [Orders -> Seq(Nat)]
  /\ spent \in [Orders -> Nat] /\ refunded \in [Orders -> Nat]
  /\ accrued \in [Orders -> Nat]
  /\ balance \in Nat /\ corrections \in 0..MaxCorrections

Steps ==
  {<<"none", "idle">>, <<"pay", "checked">>, <<"pay", "linking">>,
   <<"close", "checked">>, <<"close", "releasing">>, <<"confirm", "checked">>,
   <<"complete", "checked">>, <<"adjust", "checked">>}

(* What the balance b still covers when session s commits, after n           *)
(* corrections.                                                             *)
Covers(s, b, n) ==
  /\ <<s.op, s.at>> \in Steps
  /\ s.op = "none" => s = Idle
  /\ s.money \in Nat
  /\ s.op # "adjust" => s.k \in Nat
  /\ s.at = "linking" => IF s.k > 0 THEN s.k <= b + s.back ELSE s.back = 0
  /\ s.op = "adjust" => b + s.k >= 0 /\ n < MaxCorrections

OneSpender ==
  \A g, h \in Requests :
    g # h /\ session[g].at = "linking" /\ session[h].at = "linking" => session[h].k = 0

Covered ==
  /\ RowTypes
  /\ session \in [Requests -> Sessions]
  /\ \A h \in Requests : Covers(session[h], balance, corrections)
  /\ \A h \in Requests : session[h].op = "adjust" => Alone(h)
  /\ OneSpender

(* The sums of an order.                                                    *)
SumsAgree(o) ==
  /\ refunded[o] <= spent[o]
  /\ stage[o] = "awaiting" =>
       /\ card[o] = 0
       /\ preauth[o] + (spent[o] - refunded[o]) = Price[o]
       /\ links[o] # <<>> => links[o][Len(links[o])] = preauth[o]
  /\ stage[o] \in {"paid"} \cup HasRental => card[o] + (spent[o] - refunded[o]) = Price[o]
  /\ stage[o] = "closed" => spent[o] = refunded[o]
  /\ accrued[o] <= Accrual(card[o])
  /\ stage[o] # "completed" => accrued[o] = 0

(* What a session read of its order is still so.                            *)
StillSo(s) ==
  /\ s.op = "pay" =>
       /\ stage[s.o] = "awaiting"
       /\ s.at = "linking" /\ s.k > 0 =>
            /\ s.back = spent[s.o] - refunded[s.o]
            /\ s.money = Price[s.o] - s.k
       /\ ~(s.at = "linking" /\ s.k > 0) => s.money = preauth[s.o]
  /\ s.op = "close" =>
       /\ stage[s.o] \in {"awaiting", "paid", "ready", "rented"}
       /\ s.at = "releasing" => s.back = spent[s.o] - refunded[s.o]
  /\ s.op = "confirm" => stage[s.o] = "rented" /\ s.k <= Accrual(card[s.o])
  /\ s.op = "complete" => stage[s.o] \in {"ready", "rented"} /\ s.k <= Accrual(card[s.o])

Undisturbed(h) ==
  /\ session[h].op \in {"close", "complete"} => Alone(h)
  /\ \A g \in Requests :
       g # h /\ session[g].o = session[h].o =>
         ~({session[g].op, session[h].op} \subseteq {"pay", "confirm"})

Agreed ==
  /\ Covered
  /\ \A o \in Orders : SumsAgree(o)
  /\ \A h \in Requests : StillSo(session[h]) /\ Undisturbed(h)
-----------------------------------------------------------------------------
(* Amounts.                                                                 *)

LEMMA Percent ==
  ASSUME NEW m \in Nat, NEW p \in 0..100 PROVE (m * p) \div 100 \in 0..m
<1>1. m * p \in Nat /\ m * p <= m * 100
  OBVIOUS
<1>2. QED
  BY <1>1

LEMMA SpendableBounds ==
  ASSUME NEW b \in Nat, NEW o \in Orders
  PROVE  /\ Spendable(b, Price[o]) \in Nat
         /\ Spendable(b, Price[o]) <= b /\ Spendable(b, Price[o]) <= Price[o]
<1>1. Price[o] \in Nat /\ SharePercent \in 0..100
  BY AmountsAssumption
<1>2. (Price[o] * SharePercent) \div 100 \in 0..Price[o]
  BY <1>1, Percent
<1>3. QED
  BY <1>1, <1>2 DEF Spendable, Least

LEMMA AccrualNat ==
  ASSUME NEW m \in Nat PROVE Accrual(m) \in Nat
<1>1. (m * AccrualPercent) \div 100 \in 0..m
  BY AmountsAssumption, Percent
<1>2. QED
  BY <1>1 DEF Accrual

LEMMA OutstandingNat ==
  ASSUME RowTypes, NEW o \in Orders
  PROVE  /\ Outstanding(o) \in Nat
         /\ refunded[o] <= spent[o] => Outstanding(o) = spent[o] - refunded[o]
  BY DEF RowTypes, Outstanding

LEMMA IdleIs ==
  /\ Idle \in Sessions /\ Idle.op = "none" /\ Idle.at = "idle" /\ Idle.k = 0
  /\ Idle.o \in Orders
<1>1. (CHOOSE o \in Orders : TRUE) \in Orders
  BY AmountsAssumption
<1>2. QED
  BY <1>1 DEF Idle, Sessions

LEMMA IdleCovers ==
  ASSUME NEW b \in Nat, NEW n PROVE Covers(Idle, b, n)
  BY DEF Idle, Covers, Steps

-----------------------------------------------------------------------------
(* The balance.                                                             *)

(* The types of what a session carries.                                     *)
LEMMA SessionTypes ==
  ASSUME Covered, NEW h \in Requests
  PROVE  /\ session[h] \in Sessions /\ session[h].o \in Orders
         /\ session[h].k \in Int /\ session[h].back \in Nat /\ session[h].money \in Nat
         /\ session[h].op # "adjust" => session[h].k \in Nat
         /\ Covers(session[h], balance, corrections)
         /\ balance \in Nat /\ RowTypes
<1>1. session[h] \in Sessions /\ Covers(session[h], balance, corrections) /\ RowTypes
  BY DEF Covered
<1>2. QED
  BY <1>1 DEF Sessions, Covers, RowTypes

(* One handler goes to s; the others are still covered.                     *)
LEMMA CoveredMove ==
  ASSUME Covered, RowTypes', NEW h \in Requests, NEW s \in Sessions, Go(h, s),
         Covers(s, balance', corrections'),
         \A g \in Requests \ {h} : Covers(session'[g], balance', corrections'),
         s.op = "adjust" => Alone(h),
         \A g \in Requests \ {h} : session[g].op = "adjust" => s = Idle,
         \A g \in Requests \ {h} :
           session[g].at = "linking" /\ s.at = "linking" => session[g].k = 0 /\ s.k = 0
  PROVE  Covered'
<1>1. session' = [session EXCEPT ![h] = s] /\ session' \in [Requests -> Sessions]
  BY DEF Go, Covered
<1>2. \A g \in Requests : Covers(session'[g], balance', corrections')
  BY <1>1
<1>3. ASSUME NEW g \in Requests, session'[g].op = "adjust" PROVE Alone(g)'
  <2>1. CASE g = h
    BY <1>1, <1>3, <2>1 DEF Alone
  <2>2. CASE g # h
    BY <1>1, <1>3, <2>2 DEF Alone, Covered
  <2>3. QED
    BY <2>1, <2>2
<1>4. OneSpender'
  BY <1>1 DEF OneSpender, Covered
<1>5. QED
  BY <1>1, <1>2, <1>3, <1>4 DEF Covered

LEMMA CoversKept ==
  ASSUME NEW s, NEW b \in Nat, NEW c \in Nat, NEW n, Covers(s, b, n), s \in Sessions,
         s.at = "linking" => s.k = 0 \/ c >= b, s.op # "adjust"
  PROVE  Covers(s, c, n)
  BY DEF Covers, Sessions

(* A handler starts.                                                        *)
LEMMA CoveredStart ==
  ASSUME Covered, "adjust" \notin Racing, NEW h \in Requests, NEW s \in Sessions,
         MayStart(h, s.op), Go(h, s), s.at = "checked", Covers(s, balance, corrections),
         UNCHANGED <<order, ledger, corrections>>
  PROVE  Covered'
<1> USE DEF order, ledger
<1>1. RowTypes'
  BY DEF Covered, RowTypes
<1>2. Covers(s, balance', corrections')
  BY DEF Covers
<1>3. session' = [session EXCEPT ![h] = s] /\ session \in [Requests -> Sessions]
  BY DEF Go, Covered
<1>4. \A g \in Requests \ {h} : Covers(session'[g], balance', corrections')
  BY <1>3 DEF Covered, Covers
<1>5. s.op = "adjust" => Alone(h)
  BY DEF MayStart, Alone
<1>6. \A g \in Requests \ {h} : session[g].op = "adjust" => s = Idle
  BY IdleIs DEF MayStart
<1>7. QED
  BY <1>1, <1>2, <1>4, <1>5, <1>6, CoveredMove

(* A handler ends, and nobody's cover is gone.                              *)
LEMMA CoveredEnd ==
  ASSUME Covered, RowTypes', NEW h \in Requests, Finish(h),
         session[h].op # "none",
         balance' >= balance \/ \A g \in Requests \ {h} :
                                  session[g].at = "linking" => session[g].k = 0,
         session[h].op # "adjust" => UNCHANGED corrections
  PROVE  Covered'
<1>1. session' = [session EXCEPT ![h] = Idle] /\ session \in [Requests -> Sessions]
      /\ Go(h, Idle)
  BY DEF Finish, Go, Covered
<1>2. Covers(Idle, balance', corrections')
  BY IdleCovers DEF RowTypes, Covers, Idle, Steps
<1>3. ASSUME NEW g \in Requests \ {h} PROVE Covers(session'[g], balance', corrections')
  <2>1. CASE session[g].op = "adjust"
    BY <2>1, IdleIs DEF Covered, Alone
  <2>2. CASE session[g].op # "adjust"
    <3>1. Covers(session[g], balance, corrections) /\ session[g] \in Sessions
      BY DEF Covered
    <3>2. Covers(session[g], balance', corrections)
      BY <2>2, <3>1, CoversKept DEF Covered, RowTypes
    <3>3. QED
      BY <1>1, <2>2, <3>2 DEF Covers
  <2>3. QED
    BY <2>1, <2>2
<1>4. QED
  BY <1>1, <1>2, <1>3, CoveredMove, IdleIs

(* Steps of the order and the start of handlers.                            *)
LEMMA OrderStepCovered ==
  ASSUME Covered, NEW o \in Orders, OrderStep(o) PROVE Covered'
<1>1. /\ UNCHANGED <<preauth, links, spent, refunded, accrued, balance, session, corrections>>
      /\ stage' \in [Orders -> Stages] /\ card' \in [Orders -> Nat]
  <2>1. CASE LinkPaid(o)
    <3>1. PICK i \in DOMAIN links[o] : card' = [card EXCEPT ![o] = links[o][i]]
      BY <2>1 DEF LinkPaid
    <3>2. links[o] \in Seq(Nat)
      BY DEF Covered, RowTypes
    <3>3. links[o][i] \in Nat
      BY <3>2
    <3>4. QED
      BY <2>1, <3>1, <3>3 DEF LinkPaid, ledger, Covered, RowTypes, Stages
  <2>2. CASE HandOver(o)
    BY <2>2 DEF HandOver, ledger, Covered, RowTypes, Stages
  <2>3. CASE PickUp(o)
    BY <2>3 DEF PickUp, ledger, Covered, RowTypes, Stages
  <2>4. QED
    BY <2>1, <2>2, <2>3 DEF OrderStep
<1>2. RowTypes'
  BY <1>1 DEF Covered, RowTypes
<1>3. QED
  BY <1>1, <1>2 DEF Covered, Covers, Alone, OneSpender

LEMMA StartsCovered ==
  ASSUME Covered, "adjust" \notin Racing, NEW h \in Requests, Starts(h) PROVE Covered'
<1> USE DEF Sessions, Covers, Steps
<1>0. RowTypes
  BY DEF Covered
<1>1. ASSUME NEW o \in Orders, NEW k \in Points, StartPay(h, o, k) PROVE Covered'
  <2> DEFINE t == [op |-> "pay", at |-> "checked", o |-> o, k |-> k, back |-> 0,
                   money |-> preauth[o]]
  <2>1. k \in Nat /\ preauth[o] \in Nat
    BY <1>0, AmountsAssumption DEF RowTypes
  <2>2. t \in Sessions /\ Covers(t, balance, corrections) /\ t.op = "pay" /\ t.at = "checked"
    BY <2>1
  <2>3. MayStart(h, "pay") /\ Go(h, t) /\ UNCHANGED <<order, ledger, corrections>>
    BY <1>1 DEF StartPay
  <2>4. QED
    BY <2>2, <2>3, CoveredStart
<1>2. ASSUME NEW o \in Orders, StartClose(h, o) PROVE Covered'
  <2> DEFINE t == [op |-> "close", at |-> "checked", o |-> o, k |-> 0, back |-> 0,
                   money |-> card[o]]
  <2>1. t \in Sessions /\ Covers(t, balance, corrections) /\ t.op = "close" /\ t.at = "checked"
    BY <1>0 DEF RowTypes
  <2>2. MayStart(h, "close") /\ Go(h, t) /\ UNCHANGED <<order, ledger, corrections>>
    BY <1>2 DEF StartClose
  <2>3. QED
    BY <2>1, <2>2, CoveredStart
<1>3. ASSUME NEW o \in Orders, NEW op \in {"confirm", "complete"}, StartComplete(h, op, o)
      PROVE  Covered'
  <2> DEFINE t == [op |-> op, at |-> "checked", o |-> o,
                   k |-> IF accrued[o] > 0 THEN 0 ELSE Accrual(card[o]),
                   back |-> 0, money |-> card[o]]
  <2>1. card[o] \in Nat /\ Accrual(card[o]) \in Nat
    BY <1>0, AccrualNat DEF RowTypes
  <2>2. t \in Sessions /\ Covers(t, balance, corrections) /\ t.op = op /\ t.at = "checked"
    BY <2>1
  <2>3. MayStart(h, op) /\ Go(h, t) /\ UNCHANGED <<order, ledger, corrections>>
    BY <1>3 DEF StartComplete
  <2>4. QED
    BY <2>2, <2>3, CoveredStart
<1>4. ASSUME NEW a \in Int, StartAdjust(h, a), a \in Nat \/ -a \in Nat PROVE Covered'
  <2> DEFINE t == [op |-> "adjust", at |-> "checked", o |-> Idle.o, k |-> a,
                   back |-> 0, money |-> 0]
  <2>1. t \in Sessions /\ Covers(t, balance, corrections) /\ t.op = "adjust" /\ t.at = "checked"
    BY <1>0, <1>4, IdleIs DEF RowTypes, StartAdjust
  <2>2. MayStart(h, "adjust") /\ Go(h, t) /\ UNCHANGED <<order, ledger, corrections>>
    BY <1>4 DEF StartAdjust
  <2>3. QED
    BY <2>1, <2>2, CoveredStart
<1>5. ASSUME NEW a \in Corrections PROVE a \in Int /\ a \in Nat /\ -a \in Int /\ -(-a) \in Nat
  BY AmountsAssumption
<1>6. QED
  BY <1>1, <1>2, <1>3, <1>4, <1>5 DEF Starts

LEMMA SpendCovered ==
  ASSUME Covered, NEW h \in Requests, Spend(h) PROVE Covered'
<1> DEFINE s == session[h]
           back == IF s.k > 0 THEN Outstanding(s.o) ELSE 0
           t == [s EXCEPT !.at = "linking", !.back = back,
                          !.money = IF s.k > 0 THEN Price[s.o] - s.k ELSE @]
<1>1. s \in Sessions /\ s.op = "pay" /\ s.k \in Nat /\ s.money \in Nat /\ s.o \in Orders
  BY DEF Covered, Covers, Spend, Sessions
<1>2. back \in Nat /\ RowTypes /\ balance + back \in Nat
  <2>1. Outstanding(s.o) \in Nat /\ balance \in Nat /\ RowTypes
    BY <1>1, SessionTypes, OutstandingNat
  <2>2. back \in Nat
    BY <2>1
  <2>3. QED
    BY <2>1, <2>2
<1>3. Go(h, t) /\ s.k <= Spendable(balance + back, Price[s.o]) /\ ClientFree(h, s.k > 0)
      /\ UNCHANGED <<order, ledger, corrections>>
  BY DEF Spend
<1>4. s.k <= balance + back /\ s.k <= Price[s.o] /\ Price[s.o] \in Nat
  <2>1. Price[s.o] \in Nat /\ Spendable(balance + back, Price[s.o]) \in Nat
    BY <1>1, <1>2, SpendableBounds, AmountsAssumption
  <2>2. QED
    BY <1>1, <1>2, <1>3, <2>1, SpendableBounds
<1>5. t \in Sessions /\ Covers(t, balance, corrections) /\ t.k = s.k /\ t.at = "linking" /\ t.op = "pay"
  <2>1. t = [op |-> "pay", at |-> "linking", o |-> s.o, k |-> s.k, back |-> back,
             money |-> IF s.k > 0 THEN Price[s.o] - s.k ELSE s.money]
    <3>1. s = [op |-> s.op, at |-> s.at, o |-> s.o, k |-> s.k, back |-> s.back,
               money |-> s.money]
      BY <1>1 DEF Sessions
    <3>. DEFINE m == IF s.k > 0 THEN Price[s.o] - s.k ELSE s.money
    <3>2. t = [s EXCEPT !.at = "linking", !.back = back, !.money = m]
      OBVIOUS
    <3>. HIDE DEF s, t, back, m
    <3>3. t = [op |-> s.op, at |-> "linking", o |-> s.o, k |-> s.k, back |-> back,
               money |-> m]
      BY <3>1, <3>2
    <3>4. QED
      BY <1>1, <3>3 DEF m
  <2>2. (IF s.k > 0 THEN Price[s.o] - s.k ELSE s.money) \in Nat
    BY <1>1, <1>4
  <2>3. s.k = 0 => back = 0
    BY <1>1
  <2>. HIDE DEF back, t
  <2>4. t \in Sessions
    BY <1>1, <1>2, <2>1, <2>2 DEF Sessions
  <2>5. QED
    BY <1>1, <1>2, <1>4, <2>1, <2>2, <2>3, <2>4 DEF Covers, Steps
<1>6. RowTypes' /\ balance' = balance /\ corrections' = corrections
  BY <1>2, <1>3 DEF RowTypes, order, ledger
<1>7. Covers(t, balance', corrections')
  <2>. HIDE DEF t
  <2>1. QED
    BY <1>5, <1>6 DEF Covers
<1>8. \A g \in Requests \ {h} : Covers(session'[g], balance', corrections')
  BY <1>3, <1>6 DEF Covered, Covers, Go
<1>9. \A g \in Requests \ {h} : session[g].op # "adjust"
  BY <1>1, IdleIs DEF Covered, Alone
<1>10. \A g \in Requests \ {h} : session[g].at = "linking" => session[g].k = 0 /\ s.k = 0
  BY <1>1, <1>3 DEF ClientFree
<1>11. \A g \in Requests \ {h} :
         session[g].at = "linking" /\ t.at = "linking" => session[g].k = 0 /\ t.k = 0
  BY <1>5, <1>10
<1>. HIDE DEF t
<1>12. QED
  BY <1>3, <1>5, <1>6, <1>7, <1>8, <1>9, <1>11, CoveredMove

LEMMA ReleaseCovered ==
  ASSUME Covered, NEW h \in Requests, Release(h) PROVE Covered'
<1> DEFINE s == session[h]
           t == [s EXCEPT !.at = "releasing", !.back = Outstanding(s.o)]
<1>1. s \in Sessions /\ s.op = "close" /\ s.k \in Nat /\ s.money \in Nat /\ s.o \in Orders
  BY DEF Covered, Covers, Release, Sessions
<1>2. Outstanding(s.o) \in Nat
  BY <1>1, OutstandingNat DEF Covered
<1>3. Go(h, t) /\ UNCHANGED <<order, ledger, corrections>>
  BY DEF Release
<1>4. t \in Sessions /\ Covers(t, balance, corrections) /\ t.at = "releasing" /\ t.op = "close"
  BY <1>1, <1>2 DEF Sessions, Covers, Steps
<1>5. RowTypes' /\ balance' = balance /\ corrections' = corrections
  BY <1>3 DEF Covered, RowTypes, order, ledger
<1>6. Covers(t, balance', corrections')
  <2>. HIDE DEF t
  <2>1. QED
    BY <1>4, <1>5 DEF Covers
<1>7. \A g \in Requests \ {h} : Covers(session'[g], balance', corrections')
  BY <1>3, <1>5 DEF Covered, Covers, Go
<1>8. \A g \in Requests \ {h} : session[g].op # "adjust"
  BY <1>1, IdleIs DEF Covered, Alone
<1>. HIDE DEF t
<1>9. QED
  BY <1>3, <1>4, <1>5, <1>6, <1>7, <1>8, CoveredMove

(* The handlers that end without a row of their own.                        *)
LEMMA RefusedCovered ==
  ASSUME Covered, NEW h \in Requests, SpendRefused(h) \/ LinkFailed(h) \/ RefundRefused(h)
  PROVE  Covered'
<1>1. /\ Finish(h) /\ session[h].op \in {"pay", "close"}
      /\ UNCHANGED <<order, ledger, corrections>>
  BY DEF SpendRefused, LinkFailed, RefundRefused
<1>2. RowTypes' /\ balance' = balance /\ corrections' = corrections /\ balance \in Nat
  BY <1>1 DEF Covered, RowTypes, order, ledger
<1>3. QED
  BY <1>1, <1>2, CoveredEnd

LEMMA LinkCreatedCovered ==
  ASSUME Covered, NEW h \in Requests, LinkCreated(h) PROVE Covered'
<1> DEFINE s == session[h]
<1>1. s \in Sessions /\ s.op = "pay" /\ s.at = "linking" /\ s.k \in Nat
      /\ s.money \in Nat /\ s.o \in Orders /\ s.back \in Nat
  BY DEF Covered, Covers, LinkCreated, Sessions
<1>2. balance + s.back - s.k \in Nat /\ (s.k = 0 => s.back = 0)
  <2>1. balance \in Nat /\ Covers(s, balance, corrections)
    BY SessionTypes
  <2>2. s.k > 0 => s.k <= balance + s.back
    BY <1>1, <2>1 DEF Covers
  <2>3. s.k = 0 => s.back = 0
    BY <1>1, <2>1 DEF Covers
  <2>4. QED
    BY <1>1, <2>1, <2>2, <2>3
<1>3. links[s.o] \in Seq(Nat)
  BY <1>1 DEF Covered, RowTypes
<1>4. Append(links[s.o], s.money) \in Seq(Nat)
  BY <1>1, <1>3
<1>5. links' \in [Orders -> Seq(Nat)]
  BY <1>1, <1>4 DEF LinkCreated, Covered, RowTypes
<1>6. preauth' \in [Orders -> Nat]
  BY <1>1 DEF LinkCreated, Covered, RowTypes
<1>7. RowTypes'
  <2>1. /\ spent' = [spent EXCEPT ![s.o] = @ + s.k]
        /\ refunded' = [refunded EXCEPT ![s.o] = @ + s.back]
        /\ balance' = balance + s.back - s.k
        /\ UNCHANGED <<stage, card, accrued, corrections>>
    BY DEF LinkCreated
  <2>. HIDE DEF s
  <2>2. RowTypes
    BY DEF Covered
  <2>3. spent' \in [Orders -> Nat]
    <3>1. spent \in [Orders -> Nat] /\ s.o \in Orders /\ s.k \in Nat
      BY <1>1, <2>2 DEF RowTypes
    <3>2. spent[s.o] + s.k \in Nat
      BY ONLY <3>1
    <3>3. QED
      BY <2>1, <3>1, <3>2
  <2>4. refunded' \in [Orders -> Nat]
    <3>1. refunded \in [Orders -> Nat] /\ s.o \in Orders /\ s.back \in Nat
      BY <1>1, <2>2 DEF RowTypes
    <3>2. refunded[s.o] + s.back \in Nat
      BY ONLY <3>1
    <3>3. QED
      BY <2>1, <3>1, <3>2
  <2>5. QED
    BY <1>2, <1>5, <1>6, <2>1, <2>2, <2>3, <2>4 DEF RowTypes
<1>8. ASSUME s.k > 0, NEW g \in Requests \ {h} PROVE session[g].at # "linking"
  BY <1>1, <1>8 DEF Covered, OneSpender
<1>9. balance' >= balance \/ \A g \in Requests \ {h} : session[g].at # "linking"
  BY <1>1, <1>2, <1>8 DEF LinkCreated, Covered, RowTypes
<1>10. QED
  BY <1>1, <1>7, <1>9, CoveredEnd DEF LinkCreated

LEMMA ClosedCovered ==
  ASSUME Covered, NEW h \in Requests, Closed(h) PROVE Covered'
<1> DEFINE s == session[h]
<1>1. s.o \in Orders /\ s.back \in Nat /\ RowTypes /\ balance \in Nat
  BY SessionTypes
<1>2. /\ stage' = [stage EXCEPT ![s.o] = "closed"]
      /\ card' = IF s.money > 0 THEN [card EXCEPT ![s.o] = 0] ELSE card
      /\ refunded' = [refunded EXCEPT ![s.o] = @ + s.back]
      /\ balance' = balance + s.back
      /\ UNCHANGED <<preauth, links, spent, accrued, corrections>>
  BY DEF Closed
<1>3. card' \in [Orders -> Nat]
  BY <1>1, <1>2 DEF RowTypes
<1>4. RowTypes' /\ balance' >= balance
  <2>. HIDE DEF s
  <2>1. refunded' \in [Orders -> Nat]
    <3>1. refunded \in [Orders -> Nat] /\ refunded[s.o] + s.back \in Nat
      BY <1>1 DEF RowTypes
    <3>2. QED
      BY <1>1, <1>2, <3>1
  <2>2. stage' \in [Orders -> Stages]
    BY <1>1, <1>2 DEF RowTypes, Stages
  <2>3. balance' \in Nat /\ balance' >= balance
    BY <1>1, <1>2
  <2>4. QED
    BY <1>1, <1>2, <1>3, <2>1, <2>2, <2>3 DEF RowTypes
<1>5. QED
  BY <1>4, CoveredEnd DEF Closed

LEMMA CompletedCovered ==
  ASSUME Covered, NEW h \in Requests, Completed(h) PROVE Covered'
<1> DEFINE s == session[h]
<1>1. s.o \in Orders /\ s.k \in Nat /\ RowTypes /\ balance \in Nat
  BY SessionTypes DEF Completed
<1>2. /\ stage' = [stage EXCEPT ![s.o] = "completed"]
      /\ accrued' = [accrued EXCEPT ![s.o] = @ + s.k]
      /\ balance' = balance + s.k
      /\ UNCHANGED <<preauth, links, card, spent, refunded, corrections>>
  BY DEF Completed
<1>3. RowTypes' /\ balance' >= balance
  <2>. HIDE DEF s
  <2>1. accrued' \in [Orders -> Nat]
    <3>1. accrued \in [Orders -> Nat]
      BY <1>1 DEF RowTypes
    <3>2. accrued[s.o] + s.k \in Nat
      BY <1>1, <3>1
    <3>3. QED
      BY <1>1, <1>2, <3>1, <3>2
  <2>2. stage' \in [Orders -> Stages]
    BY <1>1, <1>2 DEF RowTypes, Stages
  <2>3. balance' \in Nat /\ balance' >= balance
    BY <1>1, <1>2
  <2>4. QED
    BY <1>1, <1>2, <2>1, <2>2, <2>3 DEF RowTypes
<1>4. QED
  BY <1>3, CoveredEnd DEF Completed

LEMMA AdjustedCovered ==
  ASSUME Covered, NEW h \in Requests, Adjusted(h) PROVE Covered'
<1>1. balance + session[h].k >= 0 /\ corrections < MaxCorrections
      /\ session[h].k \in Int /\ balance + session[h].k \in Int
  <2>1. session[h].op = "adjust" /\ Covers(session[h], balance, corrections)
        /\ session[h].k \in Int /\ balance \in Nat
    BY SessionTypes DEF Adjusted
  <2>2. balance + session[h].k >= 0 /\ corrections < MaxCorrections
    BY <2>1 DEF Covers
  <2>3. QED
    BY <2>1, <2>2
<1>2. RowTypes'
  BY <1>1, RacingAssumption DEF Adjusted, Covered, RowTypes, order
<1>3. \A g \in Requests \ {h} : session[g].at # "linking"
  BY IdleIs DEF Adjusted, Covered, Alone
<1>4. QED
  BY <1>2, <1>3, CoveredEnd DEF Adjusted

LEMMA InitCovered == Init => Covered
<1> SUFFICES ASSUME Init PROVE Covered
  OBVIOUS
<1>1. RowTypes
  BY AmountsAssumption, RacingAssumption DEF Init, RowTypes, Stages
<1>2. QED
  BY <1>1, IdleIs, IdleCovers DEF Init, Covered, OneSpender, RowTypes

LEMMA NextCovered ==
  ASSUME Covered, "adjust" \notin Racing, [Next]_vars PROVE Covered'
<1>1. CASE UNCHANGED vars
  BY <1>1 DEF vars, Covered, RowTypes, Covers, Alone, OneSpender
<1>2. ASSUME NEW h \in Requests, Continues(h) PROVE Covered'
  BY <1>2, SpendCovered, ReleaseCovered, RefusedCovered, LinkCreatedCovered,
     ClosedCovered, CompletedCovered, AdjustedCovered DEF Continues
<1>3. QED
  BY <1>1, <1>2, OrderStepCovered, StartsCovered DEF Next

(* The balance is never negative, whichever handlers race and however many   *)
(* tabs are open, as long as an operator's correction runs alone             *)
(* (apply_bonus_spend holds the client's row from the comparison on;        *)
(* admin_adjust compares without it).                                       *)
THEOREM BalanceCovered ==
  ASSUME "adjust" \notin Racing PROVE Spec => []BalanceNotNegative
<1>1. Covered => BalanceNotNegative
  BY DEF Covered, RowTypes, BalanceNotNegative
<1>2. Covered /\ [Next]_vars => Covered'
  BY NextCovered
<1>3. QED
  BY <1>1, <1>2, InitCovered, PTL DEF Spec

-----------------------------------------------------------------------------
(* The sums.                                                                *)

LEMMA SessionKnown ==
  ASSUME Agreed, NEW h \in Requests
  PROVE  /\ session[h].o \in Orders /\ StillSo(session[h]) /\ Undisturbed(h)
         /\ SumsAgree(session[h].o)
         /\ session[h].op \in {"none", "pay", "close", "confirm", "complete", "adjust"}
         /\ session[h].op = "none" => session[h] = Idle
         /\ session[h].op = "adjust" => Alone(h)
<1>1. session[h].o \in Orders /\ Covers(session[h], balance, corrections)
  BY SessionTypes DEF Agreed
<1>2. QED
  BY <1>1 DEF Agreed, Covered, Covers, Steps

LEMMA OrderTypes ==
  ASSUME RowTypes, NEW o \in Orders
  PROVE  /\ stage[o] \in Stages /\ preauth[o] \in Nat /\ card[o] \in Nat
         /\ links[o] \in Seq(Nat) /\ spent[o] \in Nat /\ refunded[o] \in Nat
         /\ accrued[o] \in Nat /\ Price[o] \in Nat /\ Accrual(card[o]) \in Nat
<1>1. card[o] \in Nat
  BY DEF RowTypes
<1>2. QED
  BY <1>1, AccrualNat, AmountsAssumption DEF RowTypes

(* One handler goes to s, and no sum changes.                               *)
LEMMA AgreedMove ==
  ASSUME Agreed, Covered', UNCHANGED <<order, spent, refunded, accrued>>,
         NEW h \in Requests, NEW s \in Sessions, Go(h, s), StillSo(s),
         s.op \in {"close", "complete"} => Alone(h),
         \A g \in Requests \ {h} : session[g].op \in {"close", "complete"} => s = Idle,
         \A g \in Requests \ {h} : session[g].o = s.o =>
           ~({session[g].op, s.op} \subseteq {"pay", "confirm"})
  PROVE  Agreed'
<1> USE DEF order
<1>1. session' = [session EXCEPT ![h] = s] /\ session' \in [Requests -> Sessions]
  BY DEF Go, Agreed, Covered
<1>2. \A o \in Orders : SumsAgree(o)'
  BY DEF Agreed, SumsAgree
<1>3. \A g \in Requests : StillSo(session[g])'
  BY <1>1 DEF Agreed, StillSo
<1>4. ASSUME NEW g \in Requests PROVE Undisturbed(g)'
  <2>1. ASSUME session'[g].op \in {"close", "complete"} PROVE Alone(g)'
    <3>1. CASE g = h
      BY <1>1, <2>1, <3>1 DEF Alone
    <3>2. CASE g # h
      BY <1>1, <2>1, <3>2 DEF Alone, Agreed, Undisturbed
    <3>3. QED
      BY <3>1, <3>2
  <2>2. ASSUME NEW f \in Requests, f # g, session'[f].o = session'[g].o
        PROVE  ~({session'[f].op, session'[g].op} \subseteq {"pay", "confirm"})
    <3>1. CASE g = h
      BY <1>1, <2>2, <3>1
    <3>2. CASE f = h
      BY <1>1, <2>2, <3>2
    <3>3. CASE f # h /\ g # h
      BY <1>1, <2>2, <3>3 DEF Agreed, Undisturbed
    <3>4. QED
      BY <3>1, <3>2, <3>3
  <2>3. QED
    BY <2>1, <2>2 DEF Undisturbed
<1>5. QED
  BY <1>2, <1>3, <1>4 DEF Agreed

LEMMA AgreedEnd ==
  ASSUME Agreed, Covered', UNCHANGED <<order, spent, refunded, accrued>>,
         NEW h \in Requests, Finish(h)
  PROVE  Agreed'
<1>1. Go(h, Idle) /\ StillSo(Idle)
  BY DEF Finish, Go, Idle, StillSo
<1>2. QED
  BY <1>1, IdleIs, AgreedMove

(* A handler starts: of the others, only payments and returns of the client *)
(* are under way, and only next to such a one.                              *)
LEMMA StartBeside ==
  ASSUME Agreed, Racing \subseteq {"pay", "confirm"}, NEW h \in Requests, NEW op,
         MayStart(h, op), NEW g \in Requests \ {h}
  PROVE  session[g] = Idle \/ {op, session[g].op} \subseteq {"pay", "confirm"}
  BY DEF MayStart

LEMMA StartsAgreed ==
  ASSUME Agreed, OneAttempt, Racing \subseteq {"pay", "confirm"},
         NEW h \in Requests, Starts(h)
  PROVE  Agreed'
<1>0. Covered' /\ RowTypes
  BY StartsCovered DEF Agreed, Covered
<1>1. ASSUME NEW o \in Orders, NEW k \in Points, StartPay(h, o, k) PROVE Agreed'
  <2> DEFINE t == [op |-> "pay", at |-> "checked", o |-> o, k |-> k, back |-> 0,
                   money |-> preauth[o]]
  <2>1. /\ MayStart(h, "pay") /\ Go(h, t) /\ ~Paying(o) /\ stage[o] = "awaiting"
        /\ UNCHANGED <<order, ledger>>
    BY <1>1 DEF StartPay
  <2>2. t \in Sessions /\ StillSo(t) /\ t.op = "pay" /\ t.o = o
    BY <1>0, <2>1, AmountsAssumption DEF Sessions, StillSo, RowTypes
  <2>3. ASSUME NEW g \in Requests \ {h}
        PROVE  /\ session[g].op \notin {"close", "complete"}
               /\ session[g].o = o => session[g].op \notin {"pay", "confirm"}
    <3>1. session[g] = Idle \/ session[g].op \in {"pay", "confirm"}
      BY <2>1, StartBeside
    <3>2. session[g].op = "confirm" => session[g].o # o
      BY <2>1, SessionKnown DEF StillSo
    <3>3. QED
      BY <2>1, <3>1, <3>2, IdleIs DEF Paying
  <2>. HIDE DEF t
  <2>4. QED
    BY <1>0, <2>1, <2>2, <2>3, AgreedMove DEF ledger
<1>2. ASSUME NEW o \in Orders, StartClose(h, o) PROVE Agreed'
  <2> DEFINE t == [op |-> "close", at |-> "checked", o |-> o, k |-> 0, back |-> 0,
                   money |-> card[o]]
  <2>1. /\ MayStart(h, "close") /\ Go(h, t) /\ stage[o] \in {"awaiting", "paid", "ready"}
        /\ UNCHANGED <<order, ledger>>
    BY <1>2 DEF StartClose
  <2>2. t \in Sessions /\ StillSo(t) /\ t.op = "close" /\ t.o = o
    BY <1>0, <2>1 DEF Sessions, StillSo, RowTypes
  <2>3. \A g \in Requests \ {h} : session[g] = Idle
    BY <2>1, StartBeside
  <2>. HIDE DEF t
  <2>4. QED
    BY <1>0, <2>1, <2>2, <2>3, AgreedMove, IdleIs DEF ledger, Alone
<1>3. ASSUME NEW o \in Orders, NEW op \in {"confirm", "complete"}, StartComplete(h, op, o)
      PROVE  Agreed'
  <2> DEFINE t == [op |-> op, at |-> "checked", o |-> o,
                   k |-> IF accrued[o] > 0 THEN 0 ELSE Accrual(card[o]),
                   back |-> 0, money |-> card[o]]
  <2>1. /\ MayStart(h, op) /\ Go(h, t) /\ UNCHANGED <<order, ledger>>
        /\ stage[o] = "rented" \/ (op = "complete" /\ stage[o] = "ready")
        /\ op = "confirm" => RentalFree(h, o)
    BY <1>3 DEF StartComplete
  <2>2. t \in Sessions /\ StillSo(t) /\ t.op = op /\ t.o = o
    BY <1>0, <2>1, OrderTypes DEF Sessions, StillSo
  <2>3. op = "complete" => \A g \in Requests \ {h} : session[g] = Idle
    BY <2>1, StartBeside
  <2>4. ASSUME NEW g \in Requests \ {h}
        PROVE  /\ session[g].op \notin {"close", "complete"}
               /\ session[g].o = o => session[g].op \notin {"pay", "confirm"}
    <3>1. session[g] = Idle \/ (op = "confirm" /\ session[g].op \in {"pay", "confirm"})
      BY <2>1, <2>3, StartBeside
    <3>2. op = "confirm" /\ session[g].op = "pay" => session[g].o # o
      BY <2>1, SessionKnown DEF StillSo
    <3>3. QED
      BY <2>1, <3>1, <3>2, IdleIs DEF RentalFree
  <2>. HIDE DEF t
  <2>5. QED
    BY <1>0, <2>1, <2>2, <2>3, <2>4, AgreedMove DEF ledger, Alone
<1>4. ASSUME NEW a \in Int, StartAdjust(h, a) PROVE Agreed'
  <2> DEFINE t == [op |-> "adjust", at |-> "checked", o |-> Idle.o, k |-> a,
                   back |-> 0, money |-> 0]
  <2>1. MayStart(h, "adjust") /\ Go(h, t) /\ UNCHANGED <<order, ledger>>
    BY <1>4 DEF StartAdjust
  <2>2. t \in Sessions /\ StillSo(t) /\ t.op = "adjust"
    BY IdleIs DEF Sessions, StillSo
  <2>3. \A g \in Requests \ {h} : session[g] = Idle
    BY <2>1, StartBeside
  <2>. HIDE DEF t
  <2>4. QED
    BY <1>0, <2>1, <2>2, <2>3, AgreedMove, IdleIs DEF ledger
<1>5. \A a \in Corrections : a \in Int /\ -a \in Int
  BY AmountsAssumption
<1>6. QED
  BY <1>1, <1>2, <1>3, <1>4, <1>5 DEF Starts

LEMMA SpendAgreed ==
  ASSUME Agreed, NEW h \in Requests, Spend(h) PROVE Agreed'
<1> DEFINE s == session[h]
           back == IF s.k > 0 THEN Outstanding(s.o) ELSE 0
           m == IF s.k > 0 THEN Price[s.o] - s.k ELSE s.money
           t == [s EXCEPT !.at = "linking", !.back = back, !.money = m]
<1>1. Covered' /\ RowTypes
  BY SpendCovered DEF Agreed, Covered
<1>2. s \in Sessions /\ s.op = "pay" /\ s.at = "checked" /\ s.o \in Orders /\ s.k \in Nat
      /\ s.money \in Nat
  BY SessionTypes DEF Spend, Agreed
<1>3. /\ StillSo(s) /\ SumsAgree(s.o) /\ Undisturbed(h) /\ Price[s.o] \in Nat
      /\ Outstanding(s.o) = spent[s.o] - refunded[s.o] /\ Outstanding(s.o) \in Nat
  BY <1>1, <1>2, SessionKnown, OutstandingNat, OrderTypes DEF SumsAgree
<1>4. Go(h, t) /\ UNCHANGED <<order, ledger>>
  BY DEF Spend
<1>5. back \in Nat /\ m \in Int
  BY <1>2, <1>3
<1>6. t = [op |-> "pay", at |-> "linking", o |-> s.o, k |-> s.k, back |-> back, money |-> m]
  <2>1. s = [op |-> s.op, at |-> s.at, o |-> s.o, k |-> s.k, back |-> s.back,
             money |-> s.money]
    BY <1>2 DEF Sessions
  <2>2. t = [s EXCEPT !.at = "linking", !.back = back, !.money = m]
    OBVIOUS
  <2>. HIDE DEF s, t, back, m
  <2>3. QED
    BY <1>2, <2>1, <2>2
<1>7. t \in Sessions
  <2>. HIDE DEF t, back, m, s
  <2>1. QED
    BY <1>2, <1>5, <1>6 DEF Sessions
<1>8. StillSo(t)
  <2>. HIDE DEF t, s
  <2>1. QED
    BY <1>2, <1>3, <1>6 DEF StillSo
<1>9. \A g \in Requests \ {h} :
        /\ session[g].op \notin {"close", "complete"}
        /\ session[g].o = s.o => session[g].op \notin {"pay", "confirm"}
  <2>1. ASSUME NEW g \in Requests \ {h}, session[g].op \in {"close", "complete"}
        PROVE  FALSE
    BY <1>2, <2>1, SessionKnown, IdleIs DEF Undisturbed, Alone
  <2>2. QED
    BY <1>2, <1>3, <2>1 DEF Undisturbed
<1>10. t.op = "pay" /\ t.o = s.o
  <2>. HIDE DEF t, back, m
  <2>1. QED
    BY <1>6
<1>. HIDE DEF t
<1>11. QED
  BY <1>1, <1>4, <1>7, <1>8, <1>9, <1>10, AgreedMove DEF ledger

LEMMA ReleaseAgreed ==
  ASSUME Agreed, NEW h \in Requests, Release(h) PROVE Agreed'
<1> DEFINE s == session[h]
           t == [s EXCEPT !.at = "releasing", !.back = Outstanding(s.o)]
<1>1. Covered' /\ RowTypes
  BY ReleaseCovered DEF Agreed, Covered
<1>2. s \in Sessions /\ s.op = "close" /\ s.o \in Orders
  BY SessionTypes DEF Release, Agreed
<1>3. /\ StillSo(s) /\ Undisturbed(h)
      /\ Outstanding(s.o) = spent[s.o] - refunded[s.o] /\ Outstanding(s.o) \in Nat
  BY <1>1, <1>2, SessionKnown, OutstandingNat DEF SumsAgree
<1>4. Go(h, t) /\ UNCHANGED <<order, ledger>>
  BY DEF Release
<1>5. t \in Sessions /\ t.op = "close" /\ t.o = s.o /\ t.back = Outstanding(s.o)
  BY <1>2, <1>3 DEF Sessions
<1>6. StillSo(t)
  <2>. HIDE DEF t, s
  <2>1. QED
    BY <1>2, <1>3, <1>5 DEF StillSo
<1>7. \A g \in Requests \ {h} : session[g] = Idle
  BY <1>2, <1>3 DEF Undisturbed, Alone
<1>. HIDE DEF t
<1>8. QED
  BY <1>1, <1>4, <1>5, <1>6, <1>7, AgreedMove, IdleIs DEF ledger, Alone

(* One handler ends, and only its order changes.                            *)
SameRow(o) ==
  /\ stage'[o] = stage[o] /\ preauth'[o] = preauth[o] /\ links'[o] = links[o]
  /\ card'[o] = card[o] /\ spent'[o] = spent[o] /\ refunded'[o] = refunded[o]
  /\ accrued'[o] = accrued[o]

LEMMA AgreedCommit ==
  ASSUME Agreed, Covered', NEW h \in Requests, NEW o \in Orders, session[h].o = o,
         session[h].op \in {"pay", "close", "confirm", "complete"}, Finish(h),
         SumsAgree(o)', \A q \in Orders \ {o} : SameRow(q)
  PROVE  Agreed'
<1>1. session' = [session EXCEPT ![h] = Idle] /\ session \in [Requests -> Sessions]
  BY DEF Finish, Agreed, Covered
<1>2. ASSUME NEW q \in Orders PROVE SumsAgree(q)'
  <2>1. CASE q = o
    BY <2>1
  <2>2. CASE q # o
    BY <2>2 DEF SameRow, SumsAgree, Agreed
  <2>3. QED
    BY <2>1, <2>2
<1>3. ASSUME NEW g \in Requests \ {h} PROVE StillSo(session[g])'
  <2>1. CASE session[g].op \in {"none", "adjust"}
    BY <1>1, <2>1 DEF StillSo
  <2>2. CASE session[g].op \in {"close", "complete"}
    BY <2>2, SessionKnown, IdleIs DEF Undisturbed, Alone
  <2>3. CASE session[g].op \in {"pay", "confirm"}
    <3>1. session[g].o # o
      BY <2>3, SessionKnown, IdleIs DEF Undisturbed, Alone
    <3>2. SameRow(session[g].o) /\ StillSo(session[g])
      BY <3>1, SessionKnown
    <3>3. QED
      BY <1>1, <3>2 DEF SameRow, StillSo
  <2>4. QED
    BY <2>1, <2>2, <2>3, SessionKnown
<1>4. StillSo(session[h])'
  BY <1>1, IdleIs DEF StillSo
<1>5. ASSUME NEW g \in Requests PROVE Undisturbed(g)'
  <2>1. CASE g = h
    BY <1>1, <2>1, IdleIs DEF Undisturbed
  <2>2. CASE g # h
    BY <1>1, <2>2, IdleIs DEF Agreed, Undisturbed, Alone
  <2>3. QED
    BY <2>1, <2>2
<1>6. QED
  BY <1>2, <1>3, <1>4, <1>5 DEF Agreed

LEMMA RefusedAgreed ==
  ASSUME Agreed, NEW h \in Requests, SpendRefused(h) \/ LinkFailed(h) \/ RefundRefused(h)
  PROVE  Agreed'
<1>1. Covered'
  BY RefusedCovered DEF Agreed
<1>2. QED
  BY <1>1, AgreedEnd DEF SpendRefused, LinkFailed, RefundRefused, ledger

LEMMA AdjustedAgreed ==
  ASSUME Agreed, NEW h \in Requests, Adjusted(h) PROVE Agreed'
<1>1. Covered'
  BY AdjustedCovered DEF Agreed
<1>2. QED
  BY <1>1, AgreedEnd DEF Adjusted

LEMMA LinkCreatedAgreed ==
  ASSUME Agreed, NEW h \in Requests, LinkCreated(h) PROVE Agreed'
<1> SUFFICES ASSUME NEW s \in Sessions, NEW o \in Orders, s = session[h], o = s.o
             PROVE  Agreed'
  BY SessionTypes DEF Agreed
<1>1. Covered' /\ RowTypes
  BY LinkCreatedCovered DEF Agreed, Covered
<1>2. s.op = "pay" /\ s.at = "linking" /\ o \in Orders /\ s.k \in Nat
      /\ s.money \in Nat /\ s.back \in Nat /\ (s.k = 0 => s.back = 0)
  <2>1. s.op = "pay" /\ s.at = "linking"
    BY DEF LinkCreated
  <2>2. s.k \in Nat /\ s.money \in Nat /\ s.back \in Nat /\ Covers(s, balance, corrections)
    BY <2>1, SessionTypes DEF Agreed
  <2>3. QED
    BY <2>1, <2>2 DEF Covers
<1>3. /\ links'[o] = Append(links[o], s.money)
      /\ preauth'[o] = IF s.k > 0 THEN s.money ELSE preauth[o]
      /\ spent'[o] = spent[o] + s.k /\ refunded'[o] = refunded[o] + s.back
      /\ UNCHANGED <<stage, card, accrued>>
  BY <1>1, <1>2 DEF LinkCreated, RowTypes
<1>4. \A q \in Orders \ {o} : SameRow(q)
  BY <1>1 DEF LinkCreated, RowTypes, SameRow
<1>5. StillSo(s) /\ SumsAgree(o)
  BY SessionKnown
<1>6. /\ stage[o] = "awaiting" /\ card[o] = 0 /\ accrued[o] = 0
      /\ preauth[o] + (spent[o] - refunded[o]) = Price[o]
      /\ refunded[o] <= spent[o]
  BY <1>2, <1>5 DEF StillSo, SumsAgree
<1>7. preauth'[o] + (spent'[o] - refunded'[o]) = Price[o] /\ preauth'[o] = s.money
      /\ refunded'[o] <= spent'[o]
  <2>1. CASE s.k > 0
    <3>1. s.back = spent[o] - refunded[o] /\ s.money = Price[o] - s.k
      BY <1>2, <1>5, <2>1 DEF StillSo
    <3>2. spent[o] \in Nat /\ refunded[o] \in Nat /\ Price[o] \in Nat
      BY <1>1, OrderTypes
    <3>3. spent'[o] - refunded'[o] = s.k /\ refunded'[o] = spent[o]
      BY <1>2, <1>3, <3>1, <3>2
    <3>4. preauth'[o] = Price[o] - s.k /\ preauth'[o] = s.money
      BY <1>3, <2>1, <3>1
    <3>5. refunded'[o] <= spent'[o]
      BY <1>2, <1>3, <3>2, <3>3
    <3>6. QED
      BY <1>2, <3>2, <3>3, <3>4, <3>5
  <2>2. CASE s.k = 0
    <3>1. s.money = preauth[o]
      BY <1>2, <1>5, <2>2 DEF StillSo
    <3>2. preauth'[o] = preauth[o] /\ s.back = 0
      BY <1>2, <1>3, <2>2
    <3>3. spent[o] \in Nat /\ refunded[o] \in Nat
      BY <1>1, OrderTypes
    <3>4. spent'[o] = spent[o] /\ refunded'[o] = refunded[o]
      BY <1>3, <2>2, <3>2, <3>3
    <3>5. QED
      BY <1>6, <3>1, <3>2, <3>4
  <2>3. QED
    BY <1>2, <2>1, <2>2
<1>8. links'[o][Len(links'[o])] = s.money
  <2>1. links[o] \in Seq(Nat)
    BY <1>1, <1>2, OrderTypes
  <2>2. QED
    BY <1>2, <1>3, <2>1
<1>9. SumsAgree(o)'
  <2>1. accrued'[o] = 0 /\ accrued[o] <= Accrual(card[o]) /\ stage'[o] = "awaiting"
        /\ card'[o] = 0 /\ card'[o] = card[o] /\ accrued'[o] = accrued[o]
    BY <1>3, <1>5, <1>6 DEF SumsAgree
  <2>2. QED
    BY <1>2, <1>7, <1>8, <2>1 DEF SumsAgree, HasRental
<1>10. Finish(h)
  BY DEF LinkCreated
<1>11. QED
  BY <1>1, <1>2, <1>4, <1>9, <1>10, AgreedCommit

LEMMA ClosedAgreed ==
  ASSUME Agreed, NEW h \in Requests, Closed(h) PROVE Agreed'
<1> SUFFICES ASSUME NEW s \in Sessions, NEW o \in Orders, s = session[h], o = s.o
             PROVE  Agreed'
  BY SessionTypes DEF Agreed
<1>1. Covered' /\ RowTypes
  BY ClosedCovered DEF Agreed, Covered
<1>2. s.op = "close" /\ s.at = "releasing" /\ o \in Orders
  BY SessionKnown DEF Closed
<1>3. /\ stage'[o] = "closed" /\ card'[o] \in {0, card[o]}
      /\ refunded'[o] = refunded[o] + s.back
      /\ UNCHANGED <<spent, accrued>>
  BY <1>1, <1>2 DEF Closed, RowTypes
<1>4. \A q \in Orders \ {o} : SameRow(q)
  BY <1>1 DEF Closed, RowTypes, SameRow
<1>5. StillSo(s) /\ SumsAgree(o)
  BY SessionKnown
<1>6. accrued[o] = 0 /\ s.back = spent[o] - refunded[o]
  BY <1>2, <1>5 DEF StillSo, SumsAgree
<1>7. refunded'[o] = spent'[o] /\ accrued'[o] = 0 /\ Accrual(card'[o]) \in Nat
      /\ spent'[o] \in Nat
  <2>1. card[o] \in Nat /\ refunded[o] \in Nat /\ spent[o] \in Nat
    BY <1>1, <1>2, OrderTypes
  <2>2. card'[o] \in Nat
    BY <1>3, <2>1
  <2>3. QED
    BY <1>3, <1>6, <2>1, <2>2, AccrualNat
<1>8. SumsAgree(o)'
  <2>1. QED
    BY <1>3, <1>7 DEF SumsAgree, HasRental
<1>9. Finish(h)
  BY DEF Closed
<1>10. QED
  BY <1>1, <1>2, <1>4, <1>8, <1>9, AgreedCommit

LEMMA CompletedAgreed ==
  ASSUME Agreed, NEW h \in Requests, Completed(h) PROVE Agreed'
<1> SUFFICES ASSUME NEW s \in Sessions, NEW o \in Orders, s = session[h], o = s.o
             PROVE  Agreed'
  BY SessionTypes DEF Agreed
<1>1. Covered' /\ RowTypes
  BY CompletedCovered DEF Agreed, Covered
<1>2. s.op \in {"confirm", "complete"} /\ o \in Orders /\ s.k \in Nat
  BY SessionTypes DEF Completed, Agreed
<1>3. /\ stage'[o] = "completed" /\ accrued'[o] = accrued[o] + s.k
      /\ UNCHANGED <<preauth, links, card, spent, refunded>>
  BY <1>1, <1>2 DEF Completed, RowTypes
<1>4. \A q \in Orders \ {o} : SameRow(q)
  BY <1>1 DEF Completed, RowTypes, SameRow
<1>5. StillSo(s) /\ SumsAgree(o)
  BY SessionKnown
<1>6. /\ accrued[o] = 0 /\ s.k <= Accrual(card[o])
      /\ card[o] + (spent[o] - refunded[o]) = Price[o] /\ refunded[o] <= spent[o]
  BY <1>2, <1>5 DEF StillSo, SumsAgree, HasRental
<1>7. SumsAgree(o)'
  <2>1. accrued'[o] <= Accrual(card[o])
    BY <1>2, <1>3, <1>6
  <2>2. QED
    BY <1>3, <1>6, <2>1 DEF SumsAgree, HasRental
<1>8. Finish(h)
  BY DEF Completed
<1>9. QED
  BY <1>1, <1>2, <1>4, <1>7, <1>8, AgreedCommit

LEMMA OrderStepAgreed ==
  ASSUME Agreed, OneAttempt, NEW o \in Orders, OrderStep(o) PROVE Agreed'
<1>1. Covered' /\ RowTypes /\ links[o] \in Seq(Nat) /\ card[o] \in Nat /\ stage[o] \in Stages
  BY OrderStepCovered, OrderTypes DEF Agreed, Covered
<1>2. /\ UNCHANGED <<preauth, links, spent, refunded, accrued, session>>
      /\ \A q \in Orders \ {o} : SameRow(q)
      /\ <<stage[o], stage'[o]>> \in
           {<<"awaiting", "paid">>, <<"paid", "ready">>, <<"ready", "rented">>}
      /\ stage[o] = "awaiting" => ~Paying(o) /\ card'[o] = links[o][Len(links[o])]
                                  /\ links[o] # <<>>
      /\ stage[o] # "awaiting" => card'[o] = card[o]
  <2>1. CASE LinkPaid(o)
    BY <1>1, <2>1 DEF LinkPaid, ledger, RowTypes, SameRow
  <2>2. CASE HandOver(o)
    BY <1>1, <2>2 DEF HandOver, ledger, RowTypes, SameRow
  <2>3. CASE PickUp(o)
    BY <1>1, <2>3 DEF PickUp, ledger, RowTypes, SameRow
  <2>4. QED
    BY <2>1, <2>2, <2>3 DEF OrderStep
<1>3. SumsAgree(o)'
  <2>1. SumsAgree(o) /\ accrued[o] = 0
    BY <1>2 DEF Agreed, SumsAgree
  <2>2. card'[o] + (spent[o] - refunded[o]) = Price[o] /\ card'[o] \in Nat
    <3>1. CASE stage[o] = "awaiting"
      <4>1. links[o][Len(links[o])] = preauth[o] /\ preauth[o] \in Nat
        BY <1>1, <1>2, <2>1, <3>1, OrderTypes DEF SumsAgree
      <4>2. QED
        BY <1>2, <2>1, <3>1, <4>1 DEF SumsAgree
    <3>2. CASE stage[o] # "awaiting"
      BY <1>1, <1>2, <2>1, <3>2 DEF SumsAgree, HasRental
    <3>3. QED
      BY <3>1, <3>2
  <2>3. Accrual(card'[o]) \in Nat /\ accrued'[o] = 0
    BY <1>2, <2>1, <2>2, AccrualNat
  <2>4. accrued'[o] <= Accrual(card'[o])
    BY <2>3
  <2>5. QED
    BY <1>2, <2>1, <2>2, <2>3, <2>4 DEF SumsAgree
<1>4. ASSUME NEW q \in Orders PROVE SumsAgree(q)'
  BY <1>2, <1>3 DEF SameRow, SumsAgree, Agreed
<1>5. ASSUME NEW g \in Requests PROVE StillSo(session[g])'
  <2>1. StillSo(session[g]) /\ session[g].o \in Orders
    BY SessionKnown
  <2>2. CASE session[g].o # o
    BY <1>2, <2>1, <2>2 DEF SameRow, StillSo
  <2>3. CASE session[g].o = o
    <3>1. session[g].op = "pay" => stage[o] # "awaiting"
      BY <1>2, <2>3 DEF Paying
    <3>2. session[g].op = "complete" => stage[o] # "awaiting"
      BY <2>1, <2>3 DEF StillSo
    <3>3. QED
      BY <1>2, <2>1, <2>3, <3>1, <3>2 DEF StillSo
  <2>4. QED
    BY <2>2, <2>3
<1>6. \A g \in Requests : Undisturbed(g)'
  BY <1>2 DEF Agreed, Undisturbed, Alone
<1>7. QED
  BY <1>1, <1>4, <1>5, <1>6 DEF Agreed

LEMMA InitAgreed == Init => Agreed
<1> SUFFICES ASSUME Init PROVE Agreed
  OBVIOUS
<1>1. Covered
  BY InitCovered
<1>2. ASSUME NEW o \in Orders PROVE SumsAgree(o)
  <2>1. Price[o] \in Nat /\ Accrual(0) \in Nat
    BY AmountsAssumption, AccrualNat
  <2>2. QED
    BY <2>1 DEF Init, SumsAgree, HasRental
<1>3. ASSUME NEW h \in Requests PROVE StillSo(session[h]) /\ Undisturbed(h)
  BY IdleIs DEF Init, StillSo, Undisturbed
<1>4. QED
  BY <1>1, <1>2, <1>3 DEF Agreed

LEMMA NextAgreed ==
  ASSUME Agreed, OneAttempt, Racing \subseteq {"pay", "confirm"}, [Next]_vars
  PROVE  Agreed'
<1>1. CASE UNCHANGED vars
  <2>1. Covered'
    BY <1>1, NextCovered DEF Agreed
  <2>2. QED
    BY <1>1, <2>1 DEF vars, Agreed, SumsAgree, StillSo, Undisturbed, Alone
<1>2. ASSUME NEW h \in Requests, Continues(h) PROVE Agreed'
  BY <1>2, SpendAgreed, ReleaseAgreed, RefusedAgreed, LinkCreatedAgreed,
     ClosedAgreed, CompletedAgreed, AdjustedAgreed DEF Continues
<1>3. QED
  BY <1>1, <1>2, OrderStepAgreed, StartsAgreed DEF Next

LEMMA AgreedAccounts ==
  ASSUME Agreed PROVE TypeOK /\ PointsAccounted
<1>1. RowTypes /\ session \in [Requests -> Sessions]
  BY DEF Agreed, Covered
<1>2. \A o \in Orders : SumsAgree(o) /\ Outstanding(o) = spent[o] - refunded[o]
  BY <1>1, OutstandingNat DEF Agreed, SumsAgree
<1>3. BalanceNotNegative
  BY <1>1 DEF RowTypes, BalanceNotNegative
<1>4. PointsAccounted
  BY <1>1, <1>2, <1>3, OrderTypes DEF PointsAccounted, SumsAgree
<1>5. TypeOK
  <2>1. Nat \subseteq Int /\ \A q \in Seq(Nat) : q \in Seq(Int)
    OBVIOUS
  <2>2. links \in [Orders -> Seq(Int)] /\ preauth \in [Orders -> Int]
        /\ card \in [Orders -> Int] /\ balance \in Int
    BY <1>1, <2>1 DEF RowTypes
  <2>3. \A o \in Orders : refunded[o] <= spent[o]
    BY <1>2 DEF SumsAgree
  <2>4. QED
    BY <1>1, <2>2, <2>3 DEF RowTypes, TypeOK
<1>6. QED
  BY <1>4, <1>5

(* Points are accounted for to the rouble, whatever is bought, paid again,   *)
(* given back and returned in whatever order, with payments and the client's *)
(* returns interleaved at every wait, as long as an order is paid from one   *)
(* tab and no other handler runs beside these (apply_bonus_spend,           *)
(* release_bonus_spend, accrue_rental_bonus).                               *)
THEOREM PointsAreAccounted ==
  ASSUME OneAttempt, Racing \subseteq {"pay", "confirm"}
  PROVE  Spec => [](TypeOK /\ PointsAccounted)
<1>1. Agreed /\ [Next]_vars => Agreed'
  BY NextAgreed
<1>2. Agreed => TypeOK /\ PointsAccounted
  BY AgreedAccounts
<1>3. QED
  BY <1>1, <1>2, InitAgreed, PTL DEF Spec

-----------------------------------------------------------------------------
(* Prices.                                                                  *)

Tariffs == [base : BasePlans, filter : FilterPlans, markups : Markups, byDay : BOOLEAN]
InForce(t) == IF t.byDay THEN t.markups ELSE NoMarkups

(* What is fresh is what the tariffs give.                                  *)
Priced ==
  /\ tariffs \in Tariffs /\ zone \in Zones
  /\ page # NotYet =>
       /\ page = [plans |-> page.plans, start |-> page.start, nights |-> page.nights,
                  markups |-> page.markups, answer |-> page.answer, fresh |-> page.fresh]
       /\ page.start \in StartDays
       /\ page.fresh => page.plans = EffectivePlans(tariffs) /\ page.markups = InForce(tariffs)
  /\ checkout # NotYet =>
       /\ checkout = [start |-> checkout.start, days |-> checkout.days,
                      fresh |-> checkout.fresh, shown |-> checkout.shown]
       /\ checkout.start \in StartDays
       /\ checkout.fresh =>
            checkout.shown = RentalPrice(tariffs, checkout.start, checkout.days)
  /\ reservation # NotYet =>
       /\ reservation = [start |-> reservation.start, days |-> reservation.days,
                         fresh |-> reservation.fresh, amount |-> reservation.amount]
       /\ reservation.fresh =>
            reservation.amount = RentalPrice(tariffs, reservation.start, reservation.days)
  /\ ChargedIsShown

(* Quotients.                                                               *)
LEMMA Quotient ==
  ASSUME NEW x \in Int, NEW q \in Nat \ {0}
  PROVE  /\ x \div q \in Int
         /\ q * (x \div q) <= x /\ x < q * (x \div q) + q
OBVIOUS

LEMMA OneQuotient ==
  ASSUME NEW x \in Int, NEW q \in Nat \ {0}, NEW u \in Int, NEW v \in Int,
         q * u <= x, x < q * u + q, q * v <= x, x < q * v + q
  PROVE  u = v
<1>1. q * u < q * (v + 1) /\ q * v < q * (u + 1)
  OBVIOUS
<1>2. ASSUME NEW i \in Int, NEW j \in Int, q * i < q * j PROVE i < j
  <2>1. CASE j <= i
    <3>1. q * (i - j) >= 0
      BY <2>1
    <3> QED  BY <1>2, <3>1
  <2> QED  BY <2>1
<1> QED  BY <1>1, <1>2

(* Math.round of a quotient is the rounding of the server where the step is  *)
(* even.                                                                    *)
LEMMA RoundedAlike ==
  ASSUME NEW x \in Int, NEW q \in Nat \ {0}, q % 2 = 0
  PROVE  RoundedOnPage(x, q) = Rounded(x, q)
<1> DEFINE h == q \div 2
           y == x + h
           z == 2 * x + q
           u == y \div q
           v == z \div (2 * q)
<1>1. h \in Nat /\ q = 2 * h /\ 2 * q \in Nat \ {0} /\ y \in Int /\ z \in Int /\ z = 2 * y
  OBVIOUS
<1>2. u \in Int /\ q * u <= y /\ y < q * u + q
  <2> HIDE DEF y
  <2> QED  BY <1>1, Quotient
<1>3. v \in Int /\ (2 * q) * v <= z /\ z < (2 * q) * v + 2 * q
  <2> HIDE DEF z
  <2> DEFINE p == 2 * q
  <2> HIDE DEF p
  <2>1. p \in Nat \ {0}
    BY <1>1 DEF p
  <2>2. z \div p \in Int /\ p * (z \div p) <= z /\ z < p * (z \div p) + p
    BY <1>1, <2>1, Quotient
  <2> QED  BY <2>2 DEF p
<1> HIDE DEF h, y, z, u, v
<1>4. q * v <= y /\ y < q * v + q
  <2>1. (2 * q) * v = 2 * (q * v) /\ q * v \in Int
    BY <1>3
  <2> QED  BY <1>1, <1>3, <2>1
<1>5. u = v
  BY <1>1, <1>2, <1>3, <1>4, OneQuotient
<1> QED  BY <1>5 DEF RoundedOnPage, Rounded, h, y, z, u, v

(* The midnight nearest to midnight of the client's day is that day's.       *)
LEMMA SameDay ==
  ASSUME NEW day \in Nat, zone \in -11..12
  PROVE  StartDay(StartAt(day)) = day
BY DEF StartDay, StartAt

LEMMA Percents ==
  ASSUME NEW start \in Nat, NEW days \in Nat
  PROVE  /\ \A m \in [0..6 -> Int] : Surcharge(start, days, m) \in Int
         /\ Surcharge(start, days, NoMarkups) = 0
<1>1. \A d \in 0..6 : DaysOf(d, start, days) \in Int
  BY DEF DaysOf
<1>2. /\ 0 \in 0..6 /\ 1 \in 0..6 /\ 2 \in 0..6 /\ 3 \in 0..6 /\ 4 \in 0..6
      /\ 5 \in 0..6 /\ 6 \in 0..6
  OBVIOUS
<1>3. ASSUME NEW m \in [0..6 -> Int], NEW d \in 0..6 PROVE m[d] * DaysOf(d, start, days) \in Int
  BY <1>1
<1>4. ASSUME NEW m \in [0..6 -> Int] PROVE Surcharge(start, days, m) \in Int
  BY <1>2, <1>3 DEF Surcharge
<1>5. \A d \in 0..6 : NoMarkups[d] * DaysOf(d, start, days) = 0
  BY <1>1 DEF NoMarkups
<1>6. Surcharge(start, days, NoMarkups) = 0
  BY <1>2, <1>5 DEF Surcharge
<1> QED  BY <1>4, <1>6

LEMMA TariffTypes ==
  ASSUME NEW t \in Tariffs
  PROVE  /\ DOMAIN t.base \subseteq Nat \ {0} /\ \A d \in DOMAIN t.base : t.base[d] \in Nat
         /\ DOMAIN t.filter \subseteq Nat \ {0} /\ \A d \in DOMAIN t.filter : t.filter[d] \in Nat
         /\ t.markups \in [0..6 -> Int] /\ t.byDay \in BOOLEAN
<1>1. t.base \in BasePlans /\ t.filter \in FilterPlans /\ t.markups \in Markups /\ t.byDay \in BOOLEAN
  BY DEF Tariffs
<1>2. t.markups \in [0..6 -> -50..200]
  BY <1>1, PricingAssumption
<1>3. t.markups \in [0..6 -> Int]
  BY <1>2
<1> QED  BY <1>1, <1>3, PricingAssumption

(* A term with a tariff of its own, or computed from the tariff of a day.    *)
LEMMA OneSum ==
  ASSUME NEW t \in Tariffs, NEW p, p.plans = EffectivePlans(t), NEW days,
         DOMAIN t.filter # {} => DOMAIN t.base \subseteq DOMAIN t.filter,
         TermPrice(t, days) # NoPrice
  PROVE  /\ days \in Nat \ {0} /\ TermPrice(t, days) \in Int
         /\ TermPrice(t, days) =
              IF days \in DOMAIN p.plans THEN p.plans[days]
              ELSE RoundedOnPage(p.plans[1] * days * (100 - Discount(days)), 100000)
<1> DEFINE plans == EffectivePlans(t)
<1>1. \A d : ExactPrice(t, d) = IF d \in DOMAIN plans THEN plans[d] ELSE NoPrice
  BY DEF ExactPrice, EffectivePlans
<1>2. DOMAIN plans \subseteq Nat \ {0} /\ \A d \in DOMAIN plans : plans[d] \in Nat
  BY TariffTypes DEF EffectivePlans
<1>3. p.plans = plans
  OBVIOUS
<1> HIDE DEF plans
<1>4. CASE days \in DOMAIN plans
  <2>1. ExactPrice(t, days) = plans[days] /\ plans[days] \in Nat /\ plans[days] # NoPrice
    BY <1>1, <1>2, <1>4 DEF NoPrice
  <2>2. TermPrice(t, days) = plans[days]
    BY <2>1 DEF TermPrice
  <2> QED  BY <1>2, <1>3, <1>4, <2>1, <2>2
<1>5. CASE days \notin DOMAIN plans
  <2>1. ExactPrice(t, days) = NoPrice
    BY <1>1, <1>5
  <2>2. days \in 2..30 /\ ExactPrice(t, 1) > 0 /\ TermPrice(t, days) = TermTotal(ExactPrice(t, 1), days)
    BY <2>1 DEF TermPrice
  <2>3. 1 \in DOMAIN plans
    BY <1>1, <2>2 DEF NoPrice
  <2>4. ExactPrice(t, 1) = plans[1] /\ plans[1] \in Nat
    BY <1>1, <1>2, <2>3
  <2>5. Discount(days) \in Int
    BY <2>2 DEF Discount
  <2> DEFINE x == plans[1] * days * (100 - Discount(days))
  <2>6. x \in Int
    BY <2>2, <2>4, <2>5
  <2> HIDE DEF x
  <2>7. RoundedOnPage(x, 100000) = Rounded(x, 100000)
    BY <2>6, RoundedAlike, 100000 % 2 = 0
  <2>8. Rounded(x, 100000) \in Int
    BY <2>6 DEF Rounded
  <2>9. TermPrice(t, days) = Rounded(x, 100000)
    BY <2>2, <2>4 DEF TermTotal, x
  <2> QED  BY <1>3, <1>5, <2>2, <2>7, <2>8, <2>9 DEF x
<1> QED  BY <1>4, <1>5

(* The page computes what the server does, from the same tariffs.            *)
LEMMA OnePrice ==
  ASSUME NEW t \in Tariffs, NEW p, p.plans = EffectivePlans(t), p.markups = InForce(t),
         NEW start \in Nat, NEW days,
         DOMAIN t.filter # {} => DOMAIN t.base \subseteq DOMAIN t.filter,
         RentalPrice(t, start, days) # NoPrice
  PROVE  Estimate(p, start, days) = RentalPrice(t, start, days)
<1> DEFINE sum == TermPrice(t, days)
           extra == Surcharge(start, days, p.markups)
           x == sum * (100 * days + extra)
           q == 100000 * days
<1>1. sum # NoPrice
  BY DEF RentalPrice
<1>2. /\ days \in Nat \ {0} /\ sum \in Int
      /\ sum = IF days \in DOMAIN p.plans THEN p.plans[days]
               ELSE RoundedOnPage(p.plans[1] * days * (100 - Discount(days)), 100000)
  BY <1>1, OneSum
<1>3. extra \in Int /\ (~t.byDay => extra = 0)
  BY <1>2, TariffTypes, Percents DEF InForce, NoMarkups
<1>4. x \in Int /\ q \in Nat \ {0} /\ q % 2 = 0
  <2>1. x \in Int
    BY <1>2, <1>3
  <2>2. q \in Nat \ {0} /\ q % 2 = 0
    BY <1>2
  <2> QED  BY <2>1, <2>2
<1>5. RoundedOnPage(x, q) = Rounded(x, q)
  <2> HIDE DEF x, q
  <2> QED  BY <1>4, RoundedAlike
<1>6. Estimate(p, start, days) = IF sum <= 0 \/ extra = 0 THEN sum
                                 ELSE RoundedOnPage(x, 100000 * days)
  <2>1. Estimate(p, start, days) =
          LET s == IF days \in DOMAIN p.plans THEN p.plans[days]
                   ELSE RoundedOnPage(p.plans[1] * days * (100 - Discount(days)), 100000)
          IN IF days = 0 THEN NoPrice
             ELSE IF s <= 0 \/ extra = 0 THEN s
             ELSE RoundedOnPage(s * (100 * days + extra), 100000 * days)
    BY DEF Estimate
  <2> QED  BY <1>2, <2>1
<1>7. t.byDay => RentalPrice(t, start, days) = IF sum <= 0 \/ extra = 0 THEN sum
                                               ELSE Rounded(x, 100000 * days)
  BY <1>1, TariffTypes DEF RentalPrice, WithMarkups, InForce
<1>8. ~t.byDay => RentalPrice(t, start, days) = sum
  BY <1>1 DEF RentalPrice
<1> QED  BY <1>3, <1>5, <1>6, <1>7, <1>8, TariffTypes

(* What an edit leaves of a page, a sum or a reservation.                    *)
LEMMA OutdatedKeeps ==
  /\ Outdated(NotYet) = NotYet
  /\ \A s : s # NotYet => Outdated(s) = [s EXCEPT !.fresh = FALSE]
BY DEF Outdated

LEMMA EditKeeps ==
  ASSUME Priced, NEW t \in Tariffs, Edits(t)
  PROVE  Priced'
<1>1. /\ tariffs' = t /\ page' = Outdated(page) /\ checkout' = Outdated(checkout)
      /\ reservation' = Outdated(reservation) /\ zone' = zone /\ charged' = charged
  BY DEF Edits
<1>2. page' # NotYet =>
        /\ page' = [plans |-> page'.plans, start |-> page'.start, nights |-> page'.nights,
                    markups |-> page'.markups, answer |-> page'.answer, fresh |-> page'.fresh]
        /\ page'.start \in StartDays /\ page'.fresh = FALSE
  BY <1>1, OutdatedKeeps DEF Priced
<1>3. checkout' # NotYet =>
        /\ checkout' = [start |-> checkout'.start, days |-> checkout'.days,
                        fresh |-> checkout'.fresh, shown |-> checkout'.shown]
        /\ checkout'.start \in StartDays /\ checkout'.fresh = FALSE
  BY <1>1, OutdatedKeeps DEF Priced
<1>4. reservation' # NotYet =>
        /\ reservation' = [start |-> reservation'.start, days |-> reservation'.days,
                           fresh |-> reservation'.fresh, amount |-> reservation'.amount]
        /\ reservation'.fresh = FALSE
  BY <1>1, OutdatedKeeps DEF Priced
<1>5. ChargedIsShown'
  BY <1>1 DEF Priced, ChargedIsShown
<1> QED  BY <1>1, <1>2, <1>3, <1>4, <1>5 DEF Priced

(* Who pays for what the checkout shows, for a reservation r.                *)
LEMMA ChargeKeeps ==
  ASSUME Priced, checkout # NotYet, NEW r, ChargeFor(r),
         r.fresh => r.amount = RentalPrice(tariffs, r.start, r.days)
  PROVE  ChargedIsShown'
<1> SUFFICES ASSUME charged' # NotYet, charged'.fresh, ~charged'.reused
             PROVE  charged'.amount = charged'.shown
  BY DEF ChargedIsShown
<1>1. /\ charged'.amount = r.amount /\ charged'.shown = checkout.shown
      /\ checkout.fresh /\ r.fresh
      /\ [start |-> r.start, days |-> r.days]
           = [start |-> checkout.start, days |-> checkout.days]
  BY DEF ChargeFor
<1>2. r.start = checkout.start /\ r.days = checkout.days
  BY <1>1
<1> QED  BY <1>1, <1>2 DEF Priced

LEMMA PayKeeps ==
  ASSUME Priced, Pay, Zones \subseteq -11..12
  PROVE  Priced'
<1> DEFINE new == [start |-> checkout.start, days |-> checkout.days, fresh |-> TRUE,
                   amount |-> RentalPrice(tariffs, StartDay(StartAt(checkout.start)),
                                          checkout.days)]
<1>1. /\ checkout # NotYet /\ reservation' = new /\ ChargeFor(new)
      /\ UNCHANGED <<tariffs, zone, page, checkout>>
  BY DEF Pay
<1>2. checkout.start \in Nat /\ zone \in -11..12
  BY <1>1, PricingAssumption DEF Priced
<1>3. new.fresh => new.amount = RentalPrice(tariffs, new.start, new.days)
  BY <1>2, SameDay
<1>4. ChargedIsShown'
  <2> HIDE DEF new
  <2> QED  BY <1>1, <1>3, ChargeKeeps
<1>5. reservation' # NotYet =>
        /\ reservation' = [start |-> reservation'.start, days |-> reservation'.days,
                           fresh |-> reservation'.fresh, amount |-> reservation'.amount]
        /\ reservation'.fresh =>
             reservation'.amount = RentalPrice(tariffs', reservation'.start, reservation'.days)
  BY <1>1, <1>3
<1> QED  BY <1>1, <1>4, <1>5 DEF Priced

LEMMA PricedAtFirst == PricingInit => Priced
<1> SUFFICES ASSUME PricingInit PROVE Priced
  OBVIOUS
<1>1. tariffs \in Tariffs /\ zone \in Zones
  BY DEF PricingInit, Tariffs
<1>2. page = NotYet /\ checkout = NotYet /\ reservation = NotYet /\ charged = NotYet
  BY DEF PricingInit
<1> QED  BY <1>1, <1>2 DEF Priced, ChargedIsShown

LEMMA PricedStep ==
  ASSUME Zones \subseteq -11..12, Priced, [PricingNext]_pricingVars
  PROVE  Priced'
<1>1. ASSUME NEW b \in BasePlans, SyncPricePlans(b) PROVE Priced'
  <2>1. [tariffs EXCEPT !.base = b] \in Tariffs
    BY DEF Priced, Tariffs
  <2> QED  BY <1>1, <2>1, EditKeeps DEF SyncPricePlans
<1>2. ASSUME NEW f \in FilterPlans, EditFilter(f) PROVE Priced'
  <2>1. [tariffs EXCEPT !.filter = f] \in Tariffs
    BY DEF Priced, Tariffs
  <2> QED  BY <1>2, <2>1, EditKeeps DEF EditFilter
<1>3. ASSUME NEW m \in Markups, EditMarkups(m) PROVE Priced'
  <2>1. [tariffs EXCEPT !.markups = m] \in Tariffs
    BY DEF Priced, Tariffs
  <2> QED  BY <1>3, <2>1, EditKeeps DEF EditMarkups
<1>4. CASE EditFlag
  <2>1. [tariffs EXCEPT !.byDay = ~@] \in Tariffs
    BY DEF Priced, Tariffs
  <2> QED  BY <1>4, <2>1, EditKeeps DEF EditFlag
<1>5. ASSUME NEW start \in StartDays, NEW nights \in Ranges, OpenPage(start, nights)
      PROVE  Priced'
  <2>1. /\ page' = [plans |-> EffectivePlans(tariffs), start |-> start, nights |-> nights,
                    markups |-> InForce(tariffs), answer |-> NoPrice, fresh |-> TRUE]
        /\ UNCHANGED <<tariffs, zone, checkout, reservation, charged>>
    BY <1>5 DEF OpenPage, InForce
  <2>2. /\ page' = [plans |-> page'.plans, start |-> page'.start, nights |-> page'.nights,
                    markups |-> page'.markups, answer |-> page'.answer, fresh |-> page'.fresh]
        /\ page'.start \in StartDays
        /\ page'.plans = EffectivePlans(tariffs') /\ page'.markups = InForce(tariffs')
    BY <2>1
  <2> QED  BY <2>1, <2>2 DEF Priced, ChargedIsShown
<1>6. CASE PricingArrives
  <2>1. /\ page # NotYet
        /\ page' = [page EXCEPT !.answer = RentalPrice(tariffs, page.start, ChosenDays)]
        /\ UNCHANGED <<tariffs, zone, checkout, reservation, charged>>
    BY <1>6 DEF PricingArrives
  <2>2. /\ page' = [plans |-> page'.plans, start |-> page'.start, nights |-> page'.nights,
                    markups |-> page'.markups, answer |-> page'.answer, fresh |-> page'.fresh]
        /\ page'.start = page.start /\ page'.plans = page.plans
        /\ page'.markups = page.markups /\ page'.fresh = page.fresh
    BY <2>1 DEF Priced
  <2> QED  BY <2>1, <2>2 DEF Priced, ChargedIsShown
<1>7. CASE OpenCheckout
  <2>1. /\ page # NotYet
        /\ checkout' = [start |-> page.start, days |-> ChosenDays, fresh |-> TRUE,
                        shown |-> RentalPrice(tariffs, page.start, ChosenDays)]
        /\ UNCHANGED <<tariffs, zone, page, reservation, charged>>
    BY <1>7 DEF OpenCheckout
  <2>2. /\ checkout' = [start |-> checkout'.start, days |-> checkout'.days,
                        fresh |-> checkout'.fresh, shown |-> checkout'.shown]
        /\ checkout'.start = page.start
        /\ checkout'.shown = RentalPrice(tariffs', checkout'.start, checkout'.days)
    BY <2>1
  <2> QED  BY <2>1, <2>2 DEF Priced, ChargedIsShown
<1>8. CASE Pay
  BY <1>8, PayKeeps
<1>9. CASE PayForActive
  <2>1. /\ checkout # NotYet /\ reservation # NotYet /\ ChargeFor(reservation)
        /\ UNCHANGED <<tariffs, zone, page, checkout, reservation>>
    BY <1>9 DEF PayForActive
  <2>2. reservation.fresh =>
          reservation.amount = RentalPrice(tariffs, reservation.start, reservation.days)
    BY <2>1 DEF Priced
  <2>3. ChargedIsShown'
    BY <2>1, <2>2, ChargeKeeps
  <2> QED  BY <2>1, <2>3 DEF Priced
<1>10. CASE LeaveCheckout \/ ReservationEnds
  BY <1>10 DEF LeaveCheckout, ReservationEnds, Priced, ChargedIsShown
<1>11. CASE UNCHANGED pricingVars
  BY <1>11 DEF pricingVars, Priced, ChargedIsShown
<1> QED
  BY <1>1, <1>2, <1>3, <1>4, <1>5, <1>6, <1>7, <1>8, <1>9, <1>10, <1>11 DEF PricingNext

LEMMA PricesAgree == Priced => PriceAgrees
<1> SUFFICES ASSUME Priced PROVE PriceAgrees
  OBVIOUS
<1>1. EstimateAgrees
  <2> SUFFICES ASSUME page # NotYet, page.fresh,
                      DOMAIN tariffs.filter # {} =>
                        DOMAIN tariffs.base \subseteq DOMAIN tariffs.filter,
                      RentalPrice(tariffs, page.start, ChosenDays) # NoPrice
               PROVE  Estimate(page, page.start, ChosenDays)
                        = RentalPrice(tariffs, page.start, ChosenDays)
    BY DEF EstimateAgrees
  <2>1. /\ tariffs \in Tariffs /\ page.start \in Nat
        /\ page.plans = EffectivePlans(tariffs) /\ page.markups = InForce(tariffs)
    BY PricingAssumption DEF Priced
  <2> QED  BY <2>1, OnePrice
<1> QED  BY <1>1 DEF PriceAgrees, Priced

(* A sum shown to the client, by the checkout or by the page, is what the     *)
(* server asks for: for any tariffs, markups, terms and days, and for clients *)
(* from eleven hours behind Moscow to twelve hours ahead.                    *)
THEOREM ShownIsCharged ==
  ASSUME Zones \subseteq -11..12
  PROVE  PricingSpec => []PriceAgrees
<1>1. Priced /\ [PricingNext]_pricingVars => Priced'
  BY PricedStep
<1> QED  BY <1>1, PricedAtFirst, PricesAgree, PTL DEF PricingSpec

-----------------------------------------------------------------------------
(* The types of a price: nothing that is shown, reserved or charged is        *)
(* negative, whatever the markups take off.                                 *)

Sums == Nat \cup {NoPrice}
Plans == BasePlans \cup FilterPlans
Pages == [plans : Plans, start : StartDays, nights : Ranges,
          markups : Markups \cup {NoMarkups}, answer : Sums, fresh : BOOLEAN]
Checkouts == [start : StartDays, days : Nat \ {0}, fresh : BOOLEAN, shown : Sums]
Booked == [start : StartDays, days : Nat \ {0}, fresh : BOOLEAN, amount : Nat]
Payments == [amount : Nat, shown : Nat, fresh : BOOLEAN, reused : BOOLEAN]

PriceTypes ==
  /\ tariffs \in Tariffs /\ zone \in Zones
  /\ pricingBudget \in [edits : Nat, choices : Nat, payments : Nat]
  /\ page \in {NotYet} \cup Pages /\ checkout \in {NotYet} \cup Checkouts
  /\ reservation \in {NotYet} \cup Booked /\ charged \in {NotYet} \cup Payments

LEMMA QuotientNat ==
  ASSUME NEW x \in Nat, NEW q \in Nat \ {0}
  PROVE  x \div q \in Nat
<1> DEFINE u == x \div q
<1>1. u \in Int /\ x < q * u + q
  BY Quotient
<1> HIDE DEF u
<1>2. ASSUME u < 0 PROVE FALSE
  <2>1. q * (u + 1) <= 0
    BY <1>1, <1>2
  <2>2. q * u + q = q * (u + 1)
    BY <1>1
  <2> QED  BY <1>1, <2>1, <2>2
<1> QED  BY <1>1, <1>2 DEF u

LEMMA RoundedNat ==
  ASSUME NEW x \in Nat, NEW q \in Nat \ {0}
  PROVE  Rounded(x, q) \in Nat
<1> DEFINE y == x + q \div 2
<1>1. y \in Nat
  BY QuotientNat
<1> HIDE DEF y
<1>2. y \div q \in Nat
  BY <1>1, QuotientNat
<1> QED  BY <1>2 DEF Rounded, y

LEMMA ProductNat ==
  ASSUME NEW x \in Nat, NEW y \in Nat
  PROVE  x * y \in Nat
OBVIOUS

(* Every day of a term is one day of the week.                              *)
LEMMA DaysCount ==
  ASSUME NEW start \in Int, NEW days \in Nat
  PROVE  /\ \A d \in 0..6 : DaysOf(d, start, days) \in Nat
         /\ DaysOf(0, start, days) + DaysOf(1, start, days) + DaysOf(2, start, days)
              + DaysOf(3, start, days) + DaysOf(4, start, days) + DaysOf(5, start, days)
              + DaysOf(6, start, days) = days
<1> DEFINE k == start % 7
           q == days \div 7
           r == days % 7
           left(d) == IF k <= d THEN k + 6 - d ELSE k - 1 - d
           more(d) == IF r + left(d) >= 7 THEN 1 ELSE 0
<1>1. k \in 0..6 /\ r \in 0..6 /\ q \in Nat /\ days = 7 * q + r
  BY QuotientNat
<1>2. ASSUME NEW d \in 0..6 PROVE DaysOf(d, start, days) = q + more(d)
  <2>1. (start + 6 - d) % 7 = left(d) /\ left(d) \in 0..6
    BY <1>1
  <2> HIDE DEF q, r, k
  <2>2. (days + left(d)) \div 7 = q + more(d)
    <3> DEFINE e == left(d)
    <3>1. e \in 0..6
      BY <2>1
    <3> HIDE DEF e
    <3>2. (days + e) \div 7 = q + (IF r + e >= 7 THEN 1 ELSE 0)
      BY <1>1, <3>1
    <3> QED  BY <3>2 DEF e
  <2> QED  BY <2>1, <2>2 DEF DaysOf
<1>3. more(0) + more(1) + more(2) + more(3) + more(4) + more(5) + more(6) = r
  <2> HIDE DEF r, k
  <2> QED  BY <1>1
<1> HIDE DEF q, r, k
<1>4. \A d \in 0..6 : more(d) \in Nat
  OBVIOUS
<1> HIDE DEF more
<1> QED  BY <1>1, <1>2, <1>3, <1>4

(* The markups of a term take off at most half of its days.                  *)
LEMMA HalfIsLeft ==
  ASSUME NEW start \in Int, NEW days \in Nat \ {0}, NEW m \in Markups
  PROVE  100 * days + Surcharge(start, days, m) \in Nat \ {0}
<1> DEFINE n(d) == DaysOf(d, start, days)
           of(d) == m[d] * n(d)
<1>1. \A d \in 0..6 : n(d) \in Nat
  BY DaysCount
<1>2. n(0) + n(1) + n(2) + n(3) + n(4) + n(5) + n(6) = days
  BY DaysCount
<1> HIDE DEF n
<1>3. ASSUME NEW d \in 0..6 PROVE of(d) \in Int /\ of(d) >= (0 - 50) * n(d)
  <2>1. m[d] \in Int /\ m[d] + 50 \in Nat /\ n(d) \in Nat
    <3>1. m \in [0..6 -> -50..200]
      BY PricingAssumption
    <3>2. m[d] \in -50..200
      BY <3>1
    <3> QED  BY <1>1, <3>2
  <2>2. (m[d] + 50) * n(d) \in Nat
    BY <2>1, ProductNat
  <2>3. (m[d] + 50) * n(d) = m[d] * n(d) + 50 * n(d) /\ m[d] * n(d) \in Int
    BY <2>1
  <2> QED  BY <2>1, <2>2, <2>3
<1>4. Surcharge(start, days, m) = of(0) + of(1) + of(2) + of(3) + of(4) + of(5) + of(6)
  BY DEF Surcharge, n
<1> HIDE DEF of
<1>5. Surcharge(start, days, m) \in Int /\ Surcharge(start, days, m) >= (0 - 50) * days
  <2>1. /\ 0 \in 0..6 /\ 1 \in 0..6 /\ 2 \in 0..6 /\ 3 \in 0..6 /\ 4 \in 0..6
        /\ 5 \in 0..6 /\ 6 \in 0..6
    OBVIOUS
  <2> QED  BY <1>1, <1>2, <1>3, <1>4, <2>1
<1> QED  BY <1>5

LEMMA SumTypes ==
  ASSUME NEW t \in Tariffs, NEW start \in Int, NEW days \in Nat \ {0}
  PROVE  RentalPrice(t, start, days) \in Sums
<1> DEFINE sum == TermPrice(t, days)
           extra == Surcharge(start, days, t.markups)
<1>1. \A d : ExactPrice(t, d) \in Sums
  BY TariffTypes DEF ExactPrice, Sums
<1>2. sum \in Sums
  <2>1. CASE ExactPrice(t, days) # NoPrice
    BY <1>1, <2>1 DEF TermPrice
  <2>2. CASE ExactPrice(t, days) = NoPrice /\ days \in 2..30 /\ ExactPrice(t, 1) > 0
    <3> DEFINE one == ExactPrice(t, 1)
               less == 100 - Discount(days)
    <3>1. sum = Rounded(one * days * less, 100000)
      BY <2>2 DEF TermPrice, TermTotal
    <3>2. one \in Nat /\ less \in Nat
      BY <1>1, <2>2 DEF Sums, NoPrice, Discount
    <3> HIDE DEF one, less
    <3>3. one * days \in Nat
      BY <3>2, ProductNat
    <3>4. one * days * less \in Nat
      BY <3>2, <3>3, ProductNat
    <3>5. Rounded(one * days * less, 100000) \in Nat
      BY <3>4, RoundedNat
    <3> HIDE DEF sum
    <3> QED  BY <3>1, <3>5 DEF Sums
  <2>3. CASE ExactPrice(t, days) = NoPrice /\ ~(days \in 2..30 /\ ExactPrice(t, 1) > 0)
    BY <2>3 DEF TermPrice, Sums
  <2> QED  BY <2>1, <2>2, <2>3
<1>3. ASSUME sum # NoPrice, t.byDay PROVE WithMarkups(sum, start, days, t.markups) \in Nat
  <2>1. sum \in Nat /\ t.markups \in Markups
    BY <1>2, <1>3 DEF Sums, Tariffs
  <2>2. 100 * days + extra \in Nat \ {0}
    BY <2>1, HalfIsLeft
  <2>3. WithMarkups(sum, start, days, t.markups) =
          IF sum <= 0 \/ extra = 0 THEN sum
          ELSE Rounded(sum * (100 * days + extra), 100000 * days)
    BY DEF WithMarkups
  <2> HIDE DEF sum, extra
  <2>4. sum * (100 * days + extra) \in Nat /\ 100000 * days \in Nat \ {0}
    BY <2>1, <2>2, ProductNat
  <2>5. Rounded(sum * (100 * days + extra), 100000 * days) \in Nat
    BY <2>4, RoundedNat
  <2> QED  BY <2>1, <2>3, <2>5
<1>4. RentalPrice(t, start, days) =
        IF sum = NoPrice \/ ~t.byDay THEN sum ELSE WithMarkups(sum, start, days, t.markups)
  BY DEF RentalPrice
<1> HIDE DEF sum
<1> QED  BY <1>2, <1>3, <1>4 DEF Sums

(* The least and the greatest of some numbers.                              *)
LEMMA Ends ==
  ASSUME NEW S \in SUBSET Nat, S # {}
  PROVE  /\ \E c \in S : \A d \in S : c <= d
         /\ \A n \in Nat : S \subseteq 0..n => \E c \in S : \A d \in S : d <= c
<1>1. ASSUME NEW T \in SUBSET Nat, T # {} PROVE \E c \in T : \A d \in T : c <= d
  <2>1. PICK c \in T : \A d \in T : ~(<<d, c>> \in OpToRel(<, Nat))
    BY <1>1, NatLessThanWellFounded, WFMin
  <2>2. ASSUME NEW d \in T PROVE c <= d
    <3>1. ~(d < c)
      BY <2>1 DEF OpToRel
    <3> QED  BY <3>1
  <2> QED  BY <2>2
<1>2. ASSUME NEW n \in Nat, S \subseteq 0..n PROVE \E c \in S : \A d \in S : d <= c
  <2> DEFINE T == {n - d : d \in S}
  <2>1. T \in SUBSET Nat /\ T # {}
    <3>1. \A d \in S : n - d \in Nat
      BY <1>2
    <3> QED  BY <3>1
  <2>2. PICK e \in T : \A x \in T : e <= x
    BY <1>1, <2>1
  <2>3. PICK c \in S : e = n - c
    BY <2>2
  <2>4. ASSUME NEW d \in S PROVE d <= c
    <3>1. e <= n - d
      BY <2>2
    <3> QED  BY <1>2, <2>3, <3>1
  <2> QED  BY <2>4
<1> QED  BY <1>1, <1>2

LEMMA DaysTypes ==
  ASSUME NEW plans \in Plans, NEW nights \in Nat
  PROVE  RentalDays(plans, nights) \in Nat
<1> DEFINE days == IF nights = 0 THEN 1 ELSE nights
           D == DOMAIN plans
           fitting == {d \in D : d <= days}
           least == CHOOSE d \in D : \A k \in D : d <= k
           longest == CHOOSE d \in fitting : \A k \in fitting : k <= d
<1>1. D \in SUBSET Nat /\ days \in Nat /\ fitting \in SUBSET Nat /\ fitting \subseteq 0..days
  BY PricingAssumption DEF Plans
<1>2. RentalDays(plans, nights) =
        IF 1 \in D \/ days \in D THEN days
        ELSE IF D = {} THEN 0 ELSE IF fitting = {} THEN least ELSE longest
  BY DEF RentalDays
<1> HIDE DEF days, D, fitting
<1>3. D # {} => least \in Nat
  <2> SUFFICES ASSUME D # {} PROVE least \in D
    BY <1>1
  <2>1. \E d \in D : \A k \in D : d <= k
    BY <1>1, Ends
  <2> QED  BY <2>1
<1>4. fitting # {} => longest \in Nat
  <2> SUFFICES ASSUME fitting # {} PROVE longest \in fitting
    BY <1>1
  <2>1. \E d \in fitting : \A k \in fitting : k <= d
    BY <1>1, Ends
  <2> QED  BY <2>1
<1> HIDE DEF least, longest
<1> QED  BY <1>1, <1>2, <1>3, <1>4

LEMMA NotYetIs ==
  /\ NotYet \notin Pages /\ NotYet \notin Checkouts
  /\ NotYet \notin Booked /\ NotYet \notin Payments
BY DEF NotYet, Pages, Checkouts, Booked, Payments

LEMMA PriceTypesAtFirst == PricingInit => PriceTypes
<1> SUFFICES ASSUME PricingInit PROVE PriceTypes
  OBVIOUS
<1>1. tariffs \in Tariffs
  BY DEF PricingInit, Tariffs
<1>2. pricingBudget \in [edits : Nat, choices : Nat, payments : Nat]
  BY PricingAssumption DEF PricingInit
<1> QED  BY <1>1, <1>2 DEF PricingInit, PriceTypes

LEMMA BudgetTypes ==
  ASSUME pricingBudget \in [edits : Nat, choices : Nat, payments : Nat],
         NEW what \in {"edits", "choices", "payments"}, PricingSpends(what)
  PROVE  pricingBudget' \in [edits : Nat, choices : Nat, payments : Nat]
<1>1. /\ pricingBudget[what] \in Nat /\ pricingBudget[what] > 0
      /\ pricingBudget' = [pricingBudget EXCEPT ![what] = @ - 1]
  BY DEF PricingSpends
<1>2. pricingBudget[what] - 1 \in Nat
  BY <1>1
<1> QED  BY <1>1, <1>2

LEMMA EditTypes ==
  ASSUME PriceTypes, NEW t \in Tariffs, PricingSpends("edits"), Edits(t)
  PROVE  PriceTypes'
<1>1. /\ tariffs' = t /\ UNCHANGED <<zone, charged>>
      /\ page' = Outdated(page) /\ checkout' = Outdated(checkout)
      /\ reservation' = Outdated(reservation)
  BY DEF Edits
<1>2. page' \in {NotYet} \cup Pages
  <2>1. ASSUME NEW p \in Pages PROVE [p EXCEPT !.fresh = FALSE] \in Pages
    BY DEF Pages
  <2> QED  BY <1>1, <2>1, OutdatedKeeps DEF PriceTypes
<1>3. checkout' \in {NotYet} \cup Checkouts
  <2>1. ASSUME NEW p \in Checkouts PROVE [p EXCEPT !.fresh = FALSE] \in Checkouts
    BY DEF Checkouts
  <2> QED  BY <1>1, <2>1, OutdatedKeeps DEF PriceTypes
<1>4. reservation' \in {NotYet} \cup Booked
  <2>1. ASSUME NEW p \in Booked PROVE [p EXCEPT !.fresh = FALSE] \in Booked
    BY DEF Booked
  <2> QED  BY <1>1, <2>1, OutdatedKeeps DEF PriceTypes
<1>5. pricingBudget' \in [edits : Nat, choices : Nat, payments : Nat]
  BY BudgetTypes DEF PriceTypes
<1> QED  BY <1>1, <1>2, <1>3, <1>4, <1>5 DEF PriceTypes

LEMMA ChargeTypes ==
  ASSUME PriceTypes, checkout # NotYet, checkout.shown # NoPrice, NEW r \in Booked, ChargeFor(r)
  PROVE  charged' \in Payments
<1>1. checkout \in Checkouts
  BY DEF PriceTypes
<1>2. checkout.shown \in Nat /\ checkout.fresh \in BOOLEAN /\ r.amount \in Nat /\ r.fresh \in BOOLEAN
  BY <1>1 DEF Checkouts, Booked, Sums
<1> QED  BY <1>2 DEF ChargeFor, Payments

LEMMA PayTypes ==
  ASSUME PriceTypes, Pay
  PROVE  PriceTypes'
<1> DEFINE day == StartDay(StartAt(checkout.start))
           new == [start |-> checkout.start, days |-> checkout.days, fresh |-> TRUE,
                   amount |-> RentalPrice(tariffs, day, checkout.days)]
<1>1. /\ checkout # NotYet /\ checkout.shown # NoPrice /\ new.amount # NoPrice
      /\ PricingSpends("payments") /\ reservation' = new /\ ChargeFor(new)
      /\ UNCHANGED <<tariffs, zone, page, checkout>>
  BY DEF Pay
<1>2. checkout.start \in StartDays /\ checkout.days \in Nat \ {0} /\ tariffs \in Tariffs
  BY <1>1 DEF PriceTypes, Checkouts
<1>3. day \in Int
  <2>1. checkout.start \in Nat /\ zone \in Int
    BY <1>2, PricingAssumption DEF PriceTypes
  <2> QED  BY <2>1 DEF StartDay, StartAt
<1> HIDE DEF day
<1>4. new \in Booked
  <2>1. RentalPrice(tariffs, day, checkout.days) \in Nat
    BY <1>1, <1>2, <1>3, SumTypes DEF Sums
  <2> QED  BY <1>2, <2>1 DEF Booked
<1> HIDE DEF new
<1>5. charged' \in Payments
  BY <1>1, <1>4, ChargeTypes
<1>6. pricingBudget' \in [edits : Nat, choices : Nat, payments : Nat]
  BY <1>1, BudgetTypes DEF PriceTypes
<1> QED  BY <1>1, <1>4, <1>5, <1>6 DEF PriceTypes

LEMMA PageTypes ==
  ASSUME PriceTypes, page # NotYet
  PROVE  /\ page \in Pages /\ page.start \in StartDays /\ ChosenDays \in Nat
         /\ ChosenDays > 0 => RentalPrice(tariffs, page.start, ChosenDays) \in Sums
<1>1. page \in Pages
  BY DEF PriceTypes
<1>2. page.plans \in Plans /\ page.nights \in Nat /\ page.start \in StartDays /\ page.start \in Int
  BY <1>1, PricingAssumption DEF Pages
<1>3. ChosenDays \in Nat
  BY <1>2, DaysTypes DEF ChosenDays
<1>4. ASSUME ChosenDays > 0 PROVE RentalPrice(tariffs, page.start, ChosenDays) \in Sums
  <2>1. ChosenDays \in Nat \ {0} /\ tariffs \in Tariffs
    BY <1>3, <1>4 DEF PriceTypes
  <2> HIDE DEF ChosenDays
  <2> QED  BY <1>2, <2>1, SumTypes
<1> QED  BY <1>1, <1>2, <1>3, <1>4

LEMMA PriceTypesStep == PriceTypes /\ [PricingNext]_pricingVars => PriceTypes'
<1> SUFFICES ASSUME PriceTypes, [PricingNext]_pricingVars PROVE PriceTypes'
  OBVIOUS
<1>1. ASSUME NEW b \in BasePlans, SyncPricePlans(b) PROVE PriceTypes'
  <2>1. [tariffs EXCEPT !.base = b] \in Tariffs
    BY DEF PriceTypes, Tariffs
  <2> QED  BY <1>1, <2>1, EditTypes DEF SyncPricePlans
<1>2. ASSUME NEW f \in FilterPlans, EditFilter(f) PROVE PriceTypes'
  <2>1. [tariffs EXCEPT !.filter = f] \in Tariffs
    BY DEF PriceTypes, Tariffs
  <2> QED  BY <1>2, <2>1, EditTypes DEF EditFilter
<1>3. ASSUME NEW m \in Markups, EditMarkups(m) PROVE PriceTypes'
  <2>1. [tariffs EXCEPT !.markups = m] \in Tariffs
    BY DEF PriceTypes, Tariffs
  <2> QED  BY <1>3, <2>1, EditTypes DEF EditMarkups
<1>4. CASE EditFlag
  <2>1. [tariffs EXCEPT !.byDay = ~@] \in Tariffs
    BY DEF PriceTypes, Tariffs
  <2> QED  BY <1>4, <2>1, EditTypes DEF EditFlag
<1>5. ASSUME NEW start \in StartDays, NEW nights \in Ranges, OpenPage(start, nights)
      PROVE  PriceTypes'
  <2>1. /\ page' = [plans |-> EffectivePlans(tariffs), start |-> start, nights |-> nights,
                    markups |-> InForce(tariffs), answer |-> NoPrice, fresh |-> TRUE]
        /\ PricingSpends("choices") /\ UNCHANGED <<tariffs, zone, checkout, reservation, charged>>
    BY <1>5 DEF OpenPage, InForce
  <2>2. EffectivePlans(tariffs) \in Plans /\ InForce(tariffs) \in Markups \cup {NoMarkups}
    BY DEF PriceTypes, Tariffs, EffectivePlans, InForce, Plans
  <2>3. page' \in Pages
    BY <2>1, <2>2 DEF Pages, Sums
  <2>4. pricingBudget' \in [edits : Nat, choices : Nat, payments : Nat]
    BY <2>1, BudgetTypes DEF PriceTypes
  <2> QED  BY <2>1, <2>3, <2>4 DEF PriceTypes
<1>6. CASE PricingArrives
  <2> DEFINE sum == RentalPrice(tariffs, page.start, ChosenDays)
  <2>1. /\ page # NotYet /\ ChosenDays > 0 /\ page' = [page EXCEPT !.answer = sum]
        /\ UNCHANGED <<tariffs, zone, checkout, reservation, charged, pricingBudget>>
    BY <1>6 DEF PricingArrives
  <2>2. page \in Pages /\ sum \in Sums
    BY <2>1, PageTypes
  <2> HIDE DEF sum
  <2>3. page' \in Pages
    BY <2>1, <2>2 DEF Pages
  <2> QED  BY <2>1, <2>3 DEF PriceTypes
<1>7. CASE OpenCheckout
  <2> DEFINE sum == RentalPrice(tariffs, page.start, ChosenDays)
  <2>1. /\ page # NotYet /\ ChosenDays > 0
        /\ checkout' = [start |-> page.start, days |-> ChosenDays, fresh |-> TRUE,
                        shown |-> sum]
        /\ UNCHANGED <<tariffs, zone, page, reservation, charged, pricingBudget>>
    BY <1>7 DEF OpenCheckout
  <2>2. page.start \in StartDays /\ ChosenDays \in Nat \ {0} /\ sum \in Sums
    BY <2>1, PageTypes
  <2> HIDE DEF sum
  <2>3. checkout' \in Checkouts
    BY <2>1, <2>2 DEF Checkouts
  <2> QED  BY <2>1, <2>3 DEF PriceTypes
<1>8. CASE Pay
  BY <1>8, PayTypes
<1>9. CASE PayForActive
  <2>1. /\ checkout # NotYet /\ checkout.shown # NoPrice /\ reservation # NotYet
        /\ PricingSpends("payments") /\ ChargeFor(reservation)
        /\ UNCHANGED <<tariffs, zone, page, checkout, reservation>>
    BY <1>9 DEF PayForActive
  <2>2. charged' \in Payments
    BY <2>1, ChargeTypes DEF PriceTypes
  <2>3. pricingBudget' \in [edits : Nat, choices : Nat, payments : Nat]
    BY <2>1, BudgetTypes DEF PriceTypes
  <2> QED  BY <2>1, <2>2, <2>3 DEF PriceTypes
<1>10. CASE LeaveCheckout \/ ReservationEnds \/ UNCHANGED pricingVars
  BY <1>10 DEF LeaveCheckout, ReservationEnds, pricingVars, PriceTypes
<1> QED
  BY <1>1, <1>2, <1>3, <1>4, <1>5, <1>6, <1>7, <1>8, <1>9, <1>10 DEF PricingNext

LEMMA PricesTyped == PriceTypes => PricingTypeOK
<1> SUFFICES ASSUME PriceTypes PROVE PricingTypeOK
  OBVIOUS
<1>1. tariffs \in [base : BasePlans, filter : FilterPlans, markups : Markups, byDay : BOOLEAN]
  BY DEF PriceTypes, Tariffs
<1>2. page # NotYet => page.answer \in Nat \cup {NoPrice} /\ ChosenDays \in Nat
  BY PageTypes DEF Pages, Sums
<1>3. checkout # NotYet => checkout.shown \in Nat \cup {NoPrice} /\ checkout.days > 0
  BY DEF PriceTypes, Checkouts, Sums
<1>4. /\ reservation # NotYet => reservation.amount \in Nat
      /\ charged # NotYet => charged.amount \in Nat /\ charged.shown \in Nat
  BY DEF PriceTypes, Booked, Payments
<1> QED  BY <1>1, <1>2, <1>3, <1>4 DEF PriceTypes, PricingTypeOK

(* Whatever markups within the limits of the panel, discounts and tariffs     *)
(* meet in a term, the client is shown and charged no negative sum, and every *)
(* choice of dates becomes a whole number of days (resolve_rental_price,      *)
(* rentalDays).                                                             *)
THEOREM NoNegativeSum == PricingSpec => []PricingTypeOK
<1> QED  BY PriceTypesAtFirst, PriceTypesStep, PricesTyped, PTL DEF PricingSpec

-----------------------------------------------------------------------------
(* Extension                                                                *)

(* The days from the first end to x can be shared out among payments.        *)
Shared(x, by, lengths, exactly) ==
  \E payer \in [FirstEnd + 1..x -> by] : \A c \in by :
    LET days == Cardinality({d \in FirstEnd + 1..x : payer[d] = c})
    IN IF exactly THEN days = lengths[c] ELSE days <= lengths[c]

(* What a handler carries s has under it.                                    *)
Grounded(s, rows, owed, lengths) ==
  /\ s.op \in {"settle", "apply"} => rows[s.c] # "none"
  /\ s.op = "extend" => rows[s.c] = "none"
  /\ s.op = "apply" =>
       /\ s.end >= FirstEnd
       /\ ~s.settled => Shared(s.end, owed \ {s.c}, lengths, FALSE)
Apart ==
  \A h, g \in Threads :
    work[h].op = "extend" /\ work[g].op = "extend" /\ work[h].c = work[g].c => h = g
InTurn ==
  /\ \A h, g \in Threads : work[h] # Resting /\ work[g] # Resting => h = g
  /\ \A h \in Threads : work[h].op = "apply" =>
       /\ work[h].rental = rental /\ work[h].end = end
       /\ ~work[h].settled => applied[work[h].c] = {}
  /\ \A h \in Threads : work[h].op = "mark" => end <= now
  /\ rental = "OVERDUE" => end <= now
Owed ==
  /\ ExtTypeOK /\ end >= FirstEnd
  /\ \A c \in Charges : charge[c] = "none" => applied[c] = {}
  /\ Shared(end, Applied, term, ~overlap)
  /\ \A h \in Threads : Grounded(work[h], charge, Applied, term)
  /\ Apart
  /\ ~overlap => InTurn

-----------------------------------------------------------------------------
LEMMA ShareNone ==
  ASSUME NEW lengths, NEW exactly
  PROVE  Shared(FirstEnd, {}, lengths, exactly)
<1>1. FirstEnd + 1..FirstEnd = {}
  BY TermsAssumption
<1>2. [d \in {} |-> 0] \in [{} -> {}]
  OBVIOUS
<1> QED  BY <1>1, <1>2 DEF Shared

LEMMA ShareWider ==
  ASSUME NEW x \in Nat, NEW by, NEW to, NEW lengths, by \subseteq to,
         \A c \in to : lengths[c] \in Nat, Shared(x, by, lengths, FALSE)
  PROVE  Shared(x, to, lengths, FALSE)
<1>1. PICK payer \in [FirstEnd + 1..x -> by] : \A c \in by :
        Cardinality({d \in FirstEnd + 1..x : payer[d] = c}) <= lengths[c]
  BY DEF Shared
<1>2. payer \in [FirstEnd + 1..x -> to]
  OBVIOUS
<1>3. ASSUME NEW c \in to
      PROVE  Cardinality({d \in FirstEnd + 1..x : payer[d] = c}) <= lengths[c]
  <2>1. CASE c \in by
    BY <1>1, <2>1
  <2>2. CASE c \notin by
    <3>1. {d \in FirstEnd + 1..x : payer[d] = c} = {}
      BY <2>2
    <3>2. Cardinality({d \in FirstEnd + 1..x : payer[d] = c}) = 0
      BY <3>1, FS_EmptySet
    <3> QED  BY <3>2
  <2> QED  BY <2>1, <2>2
<1> QED  BY <1>2, <1>3 DEF Shared

LEMMA ShareLoosely ==
  ASSUME NEW x \in Nat, NEW by, NEW lengths, NEW exactly \in BOOLEAN,
         \A c \in by : lengths[c] \in Nat, Shared(x, by, lengths, exactly)
  PROVE  Shared(x, by, lengths, FALSE)
<1>1. CASE exactly
  <2>1. PICK payer \in [FirstEnd + 1..x -> by] : \A c \in by :
          Cardinality({d \in FirstEnd + 1..x : payer[d] = c}) = lengths[c]
    BY <1>1 DEF Shared
  <2>2. ASSUME NEW c \in by
        PROVE  Cardinality({d \in FirstEnd + 1..x : payer[d] = c}) <= lengths[c]
    <3> DEFINE days == Cardinality({d \in FirstEnd + 1..x : payer[d] = c})
    <3>1. days = lengths[c] /\ lengths[c] \in Nat
      BY <2>1
    <3> HIDE DEF days
    <3>2. days <= lengths[c]
      BY <3>1
    <3> QED  BY <3>2 DEF days
  <2> QED  BY <2>2 DEF Shared
<1> QED  BY <1>1 DEF Shared

LEMMA ShareSame ==
  ASSUME NEW x \in Nat, NEW by, NEW lengths, NEW new, NEW exactly,
         \A c \in by : new[c] = lengths[c], Shared(x, by, lengths, exactly)
  PROVE  Shared(x, by, new, exactly)
BY DEF Shared

(* One more payment takes the days after x.                                  *)
LEMMA ShareMore ==
  ASSUME NEW x \in Nat, x >= FirstEnd, NEW by, NEW lengths, NEW exactly \in BOOLEAN,
         NEW c, c \notin by, lengths[c] \in Nat, Shared(x, by, lengths, exactly)
  PROVE  Shared(x + lengths[c], by \cup {c}, lengths, exactly)
<1> DEFINE y == x + lengths[c]
           Of(p, z, k) == {d \in FirstEnd + 1..z : p[d] = k}
<1>1. PICK payer \in [FirstEnd + 1..x -> by] : \A k \in by :
        IF exactly THEN Cardinality(Of(payer, x, k)) = lengths[k]
        ELSE Cardinality(Of(payer, x, k)) <= lengths[k]
  BY DEF Shared
<1> DEFINE longer == [d \in FirstEnd + 1..y |-> IF d <= x THEN payer[d] ELSE c]
<1>2. FirstEnd \in Nat /\ y \in Nat /\ x <= y
  BY TermsAssumption
<1>3. longer \in [FirstEnd + 1..y -> by \cup {c}]
  BY <1>2
<1>4. ASSUME NEW k \in by PROVE Of(longer, y, k) = Of(payer, x, k)
  BY <1>2
<1>5. Of(longer, y, c) = x + 1..y
  <2>1. ASSUME NEW d \in FirstEnd + 1..y PROVE longer[d] = c <=> d > x
    BY <1>2
  <2>2. ASSUME NEW d \in Int PROVE d \in x + 1..y <=> d \in FirstEnd + 1..y /\ d > x
    BY <1>2
  <2> HIDE DEF longer, y
  <2> QED  BY <2>1, <2>2
<1>6. Cardinality(x + 1..y) = lengths[c]
  <2> DEFINE from == x + 1
  <2>1. from \in Int /\ y \in Int /\ lengths[c] = IF from > y THEN 0 ELSE y - from + 1
    BY <1>2
  <2> HIDE DEF from, y
  <2>2. Cardinality(from..y) = lengths[c]
    BY <2>1, FS_Interval
  <2> QED  BY <2>2 DEF from
<1>7. \A k \in by \cup {c} :
        IF exactly THEN Cardinality(Of(longer, y, k)) = lengths[k]
        ELSE Cardinality(Of(longer, y, k)) <= lengths[k]
  <2> HIDE DEF longer, y, Of
  <2> QED  BY <1>1, <1>4, <1>5, <1>6
<1> HIDE DEF longer
<1> QED  BY <1>3, <1>7 DEF Shared

-----------------------------------------------------------------------------
LEMMA RestingIs == Resting \in Carried /\ Resting.op = "none"
BY DEF Resting, Carried

LEMMA CarriedIs ==
  ASSUME NEW s \in Carried
  PROVE  /\ s.op \in {"none", "extend", "settle", "return", "apply", "mark"}
         /\ s.op = "none" <=> s = Resting
         /\ s.op = "extend" => s.c \in Charges /\ s.t \in Terms
         /\ s.op \in {"settle", "apply"} => s.c \in Charges
         /\ s.op = "apply" => s.rental \in RentalStates /\ s.end \in Nat /\ s.settled \in BOOLEAN
BY DEF Carried, Resting

(* The rows stay, the clock may move on, and one handler carries s now.      *)
LEMMA OnlyCarries ==
  ASSUME Owed, NEW h \in Threads, NEW s \in Carried, Carry(h, s),
         UNCHANGED <<now, rentalRow, chargeRows, nextStart, overlap>>,
         Grounded(s, charge, Applied, term),
         s.op = "extend" => \A g \in Threads : ~(work[g].op = "extend" /\ work[g].c = s.c),
         ~overlap => /\ s # Resting => \A g \in Threads \ {h} : work[g] = Resting
                     /\ s.op = "apply" => /\ s.rental = rental /\ s.end = end
                                          /\ ~s.settled => applied[s.c] = {}
                     /\ s.op = "mark" => end <= now
  PROVE  Owed'
<1>1. work \in [Threads -> Carried] /\ work' = [work EXCEPT ![h] = s]
  BY DEF Owed, ExtTypeOK, Carry
<1>2. \A g \in Threads : work'[g] = IF g = h THEN s ELSE work[g]
  BY <1>1
<1>3. /\ UNCHANGED <<now, rental, end, charge, atYooKassa, term, applied, opened,
                     nextStart, overlap>>
      /\ Applied' = Applied
  BY DEF rentalRow, chargeRows, Applied
<1>4. ExtTypeOK'
  BY <1>1, <1>3 DEF Owed, ExtTypeOK
<1>5. \A g \in Threads : Grounded(work'[g], charge, Applied, term)
  BY <1>2 DEF Owed
<1>6. \A g \in Threads : Grounded(work[g], charge, Applied, term)'
  BY <1>3, <1>5 DEF Grounded
<1>7. Apart'
  BY <1>2 DEF Owed, Apart
<1>8. ~overlap => InTurn'
  BY <1>2, <1>3, RestingIs, CarriedIs DEF Owed, InTurn
<1>9. Shared(end, Applied, term, ~overlap)'
  BY <1>3 DEF Owed
<1> QED  BY <1>3, <1>4, <1>6, <1>7, <1>8, <1>9 DEF Owed

(* Only work at h changes, and h rests.                                      *)
LEMMA Rests ==
  ASSUME Owed, NEW h \in Threads, Rest(h),
         UNCHANGED <<now, rentalRow, chargeRows, nextStart, overlap>>
  PROVE  Owed'
<1>1. Carry(h, Resting)
  BY DEF Carry, Rest
<1>2. Grounded(Resting, charge, Applied, term)
  BY RestingIs DEF Grounded
<1> QED  BY <1>1, <1>2, RestingIs, OnlyCarries

LEMMA BeginsAlone ==
  ASSUME Owed, NEW h, MayBegin(h), ~overlap
  PROVE  \A g \in Threads : work[g] = Resting
BY DEF MayBegin

LEMMA StartExtendOwed ==
  ASSUME Owed, NEW h \in Threads, NEW c \in Charges, NEW t \in Terms, StartExtend(h, c, t)
  PROVE  Owed'
<1> DEFINE s == [op |-> "extend", c |-> c, t |-> t]
<1>1. s \in Carried /\ s.op = "extend" /\ s.c = c
  BY DEF Carried
<1>2. /\ charge[c] = "none" /\ \A g \in Threads : ~(work[g].op = "extend" /\ work[g].c = c)
      /\ Carry(h, s) /\ UNCHANGED <<now, rentalRow, chargeRows, nextStart, overlap>>
      /\ MayBegin(h)
  BY DEF StartExtend, Fresh
<1>3. Grounded(s, charge, Applied, term)
  BY <1>1, <1>2 DEF Grounded
<1> HIDE DEF s
<1> QED  BY <1>1, <1>2, <1>3, BeginsAlone, OnlyCarries

LEMMA StartSettleOwed ==
  ASSUME Owed, NEW h \in Threads, NEW c \in Charges, StartSettle(h, c)
  PROVE  Owed'
<1> DEFINE s == [op |-> "settle", c |-> c]
<1>1. s \in Carried /\ s.op = "settle" /\ s.c = c
  BY DEF Carried
<1>2. /\ charge[c] # "none" /\ MayBegin(h)
      /\ Carry(h, s) /\ UNCHANGED <<now, rentalRow, chargeRows, nextStart, overlap>>
  BY DEF StartSettle
<1>3. Grounded(s, charge, Applied, term)
  BY <1>1, <1>2 DEF Grounded
<1> HIDE DEF s
<1> QED  BY <1>1, <1>2, <1>3, BeginsAlone, OnlyCarries

LEMMA StartMarkOwed ==
  ASSUME Owed, StartMark
  PROVE  Owed'
<1> DEFINE s == [op |-> "mark"]
<1>1. s \in Carried /\ s.op = "mark" /\ Marker \in Threads
  BY DEF Carried, Threads
<1>2. /\ end <= now /\ MayBegin(Marker)
      /\ Carry(Marker, s) /\ UNCHANGED <<now, rentalRow, chargeRows, nextStart, overlap>>
  BY DEF StartMark
<1>3. Grounded(s, charge, Applied, term)
  BY <1>1 DEF Grounded
<1> HIDE DEF s
<1> QED  BY <1>1, <1>2, <1>3, BeginsAlone, OnlyCarries

LEMMA StartGiveBackOwed ==
  ASSUME Owed, NEW h \in Threads, StartGiveBack(h)
  PROVE  Owed'
<1> DEFINE s == [op |-> "return"]
<1>1. s \in Carried /\ s.op = "return"
  BY DEF Carried
<1>2. /\ MayBegin(h)
      /\ Carry(h, s) /\ UNCHANGED <<now, rentalRow, chargeRows, nextStart, overlap>>
  BY DEF StartGiveBack
<1>3. Grounded(s, charge, Applied, term)
  BY <1>1 DEF Grounded
<1> HIDE DEF s
<1> QED  BY <1>1, <1>2, <1>3, BeginsAlone, OnlyCarries

(* What the handler has read of the rental is covered by other payments.     *)
LEMMA ReadRentalOwed ==
  ASSUME Owed, NEW h \in Threads, ReadRental(h)
  PROVE  Owed'
<1> DEFINE c == work[h].c
           s == [op |-> "apply", c |-> c, rental |-> rental, end |-> end,
                 settled |-> applied[c] # {}]
<1>1. /\ work[h].op = "settle" /\ work[h] \in Carried /\ c \in Charges
      /\ charge[c] # "none"
  BY CarriedIs DEF Owed, ExtTypeOK, ReadRental, Grounded
<1>2. s \in Carried /\ s.op = "apply" /\ s.c = c /\ s.end = end /\ s.rental = rental
      /\ (s.settled <=> applied[c] # {})
  BY <1>1 DEF Carried, Owed, ExtTypeOK
<1>3. Carry(h, s) /\ UNCHANGED <<now, rentalRow, chargeRows, nextStart, overlap>>
  BY DEF ReadRental
<1>4. ASSUME applied[c] = {} PROVE Shared(end, Applied \ {c}, term, FALSE)
  <2>1. Applied \ {c} = Applied
    BY <1>4 DEF Applied
  <2>2. /\ end \in Nat /\ overlap \in BOOLEAN /\ \A k \in Applied : term[k] \in Nat
        /\ Shared(end, Applied, term, ~overlap)
    BY DEF Owed, ExtTypeOK, Applied
  <2> QED  BY <2>1, <2>2, ShareLoosely
<1>5. Grounded(s, charge, Applied, term)
  BY <1>1, <1>2, <1>4 DEF Grounded, Owed
<1>6. ~overlap => \A g \in Threads \ {h} : work[g] = Resting
  BY <1>1, RestingIs DEF Owed, InTurn
<1> HIDE DEF s, c
<1> QED  BY <1>2, <1>3, <1>5, <1>6, OnlyCarries

LEMMA ExtendCommittedOwed ==
  ASSUME Owed, NEW h \in Threads, ExtendCommitted(h)
  PROVE  Owed'
<1> DEFINE c == work[h].c
<1>1. /\ work[h].op = "extend" /\ c \in Charges /\ work[h].t \in Nat
      /\ charge[c] = "none" /\ applied[c] = {}
  BY CarriedIs, TermsAssumption DEF Owed, ExtTypeOK, ExtendCommitted, Grounded
<1>2. /\ charge' = [charge EXCEPT ![c] = "PENDING"]
      /\ atYooKassa' = [atYooKassa EXCEPT ![c] = "pending"]
      /\ term' = [term EXCEPT ![c] = work[h].t] /\ opened' = Append(opened, c)
      /\ work' = [work EXCEPT ![h] = Resting]
      /\ UNCHANGED <<now, rental, end, applied, nextStart, overlap>>
  BY DEF ExtendCommitted, Rest, rentalRow
<1>3. ExtTypeOK'
  BY <1>1, <1>2, RestingIs DEF Owed, ExtTypeOK
<1>4. Applied' = Applied /\ c \notin Applied /\ Applied \subseteq Charges
  BY <1>1, <1>2 DEF Applied
<1>5. \A k \in Applied : term'[k] = term[k]
  BY <1>2, <1>4 DEF Owed, ExtTypeOK
<1>6. Shared(end', Applied', term', ~overlap')
  <2>1. end \in Nat /\ Shared(end, Applied, term, ~overlap)
    BY DEF Owed, ExtTypeOK
  <2> QED  BY <1>2, <1>4, <1>5, <2>1, ShareSame
<1>7. ASSUME NEW g \in Threads PROVE Grounded(work'[g], charge', Applied', term')
  <2> DEFINE s == work[g]
  <2>1. CASE g = h
    BY <1>2, <2>1, RestingIs DEF Grounded, Owed, ExtTypeOK
  <2>2. CASE g # h
    <3>1. work'[g] = s /\ s \in Carried /\ Grounded(s, charge, Applied, term)
      BY <1>2, <2>2 DEF Owed, ExtTypeOK
    <3>2. s.op = "extend" => s.c # c
      BY <1>1, <2>2 DEF Owed, Apart
    <3>3. s.op \in {"extend", "settle", "apply"} => s.c \in Charges
      BY <3>1, CarriedIs
    <3>4. \A k \in Charges : charge'[k] = IF k = c THEN "PENDING" ELSE charge[k]
      BY <1>2 DEF Owed, ExtTypeOK
    <3>5. ASSUME s.op = "apply", ~s.settled
          PROVE  Shared(s.end, Applied \ {s.c}, term', FALSE)
      <4>1. s.end \in Nat /\ Shared(s.end, Applied \ {s.c}, term, FALSE)
        BY <3>1, <3>5, CarriedIs DEF Grounded
      <4> QED  BY <1>5, <4>1, ShareSame
    <3> QED  BY <1>4, <3>1, <3>2, <3>3, <3>4, <3>5 DEF Grounded
  <2> QED  BY <2>1, <2>2
<1>8. \A g \in Threads : work'[g] = IF g = h THEN Resting ELSE work[g]
  BY <1>2 DEF Owed, ExtTypeOK
<1>9. Apart' /\ (~overlap' => InTurn')
  BY <1>2, <1>8, RestingIs DEF Owed, Apart, InTurn
<1>10. \A k \in Charges : charge'[k] = "none" => applied'[k] = {}
  BY <1>2 DEF Owed, ExtTypeOK
<1>11. \A g \in Threads : Grounded(work[g], charge, Applied, term)'
  BY <1>7 DEF Grounded
<1> HIDE DEF c
<1> QED  BY <1>2, <1>3, <1>6, <1>9, <1>10, <1>11 DEF Owed

(* No payment is settled, the end stays; handlers may come to rest.          *)
LEMMA EndStays ==
  ASSUME Owed, ExtTypeOK', UNCHANGED <<end, charge, term, applied, overlap>>,
         \A g \in Threads : work'[g] \in {work[g], Resting},
         ~overlap => InTurn'
  PROVE  Owed'
<1>1. Applied' = Applied
  BY DEF Applied
<1>2. \A g \in Threads : Grounded(work'[g], charge, Applied, term)
  BY RestingIs DEF Owed, Grounded
<1>3. \A g \in Threads : Grounded(work[g], charge, Applied, term)'
  BY <1>1, <1>2 DEF Grounded
<1>4. Apart'
  BY RestingIs DEF Owed, Apart
<1>5. Shared(end', Applied', term', ~overlap')
  BY <1>1 DEF Owed
<1> QED  BY <1>3, <1>4, <1>5 DEF Owed

LEMMA LinkEndsOwed ==
  ASSUME Owed, NEW c \in Charges, LinkEnds(c)
  PROVE  Owed'
<1>1. /\ UNCHANGED <<now, rental, end, charge, term, applied, opened, nextStart, work, overlap>>
      /\ \E st \in {"succeeded", "canceled"} : atYooKassa' = [atYooKassa EXCEPT ![c] = st]
  BY DEF LinkEnds, rentalRow
<1>2. ExtTypeOK'
  BY <1>1 DEF Owed, ExtTypeOK
<1>3. ~overlap => InTurn'
  BY <1>1 DEF Owed, InTurn
<1> QED  BY <1>1, <1>2, <1>3, EndStays

LEMMA MarkedOwed ==
  ASSUME Owed, Marked
  PROVE  Owed'
<1>1. /\ work[Marker].op = "mark" /\ rental' = "OVERDUE" /\ Marker \in Threads
      /\ work' = [work EXCEPT ![Marker] = Resting]
      /\ UNCHANGED <<now, end, charge, atYooKassa, term, applied, opened, nextStart, overlap>>
  BY DEF Marked, Rest, chargeRows, Threads
<1>2. ExtTypeOK'
  BY <1>1, RestingIs DEF Owed, ExtTypeOK, RentalStates, Extendable
<1>3. \A g \in Threads : work'[g] = IF g = Marker THEN Resting ELSE work[g]
  BY <1>1 DEF Owed, ExtTypeOK
<1>4. ASSUME ~overlap PROVE InTurn'
  <2>1. end <= now /\ \A g \in Threads \ {Marker} : work[g] = Resting
    BY <1>1, <1>4, RestingIs DEF Owed, InTurn
  <2> QED  BY <1>1, <1>3, <2>1, RestingIs DEF InTurn
<1> QED  BY <1>1, <1>2, <1>3, <1>4, EndStays

LEMMA GaveBackOwed ==
  ASSUME Owed, NEW h \in Threads, GaveBack(h)
  PROVE  Owed'
<1>1. /\ work[h].op = "return" /\ rental' \in {rental, "RETURN_IN_PROGRESS"}
      /\ work' = [work EXCEPT ![h] = Resting]
      /\ UNCHANGED <<now, end, charge, atYooKassa, term, applied, opened, nextStart, overlap>>
  BY DEF GaveBack, Rest, chargeRows
<1>2. ExtTypeOK'
  BY <1>1, RestingIs DEF Owed, ExtTypeOK, RentalStates, Extendable
<1>3. \A g \in Threads : work'[g] = IF g = h THEN Resting ELSE work[g]
  BY <1>1 DEF Owed, ExtTypeOK
<1>4. ASSUME ~overlap PROVE InTurn'
  <2>1. /\ \A g \in Threads \ {h} : work[g] = Resting
        /\ rental = "OVERDUE" => end <= now
    BY <1>1, <1>4, RestingIs DEF Owed, InTurn
  <2> QED  BY <1>1, <1>3, <2>1, RestingIs DEF InTurn
<1> QED  BY <1>1, <1>2, <1>3, <1>4, EndStays

LEMMA OthersOwed ==
  ASSUME Owed, RentalEnds \/ NextBooked \/ NextLeaves \/ Tick
  PROVE  Owed'
<1>1. UNCHANGED <<end, charge, atYooKassa, term, applied, opened, work, overlap>>
  BY DEF RentalEnds, NextBooked, NextLeaves, Tick, chargeRows, rentalRow
<1> DEFINE Fine == /\ rental' \in RentalStates /\ now' \in 0..LastTick /\ nextStart' \in Nat
                   /\ now <= now'
<1>2. Fine
  <2> USE TermsAssumption DEF Owed, ExtTypeOK
  <2>1. CASE RentalEnds
    BY <2>1 DEF RentalEnds, RentalStates, Extendable
  <2>2. CASE NextBooked
    <3>1. nextStart' \in NextStarts /\ UNCHANGED <<now, rental>>
      BY <2>2 DEF NextBooked, rentalRow
    <3> QED  BY <3>1
  <2>3. CASE NextLeaves
    BY <2>3 DEF NextLeaves, rentalRow
  <2>4. CASE Tick
    BY <2>4 DEF Tick, rentalRow
  <2> QED  BY <2>1, <2>2, <2>3, <2>4
<1>3. ExtTypeOK'
  BY <1>1, <1>2 DEF Owed, ExtTypeOK
<1>4. ASSUME ~overlap PROVE InTurn'
  <2>1. InTurn /\ end \in Nat /\ now \in Nat /\ now' \in Nat
    BY <1>2, <1>4, TermsAssumption DEF Owed, ExtTypeOK
  <2>2. CASE rental' = rental
    BY <1>1, <1>2, <2>1, <2>2 DEF InTurn
  <2>3. CASE rental' # rental
    <3>1. rental' \in {"COMPLETED", "INCIDENT"} /\ \A g \in Threads : work[g] = Resting
      BY <1>4, <2>3 DEF RentalEnds, NextBooked, NextLeaves, Tick, chargeRows, rentalRow
    <3> QED  BY <1>1, <3>1, RestingIs DEF InTurn
  <2> QED  BY <2>2, <2>3
<1> QED  BY <1>1, <1>3, <1>4, EndStays

(* A payment that is applied takes the days after the end that was read.     *)
LEMMA SettleCommittedOwed ==
  ASSUME Owed, NEW h \in Threads, SettleCommitted(h)
  PROVE  Owed'
<1> DEFINE s == work[h]
           c == s.c
           paid == atYooKassa[c] = "succeeded"
           out == s.rental \in StillOut
           applies == paid /\ ~s.settled
           kind == IF out THEN "applied" ELSE "not_applied"
           shifts == applies /\ out
<1>1. /\ s.op = "apply" /\ s \in Carried /\ c \in Charges /\ s.end \in Nat
      /\ s.rental \in RentalStates /\ s.settled \in BOOLEAN
      /\ Grounded(s, charge, Applied, term)
  BY CarriedIs DEF Owed, ExtTypeOK, SettleCommitted
<1>2. /\ charge' = [charge EXCEPT ![c] = IF paid THEN "CAPTURED" ELSE "FAILED"]
      /\ IF shifts THEN Shift(s) ELSE UNCHANGED <<rental, end>>
      /\ applied' = IF applies THEN [applied EXCEPT ![c] = @ \cup {kind}] ELSE applied
      /\ work' = [work EXCEPT ![h] = Resting]
      /\ UNCHANGED <<now, atYooKassa, term, opened, nextStart, overlap>>
  BY DEF SettleCommitted, Rest, rentalRow
<1>3. /\ \A g \in Threads : work'[g] = IF g = h THEN Resting ELSE work[g]
      /\ term[c] \in Nat /\ \A k \in Charges : term[k] \in Nat
      /\ \A k \in Charges : charge'[k] = "none" => charge[k] = "none" /\ k # c
      /\ \A k \in Charges : charge[k] = "none" /\ k # c => charge'[k] = "none"
      /\ \A k \in Charges : applied'[k] = IF applies /\ k = c THEN applied[k] \cup {kind}
                                           ELSE applied[k]
  BY <1>1, <1>2 DEF Owed, ExtTypeOK
<1>4. /\ end' \in Nat /\ end' >= FirstEnd /\ rental' \in {rental, "ACTIVE"}
      /\ shifts => /\ end' = s.end + term[c]
                   /\ rental' = IF s.rental = "OVERDUE" /\ end' > now THEN "ACTIVE" ELSE rental
      /\ ~shifts => end' = end /\ rental' = rental
  BY <1>1, <1>2, <1>3, TermsAssumption DEF Owed, ExtTypeOK, Shift, Grounded
<1>5. ExtTypeOK'
  <2>1. rental' \in RentalStates
    BY <1>4 DEF Owed, ExtTypeOK, RentalStates, Extendable
  <2>2. charge' \in [Charges -> {"none", "PENDING", "CAPTURED", "FAILED"}]
    BY <1>2 DEF Owed, ExtTypeOK
  <2>3. applied' \in [Charges -> SUBSET {"applied", "not_applied"}]
    BY <1>2 DEF Owed, ExtTypeOK
  <2>4. work' \in [Threads -> Carried]
    BY <1>2, RestingIs DEF Owed, ExtTypeOK
  <2> HIDE DEF s, c, paid, applies, kind, shifts
  <2> QED  BY <1>2, <1>4, <2>1, <2>2, <2>3, <2>4 DEF Owed, ExtTypeOK
<1>6. /\ Applied \subseteq Charges /\ Applied' \subseteq Charges /\ Applied \subseteq Applied'
      /\ shifts => Applied' = Applied \cup {c}
      /\ ~shifts => Applied' = Applied
  <2>1. \A k \in Charges : "applied" \in applied'[k]
                           <=> "applied" \in applied[k] \/ (shifts /\ k = c)
    <3>1. applies => ("applied" = kind <=> out)
      OBVIOUS
    <3> HIDE DEF s, c, paid, applies, kind, out
    <3> QED  BY <1>3, <3>1
  <2> HIDE DEF shifts, c
  <2> QED  BY <1>1, <2>1 DEF Applied
<1>7. Shared(end', Applied', term', ~overlap')
  <2>1. CASE ~shifts
    BY <1>2, <1>4, <1>6, <2>1 DEF Owed
  <2>2. CASE shifts /\ overlap
    <3>1. s.end >= FirstEnd /\ Shared(s.end, Applied \ {c}, term, FALSE)
      BY <1>1, <2>2 DEF Grounded
    <3>2. Shared(s.end + term[c], (Applied \ {c}) \cup {c}, term, FALSE)
      BY <1>1, <1>3, <3>1, ShareMore
    <3>3. (Applied \ {c}) \cup {c} = Applied \cup {c}
      OBVIOUS
    <3> QED  BY <1>2, <1>4, <1>6, <2>2, <3>2, <3>3
  <2>3. CASE shifts /\ ~overlap
    <3>1. s.end = end /\ applied[c] = {}
      BY <1>1, <2>3 DEF Owed, InTurn
    <3>2. c \notin Applied /\ end >= FirstEnd /\ end \in Nat
          /\ Shared(end, Applied, term, TRUE)
      BY <2>3, <3>1 DEF Applied, Owed, ExtTypeOK
    <3>3. Shared(end + term[c], Applied \cup {c}, term, TRUE)
      BY <1>3, <3>2, ShareMore
    <3> QED  BY <1>2, <1>4, <1>6, <2>3, <3>1, <3>3
  <2>4. overlap \in BOOLEAN
    BY DEF Owed, ExtTypeOK
  <2> QED  BY <2>1, <2>2, <2>3, <2>4
<1>8. ASSUME NEW g \in Threads PROVE Grounded(work'[g], charge', Applied', term')
  <2>1. CASE g = h
    BY <1>3, <2>1, RestingIs DEF Grounded
  <2>2. CASE g # h
    <3> DEFINE r == work[g]
    <3>1. work'[g] = r /\ r \in Carried /\ Grounded(r, charge, Applied, term)
      BY <1>3, <2>2 DEF Owed, ExtTypeOK
    <3>2. r.op \in {"extend", "settle", "apply"} => r.c \in Charges
      BY <3>1, CarriedIs
    <3>3. r.op = "extend" => charge'[r.c] = "none"
      BY <1>1, <1>3, <3>1, <3>2 DEF Grounded
    <3>4. r.op \in {"settle", "apply"} => charge'[r.c] # "none"
      BY <1>3, <3>1, <3>2 DEF Grounded
    <3>5. ASSUME r.op = "apply", ~r.settled
          PROVE  Shared(r.end, Applied' \ {r.c}, term', FALSE)
      <4>1. r.end \in Nat /\ Shared(r.end, Applied \ {r.c}, term, FALSE)
        BY <3>1, <3>5, CarriedIs DEF Grounded
      <4>2. /\ Applied \ {r.c} \subseteq Applied' \ {r.c}
            /\ \A k \in Applied' \ {r.c} : term[k] \in Nat
        BY <1>3, <1>6
      <4>3. Shared(r.end, Applied' \ {r.c}, term, FALSE)
        BY <4>1, <4>2, ShareWider
      <4> QED  BY <1>2, <4>3
    <3>6. r.op = "apply" => r.end >= FirstEnd
      BY <3>1 DEF Grounded
    <3> HIDE DEF r
    <3> QED  BY <3>1, <3>3, <3>4, <3>5, <3>6 DEF Grounded
  <2> QED  BY <2>1, <2>2
<1>9. Apart'
  BY <1>3, RestingIs DEF Owed, Apart
<1>10. ASSUME ~overlap PROVE InTurn'
  <2>1. /\ \A g \in Threads \ {h} : work[g] = Resting
        /\ s.rental = rental
        /\ rental = "OVERDUE" => end <= now
    BY <1>1, <1>10, RestingIs DEF Owed, InTurn
  <2>2. \A g \in Threads : work'[g] = Resting
    BY <1>3, <2>1
  <2>3. rental' = "OVERDUE" => end' <= now'
    <3>1. now \in Int /\ end' \in Int /\ now' = now
      BY <1>2, <1>4, TermsAssumption DEF Owed, ExtTypeOK
    <3>2. CASE shifts
      <4>1. s.rental = rental
        BY <2>1
      <4>2. rental' = IF s.rental = "OVERDUE" /\ end' > now THEN "ACTIVE" ELSE rental
        <5> HIDE DEF s, c, shifts
        <5> QED  BY <1>4, <3>2
      <4> HIDE DEF s, c, shifts
      <4> QED  BY <3>1, <4>1, <4>2
    <3>3. CASE ~shifts
      <4>1. rental = "OVERDUE" => end <= now
        BY <2>1
      <4> HIDE DEF s, c, shifts
      <4> QED  BY <1>4, <3>1, <3>3, <4>1
    <3> QED  BY <3>2, <3>3
  <2> QED  BY <2>2, <2>3, RestingIs DEF InTurn
<1>11. \A k \in Charges : charge'[k] = "none" => applied'[k] = {}
  BY <1>3 DEF Owed
<1>12. \A g \in Threads : Grounded(work[g], charge, Applied, term)'
  BY <1>8 DEF Grounded
<1>13. overlap' = overlap
  BY <1>2
<1> HIDE DEF s, c, paid, applies, kind, shifts, out
<1> QED  BY <1>4, <1>5, <1>7, <1>9, <1>10, <1>11, <1>12, <1>13 DEF Owed

LEMMA InitOwed == ExtInit => Owed
<1> SUFFICES ASSUME ExtInit PROVE Owed
  OBVIOUS
<1>1. ExtTypeOK
  BY RestingIs, TermsAssumption, ThreadsAssumption
     DEF ExtInit, ExtTypeOK, RentalStates, Extendable
<1>2. Applied = {} /\ end = FirstEnd
  BY DEF ExtInit, Applied
<1>3. Shared(end, Applied, term, ~overlap)
  BY <1>2, ShareNone
<1>4. \A h \in Threads : Grounded(work[h], charge, Applied, term)
  BY RestingIs DEF ExtInit, Grounded
<1>5. Apart /\ InTurn /\ end >= FirstEnd
  BY <1>2, RestingIs, TermsAssumption DEF ExtInit, Apart, InTurn
<1> QED  BY <1>1, <1>3, <1>4, <1>5 DEF Owed, ExtInit

LEMMA NextOwed == Owed /\ [ExtNext]_extVars => Owed'
<1> SUFFICES ASSUME Owed, [ExtNext]_extVars PROVE Owed'
  OBVIOUS
<1>1. CASE MarkerStep
  BY <1>1, StartMarkOwed, MarkedOwed DEF MarkerStep
<1>2. ASSUME NEW h \in Clients \cup {Sweeper}, Begins(h) PROVE Owed'
  <2>1. h \in Threads
    BY DEF Threads
  <2> QED  BY <1>2, <2>1, StartExtendOwed, StartSettleOwed, StartGiveBackOwed DEF Begins
<1>3. ASSUME NEW h \in Clients \cup {Sweeper}, Proceeds(h) PROVE Owed'
  <2>1. h \in Threads
    BY DEF Threads
  <2>2. ExtendFailed(h) => Owed'
    BY <2>1, Rests DEF ExtendFailed
  <2> QED  BY <1>3, <2>1, <2>2, ExtendCommittedOwed, ReadRentalOwed, SettleCommittedOwed,
              GaveBackOwed DEF Proceeds
<1>4. ASSUME NEW c \in Charges, LinkEnds(c) PROVE Owed'
  BY <1>4, LinkEndsOwed
<1>5. CASE RentalEnds \/ NextBooked \/ NextLeaves \/ Tick
  BY <1>5, OthersOwed
<1>6. CASE UNCHANGED extVars
  <2>1. UNCHANGED <<now, rental, end, charge, atYooKassa, term, applied, opened, nextStart,
                    work, overlap>>
    BY <1>6 DEF extVars
  <2>2. ExtTypeOK' /\ (~overlap => InTurn')
    BY <2>1 DEF Owed, ExtTypeOK, InTurn
  <2> QED  BY <2>1, <2>2, EndStays
<1> QED  BY <1>1, <1>2, <1>3, <1>4, <1>5, <1>6 DEF ExtNext

LEMMA DaysOwed == Owed => ExtTypeOK /\ EndIsPaidFor
<1> SUFFICES ASSUME Owed PROVE EndIsPaidFor
  BY DEF Owed
<1>1. overlap \in BOOLEAN /\ Shared(end, Applied, term, ~overlap)
  BY DEF Owed, ExtTypeOK
<1>2. ~overlap /\ rental = "OVERDUE" => end <= now
  BY DEF Owed, InTurn
<1>3. CASE overlap
  BY <1>1, <1>2, <1>3 DEF EndIsPaidFor, Shared
<1>4. CASE ~overlap
  BY <1>1, <1>2, <1>4 DEF EndIsPaidFor, Shared
<1> QED  BY <1>1, <1>3, <1>4

(* No interleaving of settlements gives a client a day that was not paid for; *)
(* with handlers one at a time the days paid for are exactly those of the     *)
(* rental: for any payments, terms and threads.                             *)
THEOREM DaysArePaidFor == ExtSpec => [](ExtTypeOK /\ EndIsPaidFor)
<1> QED  BY DaysOwed, InitOwed, NextOwed, PTL DEF ExtSpec
=============================================================================
