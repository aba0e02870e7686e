------------------------- MODULE PaymentFlowProofs -------------------------
(***************************************************************************)
(* Proofs about PaymentFlow for any number of reservations, links and       *)
(* handlers, any interleaving and any failures: types, PaidIsBacked and     *)
(* ReturnedIsTrue.                                                          *)
(* Further down, for handlers that run one at a time: SettledStays, and the  *)
(* refinement of MoneyPromise (KeepsPromise).                               *)
(*                                                                         *)
(* PaidIsBacked is not inductive: a handler may commit what it loaded or    *)
(* heard long ago.  Grounded says that whatever anybody believes - a row, a *)
(* copy in a session, the body of a notification, the provider - is backed  *)
(* by what happened at the provider.  What happened (notices, returned)     *)
(* only grows, so a belief once backed stays backed, however stale.         *)
(***************************************************************************)
EXTENDS PaymentFlow, TLAPS

(* The link was paid, according to the history of notices N.                *)
PaidIn(p, N) ==
  <<"succeeded", p>> \in N \/ <<"waiting_for_capture", p>> \in N

RowTrue(st, p, N, R) ==
  /\ st \in PaidStatus => PaidIn(p, N)
  /\ st \in {"REFUNDED", "CANCELLED"} => R[p]

BookingTrue(st, r, N) ==
  st \in {"PAYMENT_AUTHORIZED", "CONFIRMED"} => \E p \in PaymentsOf(r) : PaidIn(p, N)

(* The copies in a session, and what it may write.                          *)
Believes(s, N, R) ==
  /\ \A p \in Payments : RowTrue(s.row[p], p, N, R)
  /\ \A r \in Reservations : BookingTrue(s.booking[r], r, N)
  /\ \A r \in s.dirtyR : s.booking[r] \in ReservationStatus

(* Its place in the handler.                                                *)
Works(s, N) ==
  /\ IF s.op = "webhook" THEN s.at = "sync" /\ <<s.body, s.p>> \in N
                         ELSE s.body = "NONE"
  /\ s.at \in {"sync", "resolve", "create", "refund"} => s.r \in Reservations
  /\ s.at = "refund" => s.p \in Payments

ProviderTrue ==
  \A p \in Payments :
    provider[p] \in {"succeeded", "waiting_for_capture"} => PaidIn(p, notices)

RowsTrue ==
  /\ \A p \in Payments : RowTrue(payment[p], p, notices, returned)
  /\ \A r \in Reservations : BookingTrue(reservation[r], r, notices)

SessionsTrue ==
  \A h \in Handlers : /\ Believes(session[h], notices, returned)
                      /\ Works(session[h], notices)

Grounded == ProviderTrue /\ RowsTrue /\ SessionsTrue

IInv == TypeOK /\ Grounded

(* t is a session in the same place as s. *)
SamePlace(t, s) ==
  /\ t.at = s.at /\ t.op = s.op /\ t.r = s.r /\ t.p = s.p /\ t.body = s.body
  /\ t.todoP = s.todoP /\ t.todoR = s.todoR

(* What happened at the provider stays.                                     *)
HistoryGrows ==
  /\ notices \subseteq notices'
  /\ \A p \in Payments : returned[p] => returned'[p]

-----------------------------------------------------------------------------
(* Lemmas about the operators.                                              *)

LEMMA MapStatusType ==
  ASSUME NEW st \in ProviderStatus \cup {"NONE"}
  PROVE  /\ MapStatus(st) \in PaymentStatus \cup {"NONE"}
         /\ MapStatus(st) \in PaidStatus => st \in {"succeeded", "waiting_for_capture"}
         /\ MapStatus(st) \notin {"REFUNDED", "CANCELLED"}
  BY DEF MapStatus, ProviderStatus, PaymentStatus, PaidStatus, Unsettled, Settled

LEMMA IdleTrue ==
  ASSUME NEW N, NEW R
  PROVE  Idle \in Sessions /\ Believes(Idle, N, R) /\ Works(Idle, N)
  BY DEF Idle, Sessions, Believes, Works, RowTrue, BookingTrue, PaidStatus

(* A closing status needs no payment; a returned row needs the return.      *)
LEMMA SetBookingTrue ==
  ASSUME NEW s \in Sessions, NEW r \in Reservations, NEW st \in ReservationStatus,
         NEW N, NEW R, Believes(s, N, R), BookingTrue(st, r, N)
  PROVE  /\ SetBooking(s, r, st) \in Sessions
         /\ Believes(SetBooking(s, r, st), N, R)
         /\ SamePlace(SetBooking(s, r, st), s)
<1> DEFINE t == SetBooking(s, r, st)
<1>1. t \in Sessions /\ SamePlace(t, s)
  BY DEF SetBooking, Sessions, SamePlace
<1>2. /\ t.row = s.row /\ t.dirtyR = s.dirtyR \cup {r}
      /\ \A q \in Reservations : t.booking[q] = IF q = r THEN st ELSE s.booking[q]
  BY DEF SetBooking, Sessions
<1>3. s.dirtyR \subseteq Reservations
  BY DEF Sessions
<1> HIDE DEF t
<1>4. Believes(t, N, R)
  BY <1>2, <1>3 DEF Believes
<1>5. QED
  BY <1>1, <1>4 DEF t

LEMMA SetRowTrue ==
  ASSUME NEW s \in Sessions, NEW p \in Payments, NEW st \in PaymentStatus,
         NEW N, NEW R, Believes(s, N, R), RowTrue(st, p, N, R)
  PROVE  /\ SetRow(s, p, st) \in Sessions
         /\ Believes(SetRow(s, p, st), N, R)
         /\ SamePlace(SetRow(s, p, st), s)
<1> DEFINE t == SetRow(s, p, st)
<1>1. t \in Sessions /\ SamePlace(t, s)
  BY DEF SetRow, Sessions, SamePlace
<1>2. /\ t.booking = s.booking /\ t.dirtyR = s.dirtyR
      /\ \A q \in Payments : t.row[q] = IF q = p THEN st ELSE s.row[q]
  BY DEF SetRow, Sessions
<1> HIDE DEF t
<1>3. Believes(t, N, R)
  BY <1>2 DEF Believes
<1>4. QED
  BY <1>1, <1>3 DEF t

LEMMA AppliedTrue ==
  ASSUME NEW s \in Sessions, NEW r \in Reservations, NEW N, NEW R,
         NEW news \in [Payments -> PaymentStatus \cup {"NONE"}],
         Believes(s, N, R),
         \A p \in PaymentsOf(r) : RowTrue(news[p], p, N, R)
  PROVE  /\ Applied(s, r, news) \in Sessions
         /\ Believes(Applied(s, r, news), N, R)
         /\ SamePlace(Applied(s, r, news), s)
<1> DEFINE took == {p \in PaymentsOf(r) : Applies(s.row[p], news[p])}
           moved == [s EXCEPT
                       !.row = [p \in Payments |-> IF p \in took THEN news[p] ELSE @[p]],
                       !.dirtyP = @ \cup {p \in took : news[p] # s.row[p]}]
           pulled == /\ s.booking[r] = "AWAITING_PAYMENT"
                     /\ \E p \in took : news[p] \in PaidStatus
<1>1. moved \in Sessions /\ SamePlace(moved, s)
  BY DEF Sessions, PaymentsOf, SamePlace
<1>2. /\ moved.row = [p \in Payments |-> IF p \in took THEN news[p] ELSE s.row[p]]
      /\ moved.booking = s.booking /\ moved.dirtyR = s.dirtyR
  BY DEF Sessions
<1>3. Believes(moved, N, R)
  BY <1>2 DEF Believes
<1>4. ASSUME pulled PROVE BookingTrue("PAYMENT_AUTHORIZED", r, N)
  BY <1>4 DEF RowTrue, BookingTrue
<1>5. Applied(s, r, news) = IF pulled THEN SetBooking(moved, r, "PAYMENT_AUTHORIZED")
                                      ELSE moved
  BY DEF Applied
<1>6. "PAYMENT_AUTHORIZED" \in ReservationStatus
  BY DEF ReservationStatus, Open
<1> HIDE DEF pulled, moved
<1>7. CASE pulled
  BY <1>1, <1>3, <1>4, <1>5, <1>6, <1>7, SetBookingTrue DEF SamePlace
<1>8. CASE ~pulled
  BY <1>1, <1>3, <1>5, <1>8
<1>9. QED
  BY <1>7, <1>8

(* What the provider answers is true.                                       *)
LEMMA NewsTrue ==
  ASSUME TypeOK, ProviderTrue, NEW ps, NEW silent
  PROVE  /\ News(ps, silent) \in [Payments -> PaymentStatus \cup {"NONE"}]
         /\ \A p \in Payments : RowTrue(News(ps, silent)[p], p, notices, returned)
<1>1. \A p \in Payments : provider[p] \in ProviderStatus \cup {"NONE"}
  BY DEF TypeOK
<1>2. News(ps, silent) \in [Payments -> PaymentStatus \cup {"NONE"}]
  BY <1>1, MapStatusType DEF News
<1>3. ASSUME NEW p \in Payments
      PROVE  RowTrue(News(ps, silent)[p], p, notices, returned)
  BY <1>1, MapStatusType DEF News, RowTrue, ProviderTrue, PaidStatus
<1>4. QED
  BY <1>2, <1>3

LEMMA HeardTrue ==
  ASSUME TypeOK, ProviderTrue, NEW s \in Sessions, NEW r \in Reservations,
         NEW ps, NEW silent, Believes(s, notices, returned)
  PROVE  /\ Heard(s, r, ps, silent) \in Sessions
         /\ Believes(Heard(s, r, ps, silent), notices, returned)
         /\ SamePlace(Heard(s, r, ps, silent), s)
<1>1. \A p \in PaymentsOf(r) : p \in Payments
  BY DEF PaymentsOf
<1>2. QED
  BY <1>1, NewsTrue, AppliedTrue DEF Heard

(* A load copies true rows.                                                 *)
LEMMA LoadRowsTrue ==
  ASSUME TypeOK, RowsTrue, NEW s \in Sessions, NEW ps,
         Believes(s, notices, returned)
  PROVE  /\ LoadRows(s, ps) \in Sessions
         /\ Believes(LoadRows(s, ps), notices, returned)
         /\ SamePlace(LoadRows(s, ps), s)
<1> DEFINE t == LoadRows(s, ps)
<1>1. t \in Sessions /\ SamePlace(t, s)
  BY DEF LoadRows, Sessions, TypeOK, SamePlace
<1>2. /\ t.row = [p \in Payments |-> IF p \in ps THEN payment[p] ELSE s.row[p]]
      /\ t.booking = s.booking /\ t.dirtyR = s.dirtyR
  BY DEF LoadRows, Sessions
<1> HIDE DEF t
<1>3. Believes(t, notices, returned)
  BY <1>2 DEF Believes, RowsTrue
<1>4. QED
  BY <1>1, <1>3 DEF t

LEMMA LoadBookingsTrue ==
  ASSUME TypeOK, RowsTrue, NEW s \in Sessions, NEW rs,
         Believes(s, notices, returned)
  PROVE  /\ LoadBookings(s, rs) \in Sessions
         /\ Believes(LoadBookings(s, rs), notices, returned)
         /\ SamePlace(LoadBookings(s, rs), s)
<1> DEFINE t == LoadBookings(s, rs)
<1>1. t \in Sessions /\ SamePlace(t, s)
  BY DEF LoadBookings, Sessions, TypeOK, SamePlace
<1>2. /\ t.booking = [r \in Reservations |-> IF r \in rs THEN reservation[r]
                                                      ELSE s.booking[r]]
      /\ t.row = s.row /\ t.dirtyR = s.dirtyR /\ s.dirtyR \subseteq Reservations
  BY DEF LoadBookings, Sessions
<1>3. \A r \in Reservations : reservation[r] \in ReservationStatus
  BY DEF TypeOK
<1> HIDE DEF t
<1>4. Believes(t, notices, returned)
  BY <1>2, <1>3 DEF Believes, RowsTrue
<1>5. QED
  BY <1>1, <1>4 DEF t

-----------------------------------------------------------------------------
(* Lemmas about a step.                                                     *)

LEMMA BelievesGrows ==
  ASSUME NEW s \in Sessions, HistoryGrows, Believes(s, notices, returned)
  PROVE  Believes(s, notices', returned')
  BY DEF HistoryGrows, Believes, RowTrue, BookingTrue, PaidIn, PaymentsOf

LEMMA WorksGrows ==
  ASSUME NEW s \in Sessions, HistoryGrows, Works(s, notices)
  PROVE  Works(s, notices')
  BY DEF HistoryGrows, Works

RowTypes ==
  /\ reservation \in [Reservations -> ReservationStatus]
  /\ due \in [Reservations -> BOOLEAN]
  /\ payment \in [Payments -> PaymentStatus \cup {"NONE"}]

ProviderTypes ==
  /\ provider \in [Payments -> ProviderStatus \cup {"NONE"}]
  /\ returned \in [Payments -> BOOLEAN]
  /\ notices \subseteq ProviderStatus \X Payments

LEMMA CommitTrue ==
  ASSUME RowTypes, RowsTrue, HistoryGrows,
         NEW s \in Sessions, Believes(s, notices', returned'), Commit(s)
  PROVE  RowTypes' /\ RowsTrue'
<1>1. /\ s.row \in [Payments -> PaymentStatus \cup {"NONE"}]
      /\ s.booking \in [Reservations -> ReservationStatus \cup {"NONE"}]
  BY DEF Sessions
<1>2. RowTypes'
  BY <1>1 DEF RowTypes, Commit, Believes
<1>3. \A p \in Payments : RowTrue(payment'[p], p, notices', returned')
  BY DEF Commit, Believes, RowsTrue, RowTrue, HistoryGrows, PaidIn
<1>4. \A r \in Reservations : BookingTrue(reservation'[r], r, notices')
  BY DEF Commit, Believes, RowsTrue, BookingTrue, HistoryGrows, PaidIn, PaymentsOf
<1>5. QED
  BY <1>2, <1>3, <1>4 DEF RowsTrue

LEMMA RowsKept ==
  ASSUME RowTypes, RowsTrue, HistoryGrows, UNCHANGED rows
  PROVE  RowTypes' /\ RowsTrue'
  BY DEF RowTypes, RowsTrue, HistoryGrows, rows, RowTrue, BookingTrue, PaidIn, PaymentsOf

LEMMA SessionsKept ==
  ASSUME session \in [Handlers -> Sessions], SessionsTrue, HistoryGrows,
         UNCHANGED session
  PROVE  session' \in [Handlers -> Sessions] /\ SessionsTrue'
  BY BelievesGrows, WorksGrows DEF SessionsTrue

LEMMA GoTrue ==
  ASSUME session \in [Handlers -> Sessions], SessionsTrue, HistoryGrows,
         NEW h \in Handlers, NEW t \in Sessions,
         Believes(t, notices', returned'), Works(t, notices'), Go(h, t)
  PROVE  session' \in [Handlers -> Sessions] /\ SessionsTrue'
  BY BelievesGrows, WorksGrows DEF SessionsTrue, Go

LEMMA ProviderKept ==
  ASSUME ProviderTypes, ProviderTrue, UNCHANGED yookassa
  PROVE  ProviderTypes' /\ ProviderTrue' /\ HistoryGrows
  BY DEF ProviderTypes, ProviderTrue, HistoryGrows, yookassa, PaidIn

LEMMA FaultsType ==
  ASSUME faults \in 0..MaxFaults,
         UNCHANGED faults \/ \E kind : Fault(kind)
  PROVE  faults' \in 0..MaxFaults
  BY FaultsAssumption DEF Fault

LEMMA AnswerType ==
  ASSUME faults \in 0..MaxFaults, NEW silent, Answer(silent)
  PROVE  faults' \in 0..MaxFaults
  BY FaultsType DEF Answer

(* The invariant, part by part. *)
LEMMA Parts ==
  IInv <=> /\ RowTypes /\ RowsTrue
           /\ ProviderTypes /\ ProviderTrue
           /\ session \in [Handlers -> Sessions] /\ SessionsTrue
           /\ events \subseteq ProviderStatus \X Payments
           /\ faults \in 0..MaxFaults
  BY DEF IInv, Grounded, TypeOK, RowTypes, ProviderTypes

(* A handler that calls nobody moves to session t, and perhaps commits u.   *)
LEMMA QuietStep ==
  ASSUME IInv, UNCHANGED yookassa, faults' \in 0..MaxFaults,
         events' \subseteq ProviderStatus \X Payments,
         NEW h \in Handlers, NEW t \in Sessions, Go(h, t),
         Believes(t, notices, returned), Works(t, notices),
         \/ UNCHANGED rows
         \/ \E u \in Sessions : Commit(u) /\ Believes(u, notices, returned)
  PROVE  IInv'
<1>1. ProviderTypes' /\ ProviderTrue' /\ HistoryGrows
  BY Parts, ProviderKept
<1>2. RowTypes' /\ RowsTrue'
  BY <1>1, Parts, RowsKept, CommitTrue, BelievesGrows
<1>3. session' \in [Handlers -> Sessions] /\ SessionsTrue'
  BY <1>1, Parts, GoTrue, BelievesGrows, WorksGrows
<1>4. QED
  BY <1>1, <1>2, <1>3 DEF IInv, Grounded, TypeOK, RowTypes, ProviderTypes

(* The refund or cancellation of a link.                                    *)
LEMMA GiveBackTrue ==
  ASSUME ProviderTypes, ProviderTrue, faults \in 0..MaxFaults,
         NEW p \in Payments, NEW seen, NEW ok \in BOOLEAN, GiveBack(p, seen, ok)
  PROVE  /\ ProviderTypes' /\ ProviderTrue' /\ HistoryGrows
         /\ faults' \in 0..MaxFaults
         /\ ok => returned'[p]
<1>1. faults' \in 0..MaxFaults
  BY FaultsType DEF GiveBack
<1>2. CASE MoneyLeaves(p)
  <2>1. ProviderTypes'
    BY <1>2 DEF MoneyLeaves, ProviderTypes, ProviderStatus
  <2>2. HistoryGrows /\ returned'[p]
    BY <1>2 DEF MoneyLeaves, ProviderTypes, HistoryGrows
  <2>3. ProviderTrue'
    BY <1>2 DEF MoneyLeaves, ProviderTypes, ProviderTrue, PaidIn
  <2>4. QED
    BY <1>1, <2>1, <2>2, <2>3
<1>3. CASE ~ok /\ UNCHANGED yookassa
  BY <1>1, <1>3, ProviderKept
<1>4. QED
  BY <1>2, <1>3 DEF GiveBack

-----------------------------------------------------------------------------
(* Every action keeps the invariant.  First the starts of handlers.         *)

LEMMA OfSession ==
  ASSUME IInv, NEW h \in Handlers
  PROVE  /\ session[h] \in Sessions
         /\ Believes(session[h], notices, returned) /\ Works(session[h], notices)
         /\ TypeOK /\ RowsTrue /\ ProviderTrue /\ faults \in 0..MaxFaults
  BY DEF IInv, Grounded, SessionsTrue, TypeOK

LEMMA StartStep ==
  ASSUME IInv, NEW h \in Handlers, NEW op \in Operations \cup {"none", "tick"},
         NEW s \in Sessions, Believes(s, notices, returned),
         Works([s EXCEPT !.op = op], notices), Start(h, op, s)
  PROVE  IInv'
<1> DEFINE t == [s EXCEPT !.op = op]
<1>1. t \in Sessions /\ Believes(t, notices, returned)
  BY DEF Sessions, Believes
<1>2. UNCHANGED <<rows, yookassa, events, faults>> /\ Go(h, t)
  BY DEF Start, Go
<1>3. events' \subseteq ProviderStatus \X Payments /\ faults' \in 0..MaxFaults
  BY <1>2, Parts
<1> HIDE DEF t
<1>4. QED
  BY <1>1, <1>2, <1>3, QuietStep DEF t

(* A fresh session about reservation r, after its queries.                  *)
LEMMA LoadedTrue ==
  ASSUME IInv, NEW r \in Reservations, NEW at \in {"sync", "resolve"}
  PROVE  LET s == LoadRows(LoadBookings([Idle EXCEPT !.at = at, !.r = r], {r}),
                           PaymentsOf(r))
         IN /\ s \in Sessions /\ Believes(s, notices, returned)
            /\ s.at = at /\ s.r = r /\ s.body = "NONE"
<1> DEFINE x == [Idle EXCEPT !.at = at, !.r = r]
           y == LoadBookings(x, {r})
<1>1. /\ x \in Sessions /\ Believes(x, notices, returned)
      /\ x.at = at /\ x.r = r /\ x.body = "NONE"
  BY IdleTrue DEF Sessions, Believes, Idle
<1>2. TypeOK /\ RowsTrue
  BY DEF IInv, Grounded
<1> HIDE DEF x
<1>3. y \in Sessions /\ Believes(y, notices, returned) /\ SamePlace(y, x)
  BY <1>1, <1>2, LoadBookingsTrue
<1> HIDE DEF y
<1>4. /\ LoadRows(y, PaymentsOf(r)) \in Sessions
      /\ Believes(LoadRows(y, PaymentsOf(r)), notices, returned)
      /\ SamePlace(LoadRows(y, PaymentsOf(r)), y)
  BY <1>2, <1>3, LoadRowsTrue
<1>5. QED
  BY <1>1, <1>3, <1>4 DEF SamePlace, x, y

(* Naming the operation does not move a session out of its place.           *)
LEMMA StartWorks ==
  ASSUME NEW s \in Sessions, s.at \in {"sync", "resolve", "reconcile"},
         s.body = "NONE", s.at # "reconcile" => s.r \in Reservations,
         NEW op, op # "webhook"
  PROVE  Works([s EXCEPT !.op = op], notices)
  BY DEF Works, Sessions

LEMMA StartPayKeeps ==
  ASSUME IInv, NEW h \in Handlers, NEW r \in Reservations, StartPay(h, r)
  PROVE  IInv'
<1> DEFINE s == LoadRows(LoadBookings([Idle EXCEPT !.at = "sync", !.r = r], {r}),
                         PaymentsOf(r))
<1>1. Start(h, "pay", s) /\ "pay" \in Operations
  BY DEF StartPay
<1>2. /\ s \in Sessions /\ Believes(s, notices, returned)
      /\ s.at = "sync" /\ s.r = r /\ s.body = "NONE"
  BY LoadedTrue
<1> HIDE DEF s
<1>3. Works([s EXCEPT !.op = "pay"], notices)
  BY <1>2, StartWorks
<1>4. QED
  BY <1>1, <1>2, <1>3, StartStep

LEMMA StartCancelKeeps ==
  ASSUME IInv, NEW h \in Handlers, NEW r \in Reservations, StartCancel(h, r)
  PROVE  IInv'
<1> DEFINE s == LoadRows(LoadBookings([Idle EXCEPT !.at = "resolve", !.r = r], {r}),
                         PaymentsOf(r))
<1>1. Start(h, "cancel", s) /\ "cancel" \in Operations
  BY DEF StartCancel
<1>2. /\ s \in Sessions /\ Believes(s, notices, returned)
      /\ s.at = "resolve" /\ s.r = r /\ s.body = "NONE"
  BY LoadedTrue
<1> HIDE DEF s
<1>3. Works([s EXCEPT !.op = "cancel"], notices)
  BY <1>2, StartWorks
<1>4. QED
  BY <1>1, <1>2, <1>3, StartStep

(* The repaired reservation has a row that is paid.                         *)
LEMMA StartListKeeps ==
  ASSUME IInv, NEW h \in Handlers, NEW r \in Reservations, StartList(h, r)
  PROVE  IInv'
<1> DEFINE s == LoadRows(LoadBookings([Idle EXCEPT !.at = "sync", !.r = r], {r}),
                         PaymentsOf(r))
           behind == reservation[r] = "AWAITING_PAYMENT" /\ PaidRows(r) # {}
           t == SetBooking(s, r, "PAYMENT_AUTHORIZED")
<1>1. Start(h, "list", IF behind THEN t ELSE s) /\ "list" \in Operations
  BY DEF StartList
<1>2. /\ s \in Sessions /\ Believes(s, notices, returned)
      /\ s.at = "sync" /\ s.r = r /\ s.body = "NONE"
  BY LoadedTrue
<1>3. ASSUME behind PROVE BookingTrue("PAYMENT_AUTHORIZED", r, notices)
  BY <1>3 DEF PaidRows, PaymentsOf, BookingTrue, RowTrue, RowsTrue, IInv, Grounded
<1> HIDE DEF s, behind
<1>4. CASE behind
  <2>1. t \in Sessions /\ Believes(t, notices, returned) /\ SamePlace(t, s)
    BY <1>2, <1>3, <1>4, SetBookingTrue DEF ReservationStatus, Open
  <2> HIDE DEF t
  <2>2. Works([t EXCEPT !.op = "list"], notices)
    BY <1>2, <2>1, StartWorks DEF SamePlace
  <2>3. QED
    BY <1>1, <1>4, <2>1, <2>2, StartStep
<1>5. CASE ~behind
  <2>1. Works([s EXCEPT !.op = "list"], notices)
    BY <1>2, StartWorks
  <2>2. QED
    BY <1>1, <1>2, <1>5, <2>1, StartStep
<1>6. QED
  BY <1>4, <1>5

LEMMA StartPollKeeps ==
  ASSUME IInv, NEW h \in Handlers, NEW p \in Payments, StartPoll(h, p)
  PROVE  IInv'
<1> DEFINE x == [Idle EXCEPT !.at = "sync", !.r = Owner[p], !.p = p]
           s == LoadRows(x, {p})
<1>1. Start(h, "poll", s) /\ "poll" \in Operations
  BY DEF StartPoll
<1>2. Owner[p] \in Reservations
  BY OwnerAssumption
<1>3. /\ x \in Sessions /\ Believes(x, notices, returned)
      /\ x.at = "sync" /\ x.r = Owner[p] /\ x.body = "NONE"
  BY <1>2, IdleTrue DEF Sessions, Believes, Idle
<1> HIDE DEF x
<1>4. s \in Sessions /\ Believes(s, notices, returned) /\ SamePlace(s, x)
  BY <1>3, LoadRowsTrue DEF IInv, Grounded
<1> HIDE DEF s
<1>5. Works([s EXCEPT !.op = "poll"], notices)
  BY <1>2, <1>3, <1>4, StartWorks DEF SamePlace
<1>6. QED
  BY <1>1, <1>4, <1>5, StartStep

LEMMA StartWebhookKeeps ==
  ASSUME IInv, NEW h \in Handlers, NEW n \in notices, StartWebhook(h, n[2], n[1])
  PROVE  IInv'
<1> DEFINE p == n[2]  st == n[1]
           x == [Idle EXCEPT !.at = "sync", !.r = Owner[p], !.p = p, !.body = st]
           s == LoadRows(x, {p})
<1>1. Start(h, "webhook", s) /\ "webhook" \in Operations /\ <<st, p>> \in notices
  BY DEF StartWebhook
<1>2. p \in Payments /\ st \in ProviderStatus
  BY DEF IInv, TypeOK
<1>3. Owner[p] \in Reservations
  BY <1>2, OwnerAssumption
<1>4. Idle \in Sessions /\ Believes(Idle, notices, returned)
  BY IdleTrue
<1> HIDE DEF p, st
<1>5. /\ x \in Sessions /\ Believes(x, notices, returned)
      /\ x.at = "sync" /\ x.r = Owner[p] /\ x.p = p /\ x.body = st
  BY <1>2, <1>3, <1>4 DEF Sessions, Believes, Idle
<1> HIDE DEF x
<1>6. s \in Sessions /\ Believes(s, notices, returned) /\ SamePlace(s, x)
  BY <1>5, LoadRowsTrue DEF IInv, Grounded
<1> HIDE DEF s
<1>7. Works([s EXCEPT !.op = "webhook"], notices)
  BY <1>1, <1>3, <1>5, <1>6 DEF SamePlace, Works, Sessions
<1>8. QED
  BY <1>1, <1>6, <1>7, StartStep

LEMMA StartTickKeeps ==
  ASSUME IInv, StartTick PROVE IInv'
<1> DEFINE ps == {p \in Payments : payment[p] \in Unsettled}
           x == [Idle EXCEPT !.at = "reconcile", !.todoP = ps]
           s == LoadRows(x, ps)
<1>1. Start(Scheduler, "tick", s) /\ Scheduler \in Handlers
  BY DEF StartTick, Handlers
<1>2. Idle \in Sessions /\ Believes(Idle, notices, returned)
  BY IdleTrue
<1>3. /\ x \in Sessions /\ Believes(x, notices, returned)
      /\ x.at = "reconcile" /\ x.body = "NONE"
  BY <1>2 DEF Sessions, Believes, Idle
<1> HIDE DEF x, ps
<1>4. s \in Sessions /\ Believes(s, notices, returned) /\ SamePlace(s, x)
  BY <1>3, LoadRowsTrue DEF IInv, Grounded
<1> HIDE DEF s
<1>5. Works([s EXCEPT !.op = "tick"], notices)
  BY <1>3, <1>4, StartWorks DEF SamePlace
<1>6. QED
  BY <1>1, <1>4, <1>5, StartStep

-----------------------------------------------------------------------------
(* The answers to requests.                                                 *)

LEMMA PaySyncedKeeps ==
  ASSUME IInv, NEW h \in Handlers, PaySynced(h)
  PROVE  IInv'
<1> DEFINE s == session[h]
<1>0. /\ s \in Sessions /\ Believes(s, notices, returned) /\ Works(s, notices)
      /\ s.at = "sync" /\ s.op = "pay"
      /\ UNCHANGED yookassa /\ events' \subseteq ProviderStatus \X Payments
  BY OfSession, Parts DEF PaySynced
<1>1. s.r \in Reservations
  BY <1>0 DEF Works
<1>2. PICK silent \in SUBSET AskedToPay(s, s.r) :
        /\ Answer(silent)
        /\ LET t == Heard(s, s.r, AskedToPay(s, s.r), silent)
           IN /\ Commit(t)
              /\ IF \E p \in PaymentsOf(s.r) : t.row[p] \in PaidStatus
                   THEN Finish(h)
                   ELSE Go(h, [Idle EXCEPT !.at = "create", !.op = "pay", !.r = s.r])
  BY DEF PaySynced
<1> DEFINE t == Heard(s, s.r, AskedToPay(s, s.r), silent)
           u == [Idle EXCEPT !.at = "create", !.op = "pay", !.r = s.r]
<1>3. t \in Sessions /\ Believes(t, notices, returned)
  BY <1>0, <1>1, HeardTrue DEF IInv, Grounded
<1>4. faults' \in 0..MaxFaults
  BY <1>2, OfSession, AnswerType
<1>5. Idle \in Sessions /\ Believes(Idle, notices, returned) /\ Works(Idle, notices)
  BY IdleTrue
<1>6. u \in Sessions /\ Believes(u, notices, returned) /\ Works(u, notices)
  BY ZenonT(30), <1>0, <1>1, <1>5 DEF Sessions, Believes, Works, Idle
<1>7. Commit(t) /\ (Go(h, Idle) \/ Go(h, u))
  BY <1>2 DEF Finish
<1> HIDE DEF t, u
<1>8. QED
  BY <1>0, <1>3, <1>4, <1>5, <1>6, <1>7, QuietStep

LEMMA PayAnsweredKeeps ==
  ASSUME IInv, NEW h \in Handlers, PayAnswered(h)
  PROVE  IInv'
<1>1. /\ UNCHANGED <<reservation, due, returned, notices, events, faults>>
      /\ Go(h, Idle)
      /\ \/ \E p \in PaymentsOf(session[h].r) :
              /\ provider' = [provider EXCEPT ![p] = "pending"]
              /\ payment' = [payment EXCEPT ![p] = "PENDING"]
         \/ UNCHANGED <<provider, payment>>
  BY DEF PayAnswered, Finish
<1>2. HistoryGrows
  BY <1>1 DEF HistoryGrows
<1>3. ProviderTypes' /\ ProviderTrue'
  BY <1>1, Parts DEF ProviderTypes, ProviderTrue, ProviderStatus, PaidIn
<1>4. RowTypes'
  BY <1>1, Parts DEF RowTypes, PaymentStatus, Unsettled
<1>5. RowsTrue'
  BY ZenonT(30), <1>1, Parts DEF RowTypes, RowsTrue, RowTrue, BookingTrue, PaidStatus, PaidIn,
                               PaymentsOf
<1>6. session' \in [Handlers -> Sessions] /\ SessionsTrue'
  BY <1>1, <1>2, Parts, IdleTrue, GoTrue
<1>7. QED
  BY <1>1, <1>3, <1>4, <1>5, <1>6, Parts
     DEF IInv, Grounded, TypeOK, RowTypes, ProviderTypes

(* The body of a notification is one that YooKassa really sent.             *)
LEMMA StatusAnsweredKeeps ==
  ASSUME IInv, NEW h \in Handlers, StatusAnswered(h)
  PROVE  IInv'
<1> DEFINE s0 == session[h]
           s == LoadBookings(s0, {s0.r})
           news == [q \in Payments |-> IF q = s.p THEN MapStatus(s.body) ELSE "NONE"]
           asked == {s.p} \cap Asked(s, s.r)
<1>0. /\ s0 \in Sessions /\ Believes(s0, notices, returned) /\ Works(s0, notices)
  BY OfSession
<1>1. /\ s \in Sessions /\ Believes(s, notices, returned) /\ SamePlace(s, s0)
  BY <1>0, LoadBookingsTrue DEF IInv, Grounded
<1>2. /\ s.at = "sync" /\ s.op \in {"poll", "webhook"}
      /\ events' = IF s.op = "webhook" THEN events \cup {<<s.body, s.p>>} ELSE events
      /\ Go(h, Idle) /\ UNCHANGED yookassa
  BY DEF StatusAnswered, Finish
<1>3. PICK silent \in SUBSET asked, trusted \in BOOLEAN :
        /\ Answer(silent)
        /\ LET t == Heard(s, s.r, asked, silent)
               u == IF t = s /\ trusted THEN Applied(s, s.r, news) ELSE t
           IN IF <<s.body, s.p>> \in events THEN UNCHANGED rows ELSE Commit(u)
  BY DEF StatusAnswered
<1> HIDE DEF s, asked
<1>4. Works(s, notices)
  BY <1>0, <1>1 DEF Works, SamePlace
<1>5. s.r \in Reservations /\ (s.op = "webhook" => <<s.body, s.p>> \in notices)
  BY <1>2, <1>4 DEF Works
<1>6. events' \subseteq ProviderStatus \X Payments
  BY <1>2, <1>5 DEF IInv, TypeOK
<1>7. s.body \in ProviderStatus \cup {"NONE"}
  BY <1>1 DEF Sessions
<1>8. news \in [Payments -> PaymentStatus \cup {"NONE"}]
  BY <1>7, MapStatusType
<1>9. \A p \in Payments : RowTrue(news[p], p, notices, returned)
  <2>1. s.body # "NONE" => <<s.body, s.p>> \in notices
    BY <1>2, <1>4 DEF Works
  <2>2. QED
    BY <1>7, <2>1, MapStatusType DEF RowTrue, PaidIn, PaidStatus
<1> HIDE DEF news
<1>10. /\ Applied(s, s.r, news) \in Sessions
       /\ Believes(Applied(s, s.r, news), notices, returned)
  BY <1>1, <1>5, <1>8, <1>9, AppliedTrue DEF PaymentsOf
<1>11. /\ Heard(s, s.r, asked, silent) \in Sessions
       /\ Believes(Heard(s, s.r, asked, silent), notices, returned)
  BY <1>1, <1>5, HeardTrue DEF IInv, Grounded
<1>12. \/ UNCHANGED rows
       \/ \E u \in Sessions : Commit(u) /\ Believes(u, notices, returned)
  BY <1>3, <1>10, <1>11
<1>13. faults' \in 0..MaxFaults
  BY <1>3, OfSession, AnswerType
<1>14. QED
  BY <1>2, <1>6, <1>12, <1>13, IdleTrue, QuietStep

LEMMA ListAnsweredKeeps ==
  ASSUME IInv, NEW h \in Handlers, ListAnswered(h)
  PROVE  IInv'
<1> DEFINE s == session[h]
<1>0. /\ s \in Sessions /\ Believes(s, notices, returned) /\ Works(s, notices)
      /\ s.at = "sync" /\ Go(h, Idle)
      /\ UNCHANGED yookassa /\ events' \subseteq ProviderStatus \X Payments
  BY OfSession, Parts DEF ListAnswered, Finish
<1>1. s.r \in Reservations
  BY <1>0 DEF Works
<1>2. PICK silent \in SUBSET AskedIfUnpaid(s, s.r) :
        /\ Answer(silent)
        /\ Commit(Heard(s, s.r, AskedIfUnpaid(s, s.r), silent))
  BY DEF ListAnswered
<1> DEFINE t == Heard(s, s.r, AskedIfUnpaid(s, s.r), silent)
<1>3. t \in Sessions /\ Believes(t, notices, returned)
  BY <1>0, <1>1, HeardTrue DEF IInv, Grounded
<1>4. faults' \in 0..MaxFaults
  BY <1>2, OfSession, AnswerType
<1>5. Commit(t)
  BY <1>2
<1> HIDE DEF t
<1>6. QED
  BY <1>0, <1>3, <1>4, <1>5, IdleTrue, QuietStep

LEMMA CancelResolvedKeeps ==
  ASSUME IInv, NEW h \in Handlers, CancelResolved(h)
  PROVE  IInv'
<1> DEFINE s == session[h]
<1>0. /\ s \in Sessions /\ Believes(s, notices, returned) /\ Works(s, notices)
      /\ s.at = "resolve" /\ s.op = "cancel"
      /\ UNCHANGED yookassa /\ events' \subseteq ProviderStatus \X Payments
  BY OfSession, Parts DEF CancelResolved
<1>1. s.r \in Reservations
  BY <1>0 DEF Works
<1>2. PICK silent \in SUBSET AskedIfUnpaid(s, s.r) :
        /\ Answer(silent)
        /\ LET t == Heard(s, s.r, AskedIfUnpaid(s, s.r), silent)
           IN IF t.booking[s.r] = "PAYMENT_AUTHORIZED" /\ PaidRows(s.r) # {}
                THEN /\ \E p \in PaidRows(s.r) :
                          Go(h, [t EXCEPT !.at = "refund", !.p = p,
                                          !.row[p] = payment[p]])
                     /\ UNCHANGED rows
                ELSE /\ Commit(SetBooking(t, s.r, "CANCELLED"))
                     /\ Finish(h)
  BY DEF CancelResolved
<1> DEFINE t == Heard(s, s.r, AskedIfUnpaid(s, s.r), silent)
           c == SetBooking(t, s.r, "CANCELLED")
<1>3. t \in Sessions /\ Believes(t, notices, returned) /\ SamePlace(t, s)
  BY <1>0, <1>1, HeardTrue DEF IInv, Grounded
<1>4. faults' \in 0..MaxFaults
  BY <1>2, OfSession, AnswerType
<1>5. \/ /\ \E p \in PaidRows(s.r) :
              Go(h, [t EXCEPT !.at = "refund", !.p = p, !.row[p] = payment[p]])
         /\ UNCHANGED rows
      \/ Commit(c) /\ Go(h, Idle)
  BY <1>2 DEF Finish
<1> HIDE DEF t
<1>6. CASE UNCHANGED rows /\ \E p \in PaidRows(s.r) :
             Go(h, [t EXCEPT !.at = "refund", !.p = p, !.row[p] = payment[p]])
  <2>1. PICK p \in PaidRows(s.r) :
          Go(h, [t EXCEPT !.at = "refund", !.p = p, !.row[p] = payment[p]])
    BY <1>6
  <2> DEFINE u == [t EXCEPT !.at = "refund", !.p = p, !.row[p] = payment[p]]
  <2>2. p \in Payments /\ payment[p] \in PaymentStatus \cup {"NONE"}
        /\ RowTrue(payment[p], p, notices, returned)
    BY DEF PaidRows, PaymentsOf, IInv, TypeOK, Grounded, RowsTrue
  <2>3. u \in Sessions
    BY <1>3, <2>2 DEF Sessions
  <2>4. /\ u.booking = t.booking /\ u.dirtyR = t.dirtyR
        /\ \A q \in Payments : u.row[q] = IF q = p THEN payment[p] ELSE t.row[q]
        /\ u.op = t.op /\ u.body = t.body /\ u.at = "refund" /\ u.p = p /\ u.r = t.r
    BY <1>3 DEF Sessions
  <2>5. Go(h, u)
    BY <2>1
  <2> HIDE DEF u
  <2>6. Believes(u, notices, returned)
    BY <1>3, <2>2, <2>4 DEF Believes
  <2>7. Works(u, notices)
    BY <1>0, <1>1, <1>3, <2>2, <2>4 DEF Works, SamePlace
  <2>8. QED
    BY <1>0, <1>4, <1>6, <2>3, <2>5, <2>6, <2>7, QuietStep
<1>7. CASE Commit(c) /\ Go(h, Idle)
  <2>1. c \in Sessions /\ Believes(c, notices, returned)
    BY <1>1, <1>3, SetBookingTrue DEF ReservationStatus, Closed, BookingTrue
  <2>2. QED
    BY <1>0, <1>4, <1>7, <2>1, IdleTrue, QuietStep
<1>8. QED
  BY <1>5, <1>6, <1>7

(* A handler whose call moved money goes on as session t, and perhaps        *)
(* commits u.                                                               *)
LEMMA MoneyStep ==
  ASSUME IInv, ProviderTypes', ProviderTrue', HistoryGrows,
         faults' \in 0..MaxFaults, UNCHANGED events,
         NEW h \in Handlers, NEW t \in Sessions, Go(h, t),
         Believes(t, notices', returned'), Works(t, notices'),
         \/ UNCHANGED rows
         \/ \E u \in Sessions : Commit(u) /\ Believes(u, notices', returned')
  PROVE  IInv'
<1>1. RowTypes' /\ RowsTrue'
  BY Parts, RowsKept, CommitTrue
<1>2. session' \in [Handlers -> Sessions] /\ SessionsTrue'
  BY Parts, GoTrue
<1>3. events' \subseteq ProviderStatus \X Payments
  BY Parts
<1>4. QED
  BY <1>1, <1>2, <1>3 DEF IInv, Grounded, TypeOK, RowTypes, ProviderTypes

(* What is written of a payment given back, and of its reservation, is true. *)
LEMMA GivenBackTrue ==
  ASSUME NEW s \in Sessions, NEW N, NEW R, Believes(s, N, R),
         NEW p \in Payments, NEW r \in Reservations, R[p],
         NEW seen, NEW st \in Closed
  PROVE  LET t == SetBooking(SetRow(s, p, ReturnedStatus(seen)), r, st)
         IN t \in Sessions /\ Believes(t, N, R) /\ SamePlace(t, s)
<1> DEFINE x == SetRow(s, p, ReturnedStatus(seen))
<1>1. /\ ReturnedStatus(seen) \in PaymentStatus
      /\ RowTrue(ReturnedStatus(seen), p, N, R)
  BY DEF ReturnedStatus, PaymentStatus, Settled, PaidStatus, RowTrue
<1>2. x \in Sessions /\ Believes(x, N, R) /\ SamePlace(x, s)
  BY <1>1, SetRowTrue
<1>3. st \in ReservationStatus /\ BookingTrue(st, r, N)
  BY DEF ReservationStatus, Closed, BookingTrue
<1> HIDE DEF x
<1>4. /\ SetBooking(x, r, st) \in Sessions /\ Believes(SetBooking(x, r, st), N, R)
      /\ SamePlace(SetBooking(x, r, st), x)
  BY <1>2, <1>3, SetBookingTrue
<1>5. QED
  BY <1>2, <1>4 DEF x, SamePlace

LEMMA CancelRefundedKeeps ==
  ASSUME IInv, NEW h \in Handlers, CancelRefunded(h)
  PROVE  IInv'
<1> DEFINE s == session[h]
           c == SetBooking(SetRow(s, s.p, ReturnedStatus(s.row[s.p])), s.r, "CANCELLED")
<1>0. /\ s \in Sessions /\ Believes(s, notices, returned) /\ Works(s, notices)
      /\ s.at = "refund" /\ UNCHANGED events /\ Go(h, Idle)
  BY OfSession DEF CancelRefunded, Finish
<1>1. s.r \in Reservations /\ s.p \in Payments
  BY <1>0 DEF Works
<1>2. PICK ok \in BOOLEAN : /\ GiveBack(s.p, s.row[s.p], ok)
                            /\ IF ok THEN Commit(c) ELSE UNCHANGED rows
  BY DEF CancelRefunded
<1>3. /\ ProviderTypes' /\ ProviderTrue' /\ HistoryGrows
      /\ faults' \in 0..MaxFaults /\ (ok => returned'[s.p])
  BY <1>1, <1>2, Parts, GiveBackTrue
<1>4. Believes(s, notices', returned')
  BY <1>0, <1>3, BelievesGrows
<1>5. ASSUME ok PROVE c \in Sessions /\ Believes(c, notices', returned')
  BY <1>0, <1>1, <1>3, <1>4, <1>5, GivenBackTrue DEF Closed
<1>6. /\ Idle \in Sessions /\ Believes(Idle, notices', returned')
      /\ Works(Idle, notices')
  BY IdleTrue
<1>7. (ok /\ Commit(c)) \/ UNCHANGED rows
  BY <1>2
<1> HIDE DEF s, c
<1>8. QED
  BY <1>0, <1>3, <1>5, <1>6, <1>7, MoneyStep

-----------------------------------------------------------------------------
(* The scheduler.                                                           *)

LEMMA WorksSame ==
  ASSUME NEW s, NEW t, NEW N, Works(s, N), SamePlace(t, s)
  PROVE  Works(t, N)
  BY DEF Works, SamePlace

LEMMA ReconciledKeeps ==
  ASSUME IInv, NEW p \in Payments, Reconciled(p)
  PROVE  IInv'
<1> DEFINE s0 == session[Scheduler]
           s == LoadBookings(s0, {Owner[p]})
           n == [s0 EXCEPT !.todoP = @ \ {p}, !.row[p] = "NONE"]
<1>0. Scheduler \in Handlers /\ Owner[p] \in Reservations
  BY OwnerAssumption DEF Handlers
<1>1. s0 \in Sessions /\ Believes(s0, notices, returned) /\ Works(s0, notices)
  BY <1>0, OfSession
<1>2. s \in Sessions /\ Believes(s, notices, returned) /\ SamePlace(s, s0)
  BY <1>1, LoadBookingsTrue DEF IInv, Grounded
<1>3. /\ s.at = "reconcile" /\ UNCHANGED yookassa /\ Go(Scheduler, n)
      /\ events' \subseteq ProviderStatus \X Payments
  BY Parts DEF Reconciled
<1>4. PICK silent \in SUBSET {p} :
        Answer(silent) /\ Commit(Heard(s, Owner[p], {p}, silent))
  BY DEF Reconciled
<1>5. faults' \in 0..MaxFaults
  BY <1>4, Parts, AnswerType
<1> HIDE DEF s
<1> DEFINE u == Heard(s, Owner[p], {p}, silent)
<1>6. u \in Sessions /\ Believes(u, notices, returned) /\ Commit(u)
  BY <1>0, <1>2, <1>4, HeardTrue DEF IInv, Grounded
<1>7. /\ n \in Sessions /\ n.booking = s0.booking /\ n.dirtyR = s0.dirtyR
      /\ \A q \in Payments : n.row[q] = IF q = p THEN "NONE" ELSE s0.row[q]
      /\ n.at = s0.at /\ n.op = s0.op /\ n.r = s0.r /\ n.p = s0.p /\ n.body = s0.body
  BY <1>1 DEF Sessions
<1> HIDE DEF n, u
<1>8. Believes(n, notices, returned)
  BY <1>1, <1>7 DEF Believes, RowTrue, PaidStatus
<1>9. Works(n, notices)
  BY <1>1, <1>7 DEF Works
<1>10. QED
  BY <1>0, <1>3, <1>5, <1>6, <1>7, <1>8, <1>9, QuietStep

(* A step of the scheduler that only changes its session.                   *)
LEMMA SchedulerMoves ==
  ASSUME IInv, NEW t \in Sessions, Go(Scheduler, t),
         Believes(t, notices, returned), Works(t, notices),
         UNCHANGED <<rows, yookassa, events>>, faults' \in 0..MaxFaults
  PROVE  IInv'
BY Parts, QuietStep DEF Handlers

(* The sweep turns to the next reservation.                                 *)
LEMMA Next1True ==
  ASSUME NEW s \in Sessions, NEW r, NEW N, NEW R, Believes(s, N, R),
         Works(s, N), s.at # "sync"
  PROVE  /\ Next1(s, r) \in Sessions /\ Believes(Next1(s, r), N, R)
         /\ Works(Next1(s, r), N)
<1> DEFINE t == Next1(s, r)
<1>1. t \in Sessions
  BY DEF Next1, Sessions
<1>2. /\ t.row = s.row /\ t.booking = s.booking /\ t.dirtyR = s.dirtyR
      /\ t.at = "expire" /\ t.op = s.op /\ t.body = s.body
  BY DEF Next1, Sessions
<1> HIDE DEF t
<1>3. Believes(t, N, R) /\ Works(t, N)
  BY <1>2 DEF Believes, Works
<1>4. QED
  BY <1>1, <1>3 DEF t

LEMMA StartExpiryKeeps ==
  ASSUME IInv, StartExpiry PROVE IInv'
<1> DEFINE stale == {r \in Reservations : due[r] /\ reservation[r] \in Open}
           x == [Idle EXCEPT !.at = "expire", !.op = "tick", !.todoR = stale]
           t == LoadBookings(x, stale)
<1>1. Go(Scheduler, t) /\ UNCHANGED <<rows, yookassa, events, faults>>
  BY DEF StartExpiry
<1>2. Idle \in Sessions /\ Believes(Idle, notices, returned)
  BY IdleTrue
<1>3. /\ x \in Sessions /\ Believes(x, notices, returned) /\ Works(x, notices)
  BY <1>2 DEF Sessions, Believes, Works, Idle
<1> HIDE DEF x, stale
<1>4. t \in Sessions /\ Believes(t, notices, returned) /\ SamePlace(t, x)
  BY <1>3, LoadBookingsTrue DEF IInv, Grounded
<1> HIDE DEF t
<1>5. Works(t, notices)
  BY <1>3, <1>4, WorksSame
<1>6. QED
  BY <1>1, <1>4, <1>5, Parts, SchedulerMoves

LEMMA ExpireUnpaidKeeps ==
  ASSUME IInv, NEW r \in Reservations, ExpireUnpaid(r) PROVE IInv'
<1> DEFINE s == session[Scheduler]
           x == [s EXCEPT !.at = "resolve", !.r = r]
           t == LoadRows(x, PaymentsOf(r))
<1>1. /\ Go(Scheduler, t) /\ s.at = "expire"
      /\ UNCHANGED <<rows, yookassa, events, faults>>
  BY DEF ExpireUnpaid
<1>2. s \in Sessions /\ Believes(s, notices, returned) /\ Works(s, notices)
  BY OfSession DEF Handlers
<1>3. /\ x \in Sessions /\ Believes(x, notices, returned) /\ Works(x, notices)
  <2>1. x \in Sessions
    BY <1>2 DEF Sessions
  <2>2. /\ x.row = s.row /\ x.booking = s.booking /\ x.dirtyR = s.dirtyR
        /\ x.at = "resolve" /\ x.r = r /\ x.op = s.op /\ x.body = s.body
    BY <1>2 DEF Sessions
  <2> HIDE DEF x
  <2>3. QED
    BY <1>1, <1>2, <2>1, <2>2 DEF Believes, Works
<1> HIDE DEF x
<1>4. t \in Sessions /\ Believes(t, notices, returned) /\ SamePlace(t, x)
  BY <1>3, LoadRowsTrue DEF IInv, Grounded
<1> HIDE DEF t
<1>5. Works(t, notices)
  BY <1>3, <1>4, WorksSame
<1>6. QED
  BY <1>1, <1>4, <1>5, Parts, SchedulerMoves

LEMMA ExpireResolvedKeeps ==
  ASSUME IInv, ExpireResolved PROVE IInv'
<1> DEFINE s == session[Scheduler]
<1>1. s \in Sessions /\ Believes(s, notices, returned) /\ Works(s, notices)
  BY OfSession DEF Handlers
<1>2. s.at = "resolve" /\ UNCHANGED <<rows, yookassa, events>>
  BY DEF ExpireResolved
<1>3. s.r \in Reservations
  BY <1>1, <1>2 DEF Works
<1>4. PICK silent \in SUBSET Asked(s, s.r) :
        /\ Answer(silent)
        /\ LET t == Next1(Heard(s, s.r, Asked(s, s.r), silent), s.r)
           IN Go(Scheduler, IF t.booking[s.r] = "PAYMENT_AUTHORIZED"
                              THEN t ELSE SetBooking(t, s.r, "EXPIRED"))
  BY DEF ExpireResolved
<1> DEFINE u == Heard(s, s.r, Asked(s, s.r), silent)
           t == Next1(u, s.r)
           e == SetBooking(t, s.r, "EXPIRED")
<1>5. faults' \in 0..MaxFaults
  BY <1>4, Parts, AnswerType
<1>6. Go(Scheduler, t) \/ Go(Scheduler, e)
  BY <1>4
<1>7. u \in Sessions /\ Believes(u, notices, returned) /\ SamePlace(u, s)
  BY <1>1, <1>3, HeardTrue DEF IInv, Grounded
<1> HIDE DEF u
<1>8. Works(u, notices) /\ u.at # "sync"
  BY <1>1, <1>2, <1>7, WorksSame DEF SamePlace
<1>9. t \in Sessions /\ Believes(t, notices, returned) /\ Works(t, notices)
  BY <1>7, <1>8, Next1True
<1> HIDE DEF t
<1>10. e \in Sessions /\ Believes(e, notices, returned) /\ SamePlace(e, t)
  BY <1>3, <1>9, SetBookingTrue DEF ReservationStatus, Closed, BookingTrue
<1> HIDE DEF e
<1>11. Works(e, notices)
  BY <1>9, <1>10, WorksSame
<1>12. QED
  BY <1>2, <1>5, <1>6, <1>9, <1>10, <1>11, SchedulerMoves

LEMMA ExpirePaidKeeps ==
  ASSUME IInv, NEW r \in Reservations, ExpirePaid(r) PROVE IInv'
<1> DEFINE s == session[Scheduler]
           x(p) == [s EXCEPT !.at = "refund", !.r = r, !.p = p]
           e == SetBooking(Next1(s, r), r, "EXPIRED")
<1>1. s \in Sessions /\ Believes(s, notices, returned) /\ Works(s, notices)
  BY OfSession DEF Handlers
<1>2. s.at = "expire" /\ UNCHANGED <<rows, yookassa, events, faults>>
  BY DEF ExpirePaid
<1>3. \/ \E p \in PaidRows(r) : Go(Scheduler, LoadRows(x(p), {p}))
      \/ Go(Scheduler, e)
  BY DEF ExpirePaid
<1>4. ASSUME NEW p \in PaidRows(r), Go(Scheduler, LoadRows(x(p), {p}))
      PROVE  IInv'
  <2> DEFINE y == x(p)  t == LoadRows(y, {p})
  <2>1. Go(Scheduler, t) /\ p \in Payments
    BY <1>4 DEF PaidRows, PaymentsOf
  <2>2. y \in Sessions
    BY <1>1, <2>1 DEF Sessions
  <2>3. /\ y.row = s.row /\ y.booking = s.booking /\ y.dirtyR = s.dirtyR
        /\ y.at = "refund" /\ y.r = r /\ y.p = p /\ y.op = s.op /\ y.body = s.body
    BY <1>1 DEF Sessions
  <2> HIDE DEF y
  <2>4. Believes(y, notices, returned) /\ Works(y, notices)
    BY <1>1, <1>2, <2>1, <2>3 DEF Believes, Works
  <2>5. t \in Sessions /\ Believes(t, notices, returned) /\ SamePlace(t, y)
    BY <2>2, <2>4, LoadRowsTrue DEF IInv, Grounded
  <2> HIDE DEF t
  <2>6. Works(t, notices)
    BY <2>4, <2>5, WorksSame
  <2>7. QED
    BY <1>2, <2>1, <2>5, <2>6, Parts, SchedulerMoves
<1>5. ASSUME Go(Scheduler, e) PROVE IInv'
  <2> DEFINE t == Next1(s, r)
  <2>1. t \in Sessions /\ Believes(t, notices, returned) /\ Works(t, notices)
    BY <1>1, <1>2, Next1True
  <2> HIDE DEF t
  <2>2. e \in Sessions /\ Believes(e, notices, returned) /\ SamePlace(e, t)
    BY <2>1, SetBookingTrue DEF ReservationStatus, Closed, BookingTrue, t
  <2> HIDE DEF e
  <2>3. Works(e, notices)
    BY <2>1, <2>2, WorksSame
  <2>4. QED
    BY <1>2, <1>5, <2>2, <2>3, Parts, SchedulerMoves
<1>6. QED
  BY <1>3, <1>4, <1>5

LEMMA ExpireRefundedKeeps ==
  ASSUME IInv, ExpireRefunded PROVE IInv'
<1> DEFINE s == session[Scheduler]
           t == Next1(s, s.r)
           e == SetBooking(SetRow(t, s.p, ReturnedStatus(s.row[s.p])), s.r, "EXPIRED")
<1>1. /\ s \in Sessions /\ Believes(s, notices, returned) /\ Works(s, notices)
      /\ Scheduler \in Handlers
  BY OfSession DEF Handlers
<1>2. s.at = "refund" /\ UNCHANGED rows /\ UNCHANGED events
  BY DEF ExpireRefunded
<1>3. s.r \in Reservations /\ s.p \in Payments
  BY <1>1, <1>2 DEF Works
<1>4. PICK ok \in BOOLEAN : /\ GiveBack(s.p, s.row[s.p], ok)
                            /\ Go(Scheduler, IF ok THEN e ELSE t)
  BY DEF ExpireRefunded
<1>5. /\ ProviderTypes' /\ ProviderTrue' /\ HistoryGrows
      /\ faults' \in 0..MaxFaults /\ (ok => returned'[s.p])
  BY <1>3, <1>4, Parts, GiveBackTrue
<1>6. Believes(s, notices', returned') /\ Works(s, notices')
  BY <1>1, <1>5, BelievesGrows, WorksGrows
<1>7. t \in Sessions /\ Believes(t, notices', returned') /\ Works(t, notices')
  BY <1>1, <1>2, <1>6, Next1True
<1> HIDE DEF t
<1>8. CASE ok
  <2>1. e \in Sessions /\ Believes(e, notices', returned') /\ SamePlace(e, t)
    BY <1>3, <1>5, <1>7, <1>8, GivenBackTrue DEF Closed
  <2>2. Go(Scheduler, e)
    BY <1>4, <1>8
  <2> HIDE DEF e
  <2>3. Works(e, notices')
    BY <1>7, <2>1, WorksSame
  <2>4. QED
    BY <1>1, <1>2, <1>5, <2>1, <2>2, <2>3, MoneyStep
<1>9. CASE ~ok
  <2>1. Go(Scheduler, t)
    BY <1>4, <1>9
  <2>2. QED
    BY <1>1, <1>2, <1>5, <1>7, <2>1, MoneyStep
<1>10. QED
  BY <1>8, <1>9

LEMMA ExpiryCommittedKeeps ==
  ASSUME IInv, ExpiryCommitted PROVE IInv'
<1>1. /\ Commit(session[Scheduler]) /\ Go(Scheduler, Idle)
      /\ UNCHANGED yookassa /\ UNCHANGED events /\ UNCHANGED faults
  BY DEF ExpiryCommitted, Finish
<1>2. /\ session[Scheduler] \in Sessions /\ Scheduler \in Handlers
      /\ Believes(session[Scheduler], notices, returned)
  BY OfSession DEF Handlers
<1>3. QED
  BY <1>1, <1>2, Parts, IdleTrue, QuietStep

-----------------------------------------------------------------------------
(* The provider, time, the rental and the crash.                            *)

LEMMA LinkPaidKeeps ==
  ASSUME IInv, NEW p \in Payments, LinkPaid(p) PROVE IInv'
<1>1. PICK st \in PaidStates :
        /\ provider' = [provider EXCEPT ![p] = st]
        /\ notices' = notices \cup {<<st, p>>}
        /\ UNCHANGED <<rows, returned, events, session, faults>>
  BY DEF LinkPaid
<1>2. st \in {"succeeded", "waiting_for_capture"}
  BY PaidStatesAssumption
<1>3. HistoryGrows
  BY <1>1 DEF HistoryGrows
<1>4. ProviderTypes'
  BY <1>1, <1>2, Parts DEF ProviderTypes, ProviderStatus
<1>5. ProviderTrue'
  BY <1>1, <1>2, Parts DEF ProviderTypes, ProviderTrue, PaidIn
<1>6. RowTypes' /\ RowsTrue'
  BY <1>1, <1>3, Parts, RowsKept
<1>7. session' \in [Handlers -> Sessions] /\ SessionsTrue'
  BY <1>1, <1>3, Parts, SessionsKept
<1>8. QED
  BY <1>1, <1>4, <1>5, <1>6, <1>7, Parts
     DEF IInv, Grounded, TypeOK, RowTypes, ProviderTypes

LEMMA LinkAbandonedKeeps ==
  ASSUME IInv, NEW p \in Payments, LinkAbandoned(p) PROVE IInv'
<1>1. /\ provider' = [provider EXCEPT ![p] = "canceled"]
      /\ notices' = notices \cup {<<"canceled", p>>}
      /\ UNCHANGED <<rows, returned, events, session, faults>>
  BY DEF LinkAbandoned
<1>2. HistoryGrows
  BY <1>1 DEF HistoryGrows
<1>3. ProviderTypes'
  BY <1>1, Parts DEF ProviderTypes, ProviderStatus
<1>4. ProviderTrue'
  BY <1>1, Parts DEF ProviderTypes, ProviderTrue, PaidIn
<1>5. RowTypes' /\ RowsTrue'
  BY <1>1, <1>2, Parts, RowsKept
<1>6. session' \in [Handlers -> Sessions] /\ SessionsTrue'
  BY <1>1, <1>2, Parts, SessionsKept
<1>7. QED
  BY <1>1, <1>3, <1>4, <1>5, <1>6, Parts
     DEF IInv, Grounded, TypeOK, RowTypes, ProviderTypes

(* Steps that leave the provider and the sessions alone.                    *)
LEMMA CalmStep ==
  ASSUME IInv, UNCHANGED <<yookassa, session, events, faults>>,
         RowTypes', RowsTrue'
  PROVE  IInv'
<1>1. ProviderTypes' /\ ProviderTrue' /\ HistoryGrows
  BY Parts, ProviderKept
<1>2. session' \in [Handlers -> Sessions] /\ SessionsTrue'
  BY <1>1, Parts, SessionsKept
<1>3. QED
  BY <1>1, <1>2, Parts DEF IInv, Grounded, TypeOK, RowTypes, ProviderTypes

LEMMA DeadlinePassesKeeps ==
  ASSUME IInv, NEW r \in Reservations, DeadlinePasses(r) PROVE IInv'
<1>1. RowTypes' /\ RowsTrue'
  BY Parts DEF DeadlinePasses, RowTypes, RowsTrue, BookingTrue, RowTrue, PaidIn,
               PaymentsOf, yookassa
<1>2. QED
  BY <1>1, CalmStep DEF DeadlinePasses

(* A confirmed reservation was authorized, so it was paid.                  *)
LEMMA ConfirmKeeps ==
  ASSUME IInv, NEW r \in Reservations, Confirm(r) PROVE IInv'
<1>1. /\ reservation[r] = "PAYMENT_AUTHORIZED"
      /\ reservation' = [reservation EXCEPT ![r] = "CONFIRMED"]
      /\ UNCHANGED <<due, payment, yookassa, events, session, faults>>
  BY DEF Confirm
<1>2. RowTypes'
  BY <1>1, Parts DEF RowTypes, ReservationStatus
<1>3. \A q \in Reservations : BookingTrue(reservation'[q], q, notices')
  BY <1>1, Parts DEF RowTypes, RowsTrue, BookingTrue, yookassa
<1>4. \A p \in Payments : RowTrue(payment'[p], p, notices', returned')
  BY <1>1, Parts DEF RowsTrue, yookassa
<1>5. QED
  BY <1>1, <1>2, <1>3, <1>4, CalmStep DEF RowsTrue

LEMMA CrashKeeps ==
  ASSUME IInv, Crash PROVE IInv'
<1>1. /\ Fault("crash") /\ session' = [h \in Handlers |-> Idle]
      /\ UNCHANGED <<rows, yookassa, events>>
  BY DEF Crash
<1>2. ProviderTypes' /\ ProviderTrue' /\ HistoryGrows
  BY <1>1, Parts, ProviderKept
<1>3. RowTypes' /\ RowsTrue'
  BY <1>1, <1>2, Parts, RowsKept
<1>4. session' \in [Handlers -> Sessions] /\ SessionsTrue'
  BY <1>1, IdleTrue DEF SessionsTrue
<1>5. faults' \in 0..MaxFaults
  BY <1>1, Parts, FaultsType
<1>6. QED
  BY <1>1, <1>2, <1>3, <1>4, <1>5, Parts
     DEF IInv, Grounded, TypeOK, RowTypes, ProviderTypes

-----------------------------------------------------------------------------
(* The inductive invariant.                                                 *)

LEMMA InitIInv == Init => IInv
<1> SUFFICES ASSUME Init PROVE IInv
  OBVIOUS
<1>1. RowTypes /\ RowsTrue
  BY DEF Init, RowTypes, RowsTrue, RowTrue, BookingTrue, ReservationStatus, Open,
         PaidStatus
<1>2. ProviderTypes /\ ProviderTrue
  BY DEF Init, ProviderTypes, ProviderTrue
<1>3. session \in [Handlers -> Sessions] /\ SessionsTrue
  BY IdleTrue DEF Init, SessionsTrue
<1>4. faults \in 0..MaxFaults /\ events \subseteq ProviderStatus \X Payments
  BY FaultsAssumption DEF Init
<1>5. QED
  BY <1>1, <1>2, <1>3, <1>4, Parts

LEMMA NextIInv == IInv /\ [Next]_vars => IInv'
<1> SUFFICES ASSUME IInv, [Next]_vars PROVE IInv'
  OBVIOUS
<1>1. ASSUME NEW h \in Requests, RequestStarts(h) PROVE IInv'
  <2>1. h \in Handlers
    BY DEF Handlers
  <2>2. QED
    BY <1>1, <2>1, StartPayKeeps, StartListKeeps, StartCancelKeeps, StartPollKeeps,
       StartWebhookKeeps DEF RequestStarts
<1>2. ASSUME NEW h \in Requests, RequestAnswered(h) PROVE IInv'
  <2>1. h \in Handlers
    BY DEF Handlers
  <2>2. QED
    BY <1>2, <2>1, PaySyncedKeeps, PayAnsweredKeeps, StatusAnsweredKeeps,
       ListAnsweredKeeps, CancelResolvedKeeps, CancelRefundedKeeps
       DEF RequestAnswered
<1>3. CASE SchedulerStep
  BY <1>3, StartTickKeeps, StartExpiryKeeps, ExpireResolvedKeeps,
     ExpireRefundedKeeps, ExpiryCommittedKeeps, ReconciledKeeps,
     ExpireUnpaidKeeps, ExpirePaidKeeps DEF SchedulerStep
<1>4. ASSUME NEW p \in Payments, LinkPaid(p) \/ LinkAbandoned(p) PROVE IInv'
  BY <1>4, LinkPaidKeeps, LinkAbandonedKeeps
<1>5. ASSUME NEW r \in Reservations, DeadlinePasses(r) \/ Confirm(r) PROVE IInv'
  BY <1>5, DeadlinePassesKeeps, ConfirmKeeps
<1>6. CASE Crash
  BY <1>6, CrashKeeps
<1>7. CASE UNCHANGED vars
  <2>1. UNCHANGED rows /\ UNCHANGED <<yookassa, session, events, faults>>
    BY <1>7 DEF vars, rows, yookassa
  <2>2. RowTypes' /\ RowsTrue'
    BY <2>1, Parts, ProviderKept, RowsKept
  <2>3. QED
    BY <2>1, <2>2, CalmStep
<1>8. QED
  BY <1>1, <1>2, <1>3, <1>4, <1>5, <1>6, <1>7 DEF Next

(* Every reachable state of the money flow, with any number of handlers and  *)
(* whatever is lost or repeated, satisfies the inductive invariant: rows,    *)
(* session copies and notifications are all backed by what happened at       *)
(* YooKassa.                                                                 *)
THEOREM AlwaysGrounded == Spec => []IInv
BY InitIInv, NextIInv, PTL DEF Spec

(* The rows hold only statuses of the enums PaymentStatus and                *)
(* ReservationStatus, the provider's vocabulary never leaks into them        *)
(* (map_yookassa_payment_status), and no handler is lost between phases.     *)
THEOREM TypeCorrect == Spec => []TypeOK
<1>1. IInv => TypeOK
  BY DEF IInv
<1>2. QED
  BY <1>1, AlwaysGrounded, PTL

(* No rental for free: a reservation counts as paid only if a link of that   *)
(* very reservation was paid (_sync_reservation_with_payment).               *)
THEOREM PaidBacked == Spec => []PaidIsBacked
<1>1. IInv => PaidIsBacked
  BY DEF IInv, Grounded, RowsTrue, BookingTrue, PaidIsBacked, PaidIn, PaidByClient
<1>2. QED
  BY <1>1, AlwaysGrounded, PTL

(* A row is REFUNDED or CANCELLED only if the provider gave the money back   *)
(* (release_reservation_payment).                                            *)
THEOREM ReturnedTrue == Spec => []ReturnedIsTrue
<1>1. IInv => ReturnedIsTrue
  BY DEF IInv, Grounded, RowsTrue, RowTrue, ReturnedIsTrue
<1>2. QED
  BY <1>1, AlwaysGrounded, PTL

-----------------------------------------------------------------------------
(* SettledStays, for handlers one at a time and whatever fails or is lost.   *)
(* With overlap it is false: a session writes what it heard about a row that *)
(* another has settled since.  InTurn says what running in turn buys: at     *)
(* most one session is active, and its copy of a row is the committed one    *)
(* unless the session itself changed it, by the rule.  LinksTrue is what     *)
(* makes the rule apply to a change: notices, the status at the provider and *)
(* the money given back tell one story of each link.                         *)
Serially == ~Overlap

Settles(now, next) ==
  now = next \/ now \notin Settled \/ (now = "CAPTURED" /\ next = "REFUNDED")

RowsInOrder(s, pay) ==
  /\ \A p \in Payments \ s.dirtyP : s.row[p] \in {"NONE", pay[p]}
  /\ \A p \in s.dirtyP : s.row[p] # "NONE" /\ pay[p] # "NONE" /\ Settles(pay[p], s.row[p])
  /\ s.at = "reconcile" => \A p \in s.todoP : s.row[p] # "NONE"
  /\ s.at = "refund" => s.row[s.p] = pay[s.p] /\ pay[s.p] \in PaidStatus
  /\ s.at = "sync" /\ s.op \in {"poll", "webhook"} => s.p \in Payments /\ s.row[s.p] # "NONE"

OfScheduler(s, h) ==
  /\ s.at # "idle" => (s.op = "tick" <=> h = Scheduler)
  /\ s.at = "reconcile" => s.dirtyP = {}

Alone ==
  \A h, k \in Handlers : session[h].at # "idle" /\ h # k => session[k] = Idle
Named ==
  \A h \in Handlers : /\ OfScheduler(session[h], h)
                      /\ session[h].at = "idle" => session[h] = Idle

(* What is known of a link: prov is its status, N the notices, and given     *)
(* whether the money went back.                                             *)
LinkTrue(p, prov, N, given, pay) ==
  /\ prov \in {"NONE", "pending"} => ~PaidIn(p, N)
  /\ given => PaidIn(p, N) /\ prov # "waiting_for_capture"
  /\ PaidIn(p, N) /\ ~given => prov \in {"waiting_for_capture", "succeeded"}
  /\ <<"canceled", p>> \in N => prov = "canceled"
  /\ \A st : <<st, p>> \in N => prov # "NONE" /\ st # "pending"
  /\ pay = "NONE" => prov = "NONE"
LinksTrue ==
  \A p \in Payments : LinkTrue(p, provider[p], notices, returned[p], payment[p])

InOrder == \A h \in Handlers : RowsInOrder(session[h], payment)
InTurn == Alone /\ Named /\ LinksTrue /\ InOrder

(* What a session becomes when news arrive for a reservation.                *)
Took(s, r, news) == {p \in PaymentsOf(r) : Applies(s.row[p], news[p])}
Hears(t, s, r, news) ==
  /\ \A p \in Payments : t.row[p] = IF p \in Took(s, r, news) THEN news[p] ELSE s.row[p]
  /\ t.dirtyP = s.dirtyP \cup {p \in Took(s, r, news) : news[p] # s.row[p]}
  /\ LET pulled == /\ s.booking[r] = "AWAITING_PAYMENT"
                   /\ \E p \in Took(s, r, news) : news[p] \in PaidStatus
     IN IF pulled
          THEN /\ \A q \in Reservations :
                    t.booking[q] = IF q = r THEN "PAYMENT_AUTHORIZED" ELSE s.booking[q]
               /\ t.dirtyR = s.dirtyR \cup {r}
          ELSE t.booking = s.booking /\ t.dirtyR = s.dirtyR
  /\ SamePlace(t, s)

LEMMA AppliedHears ==
  ASSUME NEW s \in Sessions, NEW r \in Reservations,
         NEW news \in [Payments -> PaymentStatus \cup {"NONE"}]
  PROVE  Applied(s, r, news) \in Sessions /\ Hears(Applied(s, r, news), s, r, news)
<1> DEFINE took == Took(s, r, news)
           moved == [s EXCEPT
                       !.row = [p \in Payments |-> IF p \in took THEN news[p] ELSE @[p]],
                       !.dirtyP = @ \cup {p \in took : news[p] # s.row[p]}]
           pulled == /\ s.booking[r] = "AWAITING_PAYMENT"
                     /\ \E p \in took : news[p] \in PaidStatus
<1>1. took \subseteq Payments
  BY DEF PaymentsOf, Took
<1>2. Applied(s, r, news) = IF pulled THEN SetBooking(moved, r, "PAYMENT_AUTHORIZED")
                                      ELSE moved
  BY DEF Applied, Took
<1> HIDE DEF took
<1>3. moved \in Sessions /\ SamePlace(moved, s)
  BY <1>1 DEF Sessions, SamePlace
<1>4. /\ \A p \in Payments : moved.row[p] = IF p \in took THEN news[p] ELSE s.row[p]
      /\ moved.dirtyP = s.dirtyP \cup {p \in took : news[p] # s.row[p]}
      /\ moved.booking = s.booking /\ moved.dirtyR = s.dirtyR
  BY DEF Sessions
<1> HIDE DEF moved, pulled
<1>5. CASE ~pulled
  BY <1>2, <1>3, <1>4, <1>5 DEF Hears, pulled, took
<1>6. CASE pulled
  <2> DEFINE t == SetBooking(moved, r, "PAYMENT_AUTHORIZED")
  <2>1. t \in Sessions /\ SamePlace(t, moved)
    BY <1>3 DEF SetBooking, Sessions, SamePlace, ReservationStatus, Open
  <2>2. /\ t.row = moved.row /\ t.dirtyP = moved.dirtyP
        /\ t.dirtyR = moved.dirtyR \cup {r}
        /\ \A q \in Reservations :
             t.booking[q] = IF q = r THEN "PAYMENT_AUTHORIZED" ELSE moved.booking[q]
    BY <1>3 DEF SetBooking, Sessions
  <2>3. SamePlace(t, s)
    BY <1>3, <2>1 DEF SamePlace
  <2>4. Applied(s, r, news) = t
    BY <1>2, <1>6
  <2> HIDE DEF t
  <2> QED  BY <1>4, <1>6, <2>1, <2>2, <2>3, <2>4 DEF Hears, pulled, took
<1> QED  BY <1>5, <1>6

(* News about rows that the session has loaded keep them in order.           *)
LEMMA HearsRows ==
  ASSUME NEW s \in Sessions, NEW t \in Sessions, NEW r, NEW news, NEW pay,
         Hears(t, s, r, news), RowsInOrder(s, pay), s.at # "refund",
         \A p \in PaymentsOf(r) : news[p] # "NONE" => s.row[p] # "NONE"
  PROVE  RowsInOrder(t, pay)
<1> DEFINE took == Took(s, r, news)
<1>1. /\ \A p \in Payments : t.row[p] = IF p \in took THEN news[p] ELSE s.row[p]
      /\ t.dirtyP = s.dirtyP \cup {p \in took : news[p] # s.row[p]}
      /\ SamePlace(t, s)
  BY DEF Hears
<1>2. /\ took \subseteq Payments /\ s.dirtyP \subseteq Payments
      /\ \A p \in took : /\ news[p] # "NONE" /\ s.row[p] # "NONE"
                         /\ news[p] = s.row[p] \/ s.row[p] \notin Settled
  BY DEF Took, PaymentsOf, Applies, Sessions
<1> HIDE DEF took
<1>3. ASSUME NEW p \in Payments \ t.dirtyP PROVE t.row[p] \in {"NONE", pay[p]}
  <2>1. p \notin s.dirtyP /\ (p \in took => news[p] = s.row[p])
    BY <1>1, <1>3
  <2> QED  BY <1>1, <2>1 DEF RowsInOrder
<1>4. ASSUME NEW p \in t.dirtyP
      PROVE  t.row[p] # "NONE" /\ pay[p] # "NONE" /\ Settles(pay[p], t.row[p])
  <2>1. p \in Payments
    BY <1>1, <1>2, <1>4
  <2>2. CASE p \notin took
    BY <1>1, <1>4, <2>1, <2>2 DEF RowsInOrder
  <2>3. CASE p \in took
    <3>1. t.row[p] = news[p]
      BY <1>1, <2>1, <2>3
    <3>2. CASE p \in s.dirtyP
      <4>1. pay[p] # "NONE" /\ Settles(pay[p], s.row[p])
        BY <3>2 DEF RowsInOrder
      <4>2. "REFUNDED" \in Settled
        BY DEF Settled
      <4> QED  BY <1>2, <2>3, <3>1, <4>1, <4>2 DEF Settles
    <3>3. CASE p \notin s.dirtyP
      <4>1. s.row[p] = pay[p]
        BY <1>2, <2>1, <2>3, <3>3 DEF RowsInOrder
      <4> QED  BY <1>2, <2>3, <3>1, <4>1 DEF Settles
    <3> QED  BY <3>2, <3>3
  <2> QED  BY <2>2, <2>3
<1>5. t.at = "reconcile" => \A p \in t.todoP : t.row[p] # "NONE"
  <2>1. t.todoP = s.todoP /\ t.at = s.at /\ t.todoP \subseteq Payments
    BY <1>1 DEF SamePlace, Sessions
  <2> QED  BY <1>1, <1>2, <2>1 DEF RowsInOrder
<1>6. t.at # "refund"
  BY <1>1 DEF SamePlace
<1>7. t.at = "sync" /\ t.op \in {"poll", "webhook"} => t.p \in Payments /\ t.row[t.p] # "NONE"
  BY <1>1, <1>2 DEF SamePlace, RowsInOrder
<1> QED  BY <1>3, <1>4, <1>5, <1>6, <1>7 DEF RowsInOrder

LEMMA HeardHears ==
  ASSUME TypeOK, NEW s \in Sessions, NEW r \in Reservations, NEW ps, NEW silent
  PROVE  /\ Heard(s, r, ps, silent) \in Sessions
         /\ Hears(Heard(s, r, ps, silent), s, r, News(ps, silent))
<1>1. News(ps, silent) \in [Payments -> PaymentStatus \cup {"NONE"}]
  BY MapStatusType DEF News, TypeOK
<1> QED  BY <1>1, AppliedHears DEF Heard

LEMMA HeardRows ==
  ASSUME TypeOK, NEW s \in Sessions, NEW r \in Reservations, NEW ps, NEW silent,
         RowsInOrder(s, payment), s.at # "refund",
         \A p \in PaymentsOf(r) \cap ps : s.row[p] # "NONE"
  PROVE  RowsInOrder(Heard(s, r, ps, silent), payment)
<1>1. \A p \in PaymentsOf(r) : News(ps, silent)[p] # "NONE" => s.row[p] # "NONE"
  BY DEF News, PaymentsOf
<1> QED  BY <1>1, HeardHears, HearsRows

LEMMA IdleRows ==
  ASSUME NEW pay
  PROVE  Idle \in Sessions /\ RowsInOrder(Idle, pay) /\ Idle.at = "idle" /\ Idle.dirtyP = {}
BY IdleTrue DEF RowsInOrder, Idle

(* Who may start finds everybody idle; who goes on is the only one.          *)
LEMMA OthersIdle ==
  ASSUME Alone, Named, NEW h \in Handlers,
         session[h].at # "idle" \/ \A k \in Handlers : session[k].at = "idle"
  PROVE  \A k \in Handlers \ {h} : session[k] = Idle
BY DEF Alone, Named

LEMMA GoInOrder ==
  ASSUME session \in [Handlers -> Sessions], NEW h \in Handlers, NEW t,
         \A k \in Handlers \ {h} : session[k] = Idle,
         Go(h, t), t.at = "idle" => t = Idle, OfScheduler(t, h), RowsInOrder(t, payment')
  PROVE  Alone' /\ Named' /\ InOrder'
<1>1. session'[h] = t /\ \A k \in Handlers \ {h} : session'[k] = Idle
  BY DEF Go
<1>2. Alone'
  BY <1>1, IdleRows DEF Alone
<1>3. Named'
  BY <1>1, IdleRows DEF Named, OfScheduler
<1>4. InOrder'
  BY <1>1, IdleRows DEF InOrder
<1> QED  BY <1>2, <1>3, <1>4

(* A commit keeps every row that exists, and the links.                      *)
LEMMA LinksKept ==
  ASSUME LinksTrue, UNCHANGED yookassa,
         \A p \in Payments : payment[p] # "NONE" => payment'[p] # "NONE"
  PROVE  LinksTrue'
BY DEF LinksTrue, LinkTrue, yookassa

LEMMA CommitInOrder ==
  ASSUME NEW s, RowsInOrder(s, payment), Commit(s)
  PROVE  \A p \in Payments : /\ payment[p] # "NONE" => payment'[p] # "NONE"
                             /\ Settles(payment[p], payment'[p])
BY DEF RowsInOrder, Commit, Settles

LEMMA CommitLinks ==
  ASSUME NEW s, LinksTrue, RowsInOrder(s, payment), Commit(s), UNCHANGED yookassa
  PROVE  LinksTrue'
BY CommitInOrder, LinksKept

LEMMA RowsStay ==
  ASSUME LinksTrue, UNCHANGED <<yookassa, payment>>
  PROVE  LinksTrue'
BY LinksKept

(* No row is changed but by the rule.                                       *)
RowsSettle == \A p \in Payments : Settles(payment[p], payment'[p])

(* The handler ends, perhaps with a commit.                                 *)
LEMMA EndsInTurn ==
  ASSUME IInv, InTurn, NEW h \in Handlers, session[h].at # "idle", Go(h, Idle),
         LinksTrue', RowsSettle
  PROVE  InTurn' /\ RowsSettle
<1>1. session \in [Handlers -> Sessions]
  BY DEF IInv, TypeOK
<1>2. \A k \in Handlers \ {h} : session[k] = Idle
  BY OthersIdle DEF InTurn
<1>3. Alone' /\ Named' /\ InOrder'
  BY <1>1, <1>2, IdleRows, GoInOrder DEF OfScheduler
<1> QED  BY <1>3 DEF InTurn

LEMMA GoesInTurn ==
  ASSUME IInv, InTurn, NEW h \in Handlers, NEW t,
         session[h].at # "idle" \/ \A k \in Handlers : session[k].at = "idle",
         Go(h, t), t.at # "idle", OfScheduler(t, h),
         RowsInOrder(t, payment'), LinksTrue'
  PROVE  InTurn'
<1>1. session \in [Handlers -> Sessions]
  BY DEF IInv, TypeOK
<1>2. \A k \in Handlers \ {h} : session[k] = Idle
  BY OthersIdle DEF InTurn
<1>3. Alone' /\ Named' /\ InOrder'
  BY <1>1, <1>2, GoInOrder
<1> QED  BY <1>3 DEF InTurn

LEMMA Unmoved ==
  ASSUME UNCHANGED payment
  PROVE  RowsSettle
BY DEF RowsSettle, Settles

LEMMA LoadRowsFields ==
  ASSUME TypeOK, NEW s \in Sessions, NEW ps
  PROVE  LET t == LoadRows(s, ps) IN
         /\ t \in Sessions /\ SamePlace(t, s)
         /\ \A p \in Payments : t.row[p] = IF p \in ps THEN payment[p] ELSE s.row[p]
         /\ t.dirtyP = s.dirtyP /\ t.booking = s.booking /\ t.dirtyR = s.dirtyR
BY DEF LoadRows, Sessions, TypeOK, SamePlace

LEMMA LoadBookingsFields ==
  ASSUME TypeOK, NEW s \in Sessions, NEW rs
  PROVE  LET t == LoadBookings(s, rs) IN
         /\ t \in Sessions /\ SamePlace(t, s)
         /\ \A r \in Reservations :
              t.booking[r] = IF r \in rs THEN reservation[r] ELSE s.booking[r]
         /\ t.row = s.row /\ t.dirtyP = s.dirtyP /\ t.dirtyR = s.dirtyR
BY DEF LoadBookings, Sessions, TypeOK, SamePlace

LEMMA SetBookingFields ==
  ASSUME NEW s \in Sessions, NEW r \in Reservations, NEW st \in ReservationStatus
  PROVE  LET t == SetBooking(s, r, st) IN
         /\ t \in Sessions /\ SamePlace(t, s)
         /\ \A q \in Reservations : t.booking[q] = IF q = r THEN st ELSE s.booking[q]
         /\ t.dirtyR = s.dirtyR \cup {r}
         /\ t.row = s.row /\ t.dirtyP = s.dirtyP
BY DEF SetBooking, Sessions, SamePlace

LEMMA SetRowFields ==
  ASSUME NEW s \in Sessions, NEW p \in Payments, NEW st \in PaymentStatus
  PROVE  LET t == SetRow(s, p, st) IN
         /\ t \in Sessions /\ SamePlace(t, s)
         /\ \A q \in Payments : t.row[q] = IF q = p THEN st ELSE s.row[q]
         /\ t.dirtyP = s.dirtyP \cup {p}
         /\ t.booking = s.booking /\ t.dirtyR = s.dirtyR
BY DEF SetRow, Sessions, SamePlace

LEMMA Next1Fields ==
  ASSUME NEW s \in Sessions, NEW r
  PROVE  LET t == Next1(s, r) IN
         /\ t \in Sessions /\ t.at = "expire" /\ t.op = s.op
         /\ t.row = s.row /\ t.dirtyP = s.dirtyP
         /\ t.booking = s.booking /\ t.dirtyR = s.dirtyR
         /\ t.todoR = s.todoR \ {r}
BY DEF Next1, Sessions

(* Rows in order depend on the rows of a session and on its place only.      *)
LEMMA SameRows ==
  ASSUME NEW s, NEW t, NEW pay, RowsInOrder(s, pay),
         t.row = s.row, t.dirtyP = s.dirtyP,
         t.at \in {"expire", "resolve", "create", "idle"} \/ SamePlace(t, s)
  PROVE  RowsInOrder(t, pay)
BY DEF RowsInOrder, SamePlace

(* A session that has loaded rows ps and changed none, in place at.          *)
LEMMA LoadedRows ==
  ASSUME IInv, NEW s \in Sessions, NEW ps, RowsInOrder(s, payment), s.at # "refund",
         s.at = "reconcile" => \A p \in ps : payment[p] # "NONE",
         s.at = "sync" /\ s.op \in {"poll", "webhook"} => s.p \notin ps,
         \A p \in s.dirtyP \cap ps : payment[p] # "NONE"
  PROVE  RowsInOrder(LoadRows(s, ps), payment)
<1> DEFINE t == LoadRows(s, ps)
<1>1. /\ t \in Sessions /\ SamePlace(t, s)
      /\ \A p \in Payments : t.row[p] = IF p \in ps THEN payment[p] ELSE s.row[p]
      /\ t.dirtyP = s.dirtyP
  BY LoadRowsFields DEF IInv
<1> HIDE DEF t
<1>2. s.dirtyP \subseteq Payments /\ s.todoP \subseteq Payments
  BY DEF Sessions
<1>3. \A p \in Payments \ t.dirtyP : t.row[p] \in {"NONE", payment[p]}
  BY <1>1 DEF RowsInOrder
<1>4. \A p \in t.dirtyP : t.row[p] # "NONE" /\ payment[p] # "NONE"
                          /\ Settles(payment[p], t.row[p])
  BY <1>1, <1>2 DEF RowsInOrder, Settles
<1>5. t.at = "reconcile" => \A p \in t.todoP : t.row[p] # "NONE"
  BY <1>1, <1>2 DEF RowsInOrder, SamePlace
<1>6. t.at # "refund"
  BY <1>1 DEF SamePlace
<1>7. t.at = "sync" /\ t.op \in {"poll", "webhook"} => t.p \in Payments /\ t.row[t.p] # "NONE"
  BY <1>1 DEF RowsInOrder, SamePlace
<1> QED  BY <1>3, <1>4, <1>5, <1>6, <1>7, <1>1 DEF RowsInOrder, t

-----------------------------------------------------------------------------
(* The starts of handlers.                                                  *)
LEMMA StartInTurn ==
  ASSUME Serially, IInv, InTurn, NEW h \in Handlers, NEW op, NEW s \in Sessions,
         Start(h, op, s), s.at # "idle", op = "tick" <=> h = Scheduler,
         s.at = "reconcile" => s.dirtyP = {},
         NEW t, t = [s EXCEPT !.op = op], RowsInOrder(t, payment)
  PROVE  InTurn' /\ RowsSettle
<1>1. /\ \A k \in Handlers : session[k].at = "idle"
      /\ Go(h, t) /\ UNCHANGED <<yookassa, payment>>
  BY DEF Start, Serially, Go, rows
<1>2. t.at # "idle" /\ OfScheduler(t, h)
  BY DEF Sessions, OfScheduler
<1>3. LinksTrue'
  BY <1>1, RowsStay DEF InTurn
<1>4. RowsInOrder(t, payment')
  BY <1>1
<1>5. RowsSettle
  BY <1>1, Unmoved
<1> QED  BY <1>1, <1>2, <1>3, <1>4, <1>5, GoesInTurn

(* The start of a request about a reservation: rows loaded, nothing changed. *)
Fetched(at, r) ==
  LoadRows(LoadBookings([Idle EXCEPT !.at = at, !.r = r], {r}), PaymentsOf(r))

LEMMA LoadedInOrder ==
  ASSUME IInv, NEW r \in Reservations, NEW at \in {"sync", "resolve"},
         NEW op, op \notin {"poll", "webhook"},
         NEW s, s = Fetched(at, r)
  PROVE  /\ s \in Sessions /\ s.at = at
         /\ RowsInOrder([s EXCEPT !.op = op], payment)
<1> DEFINE x == [Idle EXCEPT !.at = at, !.r = r]
           y == LoadBookings(x, {r})
<1>1. /\ x \in Sessions /\ x.at = at /\ x.dirtyP = {}
      /\ \A p \in Payments : x.row[p] = "NONE"
  BY DEF Idle, Sessions
<1> HIDE DEF x
<1>2. y \in Sessions /\ SamePlace(y, x) /\ y.row = x.row /\ y.dirtyP = {}
  BY <1>1, LoadBookingsFields DEF IInv
<1> HIDE DEF y
<1>3. /\ s \in Sessions /\ s.at = at /\ s.dirtyP = {}
      /\ \A p \in Payments : s.row[p] \in {"NONE", payment[p]}
  <2>1. s = LoadRows(y, PaymentsOf(r)) /\ TypeOK
    BY DEF y, x, IInv, Fetched
  <2>2. /\ s \in Sessions /\ SamePlace(s, y) /\ s.dirtyP = y.dirtyP
        /\ \A p \in Payments : s.row[p] = IF p \in PaymentsOf(r) THEN payment[p] ELSE y.row[p]
    BY <1>2, <2>1, LoadRowsFields
  <2> QED  BY <1>1, <1>2, <2>2 DEF SamePlace
<1> DEFINE t == [s EXCEPT !.op = op]
<1>4. t.at = at /\ t.row = s.row /\ t.dirtyP = {} /\ t.op = op
  BY <1>3 DEF Sessions
<1> HIDE DEF t
<1>5. RowsInOrder(t, payment)
  BY <1>3, <1>4 DEF RowsInOrder
<1> QED  BY <1>3, <1>5 DEF t

LEMMA RequestHandler ==
  ASSUME NEW h \in Requests
  PROVE  h \in Handlers /\ h # Scheduler
BY SchedulerAssumption DEF Handlers

LEMMA StartPayInTurn ==
  ASSUME Serially, IInv, InTurn, NEW h \in Requests, NEW r \in Reservations, StartPay(h, r)
  PROVE  InTurn' /\ RowsSettle
<1> SUFFICES ASSUME NEW s, s = Fetched("sync", r)
             PROVE  InTurn' /\ RowsSettle
  OBVIOUS
<1>1. s \in Sessions /\ s.at = "sync" /\ RowsInOrder([s EXCEPT !.op = "pay"], payment)
  BY LoadedInOrder
<1>2. Start(h, "pay", s)
  BY DEF StartPay, Fetched
<1> QED  BY <1>1, <1>2, RequestHandler, StartInTurn

LEMMA StartCancelInTurn ==
  ASSUME Serially, IInv, InTurn, NEW h \in Requests, NEW r \in Reservations, StartCancel(h, r)
  PROVE  InTurn' /\ RowsSettle
<1> SUFFICES ASSUME NEW s, s = Fetched("resolve", r)
             PROVE  InTurn' /\ RowsSettle
  OBVIOUS
<1>1. s \in Sessions /\ s.at = "resolve" /\ RowsInOrder([s EXCEPT !.op = "cancel"], payment)
  BY LoadedInOrder
<1>2. Start(h, "cancel", s)
  BY DEF StartCancel, Fetched
<1> QED  BY <1>1, <1>2, RequestHandler, StartInTurn

LEMMA StartListInTurn ==
  ASSUME Serially, IInv, InTurn, NEW h \in Requests, NEW r \in Reservations, StartList(h, r)
  PROVE  InTurn' /\ RowsSettle
<1> SUFFICES ASSUME NEW s, s = Fetched("sync", r)
             PROVE  InTurn' /\ RowsSettle
  OBVIOUS
<1> DEFINE repaired == SetBooking(s, r, "PAYMENT_AUTHORIZED")
<1>1. s \in Sessions /\ s.at = "sync" /\ RowsInOrder([s EXCEPT !.op = "list"], payment)
  BY LoadedInOrder
<1>2. Start(h, "list", repaired) \/ Start(h, "list", s)
  BY DEF StartList, Fetched
<1>3. CASE Start(h, "list", s)
  BY <1>1, <1>3, RequestHandler, StartInTurn
<1>4. CASE Start(h, "list", repaired)
  <2>1. /\ repaired \in Sessions /\ SamePlace(repaired, s)
        /\ repaired.row = s.row /\ repaired.dirtyP = s.dirtyP
    BY <1>1, SetBookingFields DEF ReservationStatus, Open
  <2> HIDE DEF repaired
  <2> DEFINE t == [s EXCEPT !.op = "list"]  u == [repaired EXCEPT !.op = "list"]
  <2>2. u.row = t.row /\ u.dirtyP = t.dirtyP /\ SamePlace(u, t)
    BY <1>1, <2>1 DEF Sessions, SamePlace
  <2>3. RowsInOrder(t, payment)
    BY <1>1
  <2> HIDE DEF t, u
  <2>4. RowsInOrder(u, payment)
    BY <2>2, <2>3, SameRows
  <2>5. repaired.at = "sync"
    BY <1>1, <2>1 DEF SamePlace
  <2> QED  BY <1>4, <2>1, <2>4, <2>5, RequestHandler, StartInTurn DEF u
<1> QED  BY <1>2, <1>3, <1>4

(* A poll or a notification is about a row that exists.                      *)
LEMMA AboutRow ==
  ASSUME IInv, NEW p \in Payments, payment[p] # "NONE", NEW x \in Sessions,
         x.at = "sync", x.p = p, x.row = Idle.row, x.dirtyP = {}, NEW op
  PROVE  /\ LoadRows(x, {p}) \in Sessions /\ LoadRows(x, {p}).at = "sync"
         /\ RowsInOrder([LoadRows(x, {p}) EXCEPT !.op = op], payment)
<1> DEFINE s == LoadRows(x, {p})  t == [s EXCEPT !.op = op]
<1>1. /\ s \in Sessions /\ s.at = "sync" /\ s.p = p /\ s.dirtyP = {} /\ s.row[p] = payment[p]
      /\ \A q \in Payments : s.row[q] \in {"NONE", payment[q]}
  BY LoadRowsFields DEF IInv, SamePlace, Idle
<1> HIDE DEF s
<1>2. t.at = "sync" /\ t.p = p /\ t.dirtyP = {} /\ t.row = s.row
  BY <1>1 DEF Sessions
<1> HIDE DEF t
<1>3. RowsInOrder(t, payment)
  BY <1>1, <1>2 DEF RowsInOrder
<1> QED  BY <1>1, <1>3 DEF s, t

LEMMA StartPollInTurn ==
  ASSUME Serially, IInv, InTurn, NEW h \in Requests, NEW p \in Payments, StartPoll(h, p)
  PROVE  InTurn' /\ RowsSettle
<1> SUFFICES ASSUME NEW x, x = [Idle EXCEPT !.at = "sync", !.r = Owner[p], !.p = p]
             PROVE  InTurn' /\ RowsSettle
  OBVIOUS
<1>1. x \in Sessions /\ x.at = "sync" /\ x.p = p /\ x.row = Idle.row /\ x.dirtyP = {}
  BY OwnerAssumption DEF Idle, Sessions
<1>2. Start(h, "poll", LoadRows(x, {p})) /\ payment[p] # "NONE"
  BY DEF StartPoll
<1>3. /\ LoadRows(x, {p}) \in Sessions /\ LoadRows(x, {p}).at = "sync"
      /\ RowsInOrder([LoadRows(x, {p}) EXCEPT !.op = "poll"], payment)
  BY <1>1, <1>2, AboutRow
<1> QED  BY <1>2, <1>3, RequestHandler, StartInTurn

LEMMA StartWebhookInTurn ==
  ASSUME Serially, IInv, InTurn, NEW h \in Requests, NEW n \in notices,
         StartWebhook(h, n[2], n[1])
  PROVE  InTurn' /\ RowsSettle
<1> SUFFICES ASSUME NEW p, p = n[2], NEW st, st = n[1],
                    NEW x, x = [Idle EXCEPT !.at = "sync", !.r = Owner[p], !.p = p, !.body = st]
             PROVE  InTurn' /\ RowsSettle
  OBVIOUS
<1>1. p \in Payments /\ st \in ProviderStatus /\ <<st, p>> \in notices
  BY DEF IInv, TypeOK, StartWebhook
<1>2. payment[p] # "NONE"
  BY <1>1 DEF InTurn, LinksTrue, LinkTrue
<1>3. x \in Sessions /\ x.at = "sync" /\ x.p = p /\ x.row = Idle.row /\ x.dirtyP = {}
  BY <1>1, OwnerAssumption DEF Idle, Sessions
<1>4. Start(h, "webhook", LoadRows(x, {p}))
  BY DEF StartWebhook
<1>5. /\ LoadRows(x, {p}) \in Sessions /\ LoadRows(x, {p}).at = "sync"
      /\ RowsInOrder([LoadRows(x, {p}) EXCEPT !.op = "webhook"], payment)
  BY <1>1, <1>2, <1>3, AboutRow
<1> QED  BY <1>4, <1>5, RequestHandler, StartInTurn

LEMMA StartTickInTurn ==
  ASSUME Serially, IInv, InTurn, StartTick
  PROVE  InTurn' /\ RowsSettle
<1> DEFINE ps == {p \in Payments : payment[p] \in Unsettled}
           x == [Idle EXCEPT !.at = "reconcile", !.todoP = ps]
           s == LoadRows(x, ps)
<1>1. /\ x \in Sessions /\ x.at = "reconcile" /\ x.dirtyP = {} /\ x.todoP = ps
      /\ \A p \in Payments : x.row[p] = "NONE"
  BY DEF Idle, Sessions
<1> HIDE DEF x
<1>2. /\ s \in Sessions /\ s.at = "reconcile" /\ s.dirtyP = {} /\ s.todoP = ps
      /\ \A p \in Payments : s.row[p] = IF p \in ps THEN payment[p] ELSE "NONE"
  <2>1. TypeOK
    BY DEF IInv
  <2>2. /\ s \in Sessions /\ SamePlace(s, x) /\ s.dirtyP = x.dirtyP
        /\ \A p \in Payments : s.row[p] = IF p \in ps THEN payment[p] ELSE x.row[p]
    BY <1>1, <2>1, LoadRowsFields
  <2> QED  BY <1>1, <2>2 DEF SamePlace
<1> DEFINE t == [s EXCEPT !.op = "tick"]
<1>3. t.at = "reconcile" /\ t.dirtyP = {} /\ t.todoP = ps /\ t.row = s.row
  BY <1>2 DEF Sessions
<1> HIDE DEF t
<1>4. RowsInOrder(t, payment)
  BY <1>2, <1>3 DEF RowsInOrder, Unsettled
<1>5. Start(Scheduler, "tick", s) /\ Scheduler \in Handlers
  BY DEF StartTick, Handlers, x
<1> HIDE DEF s
<1> QED  BY <1>2, <1>4, <1>5, StartInTurn DEF t

-----------------------------------------------------------------------------
(* The answers to requests.                                                 *)
LEMMA InTurnSession ==
  ASSUME IInv, InTurn, NEW h \in Handlers
  PROVE  /\ session[h] \in Sessions /\ TypeOK /\ LinksTrue
         /\ RowsInOrder(session[h], payment) /\ OfScheduler(session[h], h)
BY DEF IInv, TypeOK, InTurn, InOrder, Named

(* A handler ends and commits a session whose rows are in order.             *)
LEMMA CommitEnds ==
  ASSUME IInv, InTurn, NEW h \in Handlers, session[h].at # "idle", Go(h, Idle),
         NEW u, RowsInOrder(u, payment), Commit(u), UNCHANGED yookassa
  PROVE  InTurn' /\ RowsSettle
<1>1. LinksTrue'
  BY CommitLinks DEF InTurn
<1>2. RowsSettle
  BY CommitInOrder DEF RowsSettle
<1> QED  BY <1>1, <1>2, EndsInTurn

LEMMA PaySyncedInTurn ==
  ASSUME Serially, IInv, InTurn, NEW h \in Requests, PaySynced(h)
  PROVE  InTurn' /\ RowsSettle
<1> DEFINE s == session[h]
           again == [Idle EXCEPT !.at = "create", !.op = "pay", !.r = s.r]
<1>1. /\ s \in Sessions /\ TypeOK /\ RowsInOrder(s, payment) /\ LinksTrue
      /\ s.at = "sync" /\ h \in Handlers /\ h # Scheduler
      /\ UNCHANGED yookassa
  BY InTurnSession, RequestHandler DEF PaySynced
<1>2. s.r \in Reservations
  BY <1>1, OfSession DEF Works
<1>3. PICK silent \in SUBSET AskedToPay(s, s.r) :
        /\ Commit(Heard(s, s.r, AskedToPay(s, s.r), silent))
        /\ Go(h, Idle) \/ Go(h, again)
  BY DEF PaySynced, Finish
<1>4. \A p \in PaymentsOf(s.r) \cap AskedToPay(s, s.r) : s.row[p] # "NONE"
  BY DEF AskedToPay
<1> DEFINE t == Heard(s, s.r, AskedToPay(s, s.r), silent)
<1>5. RowsInOrder(t, payment)
  BY <1>1, <1>2, <1>4, HeardRows
<1>6. Commit(t)
  BY <1>3
<1> HIDE DEF t
<1>7. CASE Go(h, Idle)
  BY <1>1, <1>5, <1>6, <1>7, CommitEnds
<1>8. CASE Go(h, again)
  <2>1. again.at = "create" /\ again.op = "pay" /\ again.row = Idle.row /\ again.dirtyP = {}
    BY DEF Idle
  <2> HIDE DEF again
  <2>2. RowsInOrder(again, payment')
    BY <2>1, IdleRows, SameRows DEF RowsInOrder, Idle
  <2>3. OfScheduler(again, h)
    BY <1>1, <2>1 DEF OfScheduler
  <2>4. LinksTrue'
    BY <1>1, <1>5, <1>6, CommitLinks
  <2>5. RowsSettle
    BY <1>5, <1>6, CommitInOrder DEF RowsSettle
  <2> QED  BY <1>1, <1>8, <2>1, <2>2, <2>3, <2>4, <2>5, GoesInTurn
<1> QED  BY <1>3, <1>7, <1>8

LEMMA PayAnsweredInTurn ==
  ASSUME Serially, IInv, InTurn, NEW h \in Requests, PayAnswered(h)
  PROVE  InTurn' /\ RowsSettle
<1>1. /\ session[h].at = "create" /\ Go(h, Idle) /\ h \in Handlers
      /\ UNCHANGED <<returned, notices>>
  BY RequestHandler DEF PayAnswered, Finish
<1>2. CASE UNCHANGED <<provider, payment>>
  <2>1. LinksTrue' /\ RowsSettle
    BY <1>1, <1>2, RowsStay, Unmoved DEF InTurn, yookassa
  <2> QED  BY <1>1, <2>1, EndsInTurn
<1>3. ASSUME NEW p \in PaymentsOf(session[h].r), payment[p] = "NONE",
             provider' = [provider EXCEPT ![p] = "pending"],
             payment' = [payment EXCEPT ![p] = "PENDING"]
      PROVE  InTurn' /\ RowsSettle
  <2>1. /\ provider \in [Payments -> ProviderStatus \cup {"NONE"}]
        /\ payment \in [Payments -> PaymentStatus \cup {"NONE"}] /\ p \in Payments
    BY DEF IInv, TypeOK, PaymentsOf
  <2>2. LinksTrue'
    <3>1. SUFFICES ASSUME NEW q \in Payments
                   PROVE  LinkTrue(q, provider'[q], notices, returned[q], payment'[q])
      BY <1>1 DEF LinksTrue
    <3>2. LinkTrue(q, provider[q], notices, returned[q], payment[q])
      BY DEF InTurn, LinksTrue
    <3>3. CASE q # p
      BY <1>3, <2>1, <3>2, <3>3
    <3>4. CASE q = p
      <4>1. provider'[q] = "pending" /\ payment'[q] = "PENDING" /\ provider[q] = "NONE"
        BY <1>3, <2>1, <3>2, <3>4 DEF LinkTrue
      <4>2. <<"canceled", q>> \notin notices /\ ~PaidIn(q, notices)
        BY <3>2, <4>1 DEF LinkTrue
      <4> QED  BY <3>2, <4>1, <4>2 DEF LinkTrue
    <3> QED  BY <3>3, <3>4
  <2>3. RowsSettle
    BY <1>3, <2>1 DEF RowsSettle, Settles, Settled
  <2> QED  BY <1>1, <2>2, <2>3, EndsInTurn
<1> QED  BY <1>2, <1>3 DEF PayAnswered, Exists

LEMMA StatusAnsweredInTurn ==
  ASSUME Serially, IInv, InTurn, NEW h \in Requests, StatusAnswered(h)
  PROVE  InTurn' /\ RowsSettle
<1> DEFINE s0 == session[h]
           s == LoadBookings(s0, {s0.r})
           news == [q \in Payments |-> IF q = s.p THEN MapStatus(s.body) ELSE "NONE"]
           asked == {s.p} \cap Asked(s, s.r)
<1>1. /\ s0 \in Sessions /\ TypeOK /\ RowsInOrder(s0, payment) /\ h \in Handlers
  BY InTurnSession, RequestHandler
<1>2. /\ s \in Sessions /\ SamePlace(s, s0) /\ s.row = s0.row /\ s.dirtyP = s0.dirtyP
  BY <1>1, LoadBookingsFields
<1>3. /\ s.at = "sync" /\ s.op \in {"poll", "webhook"} /\ Go(h, Idle) /\ UNCHANGED yookassa
  BY DEF StatusAnswered, Finish
<1>4. PICK silent \in SUBSET asked, trusted \in BOOLEAN :
        LET t == Heard(s, s.r, asked, silent)
            u == IF t = s /\ trusted THEN Applied(s, s.r, news) ELSE t
        IN IF <<s.body, s.p>> \in events THEN UNCHANGED rows ELSE Commit(u)
  BY DEF StatusAnswered
<1> HIDE DEF s, asked
<1>5. RowsInOrder(s, payment)
  BY <1>1, <1>2, SameRows
<1>6. s.p \in Payments /\ s.row[s.p] # "NONE" /\ s.r \in Reservations
  <2>1. Works(s0, notices) /\ s0.at = "sync" /\ s.r = s0.r
    BY <1>1, <1>2, <1>3, OfSession DEF SamePlace
  <2> QED  BY <1>3, <1>5, <2>1 DEF RowsInOrder, Works
<1>7. RowsInOrder(Applied(s, s.r, news), payment)
  <2>1. s.body \in ProviderStatus \cup {"NONE"}
    BY <1>2 DEF Sessions
  <2>2. news \in [Payments -> PaymentStatus \cup {"NONE"}]
    BY <2>1, MapStatusType
  <2>3. \A p \in PaymentsOf(s.r) : news[p] # "NONE" => s.row[p] # "NONE"
    BY <1>6 DEF PaymentsOf
  <2> HIDE DEF news
  <2>4. Applied(s, s.r, news) \in Sessions /\ Hears(Applied(s, s.r, news), s, s.r, news)
    BY <1>2, <1>6, <2>2, AppliedHears
  <2> QED  BY <1>2, <1>3, <1>5, <2>3, <2>4, HearsRows
<1>8. RowsInOrder(Heard(s, s.r, asked, silent), payment)
  <2>1. \A p \in PaymentsOf(s.r) \cap asked : s.row[p] # "NONE"
    BY <1>6 DEF asked
  <2> QED  BY <1>1, <1>2, <1>3, <1>5, <1>6, <2>1, HeardRows
<1>9. s0.at # "idle"
  BY <1>2, <1>3 DEF SamePlace
<1>10. CASE UNCHANGED rows
  <2>1. LinksTrue' /\ RowsSettle
    BY <1>3, <1>10, RowsStay, Unmoved DEF InTurn, rows
  <2> QED  BY <1>1, <1>3, <1>9, <2>1, EndsInTurn
<1>11. CASE \E u : RowsInOrder(u, payment) /\ Commit(u)
  BY <1>1, <1>3, <1>9, <1>11, CommitEnds
<1> QED  BY <1>4, <1>7, <1>8, <1>10, <1>11

LEMMA ListAnsweredInTurn ==
  ASSUME Serially, IInv, InTurn, NEW h \in Requests, ListAnswered(h)
  PROVE  InTurn' /\ RowsSettle
<1> DEFINE s == session[h]
<1>1. /\ s \in Sessions /\ TypeOK /\ RowsInOrder(s, payment) /\ h \in Handlers
      /\ s.at = "sync" /\ Go(h, Idle) /\ UNCHANGED yookassa
  BY InTurnSession, RequestHandler DEF ListAnswered, Finish
<1>2. s.r \in Reservations
  BY <1>1, OfSession DEF Works
<1>3. PICK silent \in SUBSET AskedIfUnpaid(s, s.r) :
        Commit(Heard(s, s.r, AskedIfUnpaid(s, s.r), silent))
  BY DEF ListAnswered
<1>4. \A p \in PaymentsOf(s.r) \cap AskedIfUnpaid(s, s.r) : s.row[p] # "NONE"
  BY DEF AskedIfUnpaid, Asked, Unsettled
<1>5. RowsInOrder(Heard(s, s.r, AskedIfUnpaid(s, s.r), silent), payment)
  BY <1>1, <1>2, <1>4, HeardRows
<1> QED  BY <1>1, <1>3, <1>5, CommitEnds

(* The row to refund is read again: from the database.                      *)
LEMMA CancelResolvedInTurn ==
  ASSUME Serially, IInv, InTurn, NEW h \in Requests, CancelResolved(h)
  PROVE  InTurn' /\ RowsSettle
<1> DEFINE s == session[h]
<1>1. /\ s \in Sessions /\ TypeOK /\ RowsInOrder(s, payment) /\ LinksTrue
      /\ h \in Handlers /\ h # Scheduler
      /\ s.at = "resolve" /\ s.op = "cancel" /\ UNCHANGED yookassa
  BY InTurnSession, RequestHandler DEF CancelResolved
<1>2. s.r \in Reservations
  BY <1>1, OfSession DEF Works
<1>3. PICK silent \in SUBSET AskedIfUnpaid(s, s.r) :
        LET t == Heard(s, s.r, AskedIfUnpaid(s, s.r), silent)
        IN \/ /\ \E p \in PaidRows(s.r) :
                   Go(h, [t EXCEPT !.at = "refund", !.p = p, !.row[p] = payment[p]])
              /\ UNCHANGED rows
           \/ Commit(SetBooking(t, s.r, "CANCELLED")) /\ Go(h, Idle)
  BY DEF CancelResolved, Finish
<1> DEFINE t == Heard(s, s.r, AskedIfUnpaid(s, s.r), silent)
<1>4. \A p \in PaymentsOf(s.r) \cap AskedIfUnpaid(s, s.r) : s.row[p] # "NONE"
  BY DEF AskedIfUnpaid, Asked, Unsettled
<1>5. t \in Sessions /\ RowsInOrder(t, payment) /\ SamePlace(t, s)
  BY <1>1, <1>2, <1>4, HeardRows, HeardHears DEF Hears
<1>6. \/ /\ \E p \in PaidRows(s.r) :
              Go(h, [t EXCEPT !.at = "refund", !.p = p, !.row[p] = payment[p]])
         /\ UNCHANGED rows
      \/ Commit(SetBooking(t, s.r, "CANCELLED")) /\ Go(h, Idle)
  BY <1>3
<1> HIDE DEF t
<1>7. CASE Commit(SetBooking(t, s.r, "CANCELLED")) /\ Go(h, Idle)
  <2>1. RowsInOrder(SetBooking(t, s.r, "CANCELLED"), payment)
    BY <1>2, <1>5, SetBookingFields, SameRows DEF ReservationStatus, Closed
  <2> QED  BY <1>1, <1>7, <2>1, CommitEnds
<1>8. ASSUME NEW p \in PaidRows(s.r), UNCHANGED rows,
             Go(h, [t EXCEPT !.at = "refund", !.p = p, !.row[p] = payment[p]])
      PROVE  InTurn' /\ RowsSettle
  <2> DEFINE u == [t EXCEPT !.at = "refund", !.p = p, !.row[p] = payment[p]]
  <2>1. p \in Payments /\ payment[p] \in PaidStatus /\ payment[p] # "NONE"
    BY DEF PaidRows, PaymentsOf, PaidStatus
  <2>2. /\ u.at = "refund" /\ u.p = p /\ u.op = t.op /\ u.dirtyP = t.dirtyP
        /\ \A q \in Payments : u.row[q] = IF q = p THEN payment[p] ELSE t.row[q]
    BY <1>5 DEF Sessions
  <2>3. Go(h, u) /\ UNCHANGED payment
    BY <1>8 DEF rows
  <2>4. t.dirtyP \subseteq Payments /\ t.op = "cancel"
    BY <1>1, <1>5 DEF Sessions, SamePlace
  <2> HIDE DEF u
  <2>5. RowsInOrder(u, payment)
    BY <1>5, <2>1, <2>2, <2>4 DEF RowsInOrder, Settles
  <2>6. OfScheduler(u, h)
    BY <1>1, <2>2, <2>4 DEF OfScheduler
  <2>7. LinksTrue' /\ RowsSettle
    BY <1>1, <2>3, RowsStay, Unmoved
  <2> QED  BY <1>1, <2>2, <2>3, <2>5, <2>6, <2>7, GoesInTurn
<1> QED  BY <1>6, <1>7, <1>8

(* Refunds: whatever the caller learns, the money leaves at most once.       *)
LEMMA GiveBackLinks ==
  ASSUME IInv, LinksTrue, NEW p \in Payments, NEW seen, NEW ok,
         GiveBack(p, seen, ok),
         \A q \in Payments : payment[q] # "NONE" => payment'[q] # "NONE"
  PROVE  LinksTrue'
<1>1. /\ provider \in [Payments -> ProviderStatus \cup {"NONE"}]
      /\ returned \in [Payments -> BOOLEAN]
      /\ notices \subseteq ProviderStatus \X Payments
      /\ provider[p] \in {"succeeded", "waiting_for_capture"} => PaidIn(p, notices)
  BY DEF IInv, TypeOK, Grounded, ProviderTrue
<1>2. CASE UNCHANGED yookassa
  BY <1>2, LinksKept
<1>3. CASE Refundable(p, seen) /\ MoneyLeaves(p)
  <2>1. PaidIn(p, notices)
    BY <1>1, <1>3 DEF Refundable
  <2>2. SUFFICES ASSUME NEW q \in Payments
                 PROVE  LinkTrue(q, provider'[q], notices', returned'[q], payment'[q])
    BY DEF LinksTrue
  <2>3. LinkTrue(q, provider[q], notices, returned[q], payment[q])
    BY DEF LinksTrue
  <2>4. returned' = [returned EXCEPT ![p] = TRUE]
    BY <1>3 DEF MoneyLeaves
  <2>5. CASE provider[p] = "waiting_for_capture"
    <3>1. /\ provider' = [provider EXCEPT ![p] = "canceled"]
          /\ notices' = notices \cup {<<"canceled", p>>}
      BY <1>3, <2>5 DEF MoneyLeaves
    <3>2. PaidIn(q, notices') <=> PaidIn(q, notices)
      BY <3>1 DEF PaidIn
    <3>3. CASE q = p
      <4>1. provider'[q] = "canceled" /\ returned'[q] = TRUE
        BY <1>1, <2>4, <3>1, <3>3
      <4> QED  BY <2>1, <2>3, <2>5, <3>1, <3>2, <3>3, <4>1 DEF LinkTrue
    <3>4. CASE q # p
      <4>1. provider'[q] = provider[q] /\ returned'[q] = returned[q]
            /\ \A st : <<st, q>> \in notices' <=> <<st, q>> \in notices
        BY <1>1, <2>4, <3>1, <3>4
      <4> QED  BY <2>3, <3>2, <4>1 DEF LinkTrue
    <3> QED  BY <3>3, <3>4
  <2>6. CASE provider[p] # "waiting_for_capture"
    <3>1. UNCHANGED <<provider, notices>>
      BY <1>3, <2>6 DEF MoneyLeaves
    <3>2. returned'[q] = IF q = p THEN TRUE ELSE returned[q]
      BY <1>1, <2>4
    <3> QED  BY <2>1, <2>3, <2>6, <3>1, <3>2 DEF LinkTrue
  <2> QED  BY <2>5, <2>6
<1> QED  BY <1>2, <1>3 DEF GiveBack

(* The refunded row and its reservation, in order.                          *)
LEMMA GivenBackRows ==
  ASSUME NEW s \in Sessions, RowsInOrder(s, payment), NEW p \in Payments,
         s.at \notin {"reconcile", "sync", "refund"},
         s.row[p] = payment[p], payment[p] \in PaidStatus,
         NEW r \in Reservations, NEW st \in Closed,
         NEW e, e = SetBooking(SetRow(s, p, ReturnedStatus(s.row[p])), r, st)
  PROVE  RowsInOrder(e, payment)
<1> DEFINE x == SetRow(s, p, ReturnedStatus(s.row[p]))
<1>1. ReturnedStatus(s.row[p]) \in PaymentStatus
  BY DEF ReturnedStatus, PaymentStatus, Settled
<1>2. /\ x \in Sessions /\ SamePlace(x, s) /\ x.dirtyP = s.dirtyP \cup {p}
      /\ \A q \in Payments :
           x.row[q] = IF q = p THEN ReturnedStatus(s.row[p]) ELSE s.row[q]
  BY <1>1, SetRowFields
<1> HIDE DEF x
<1>3. s.dirtyP \subseteq Payments
  BY DEF Sessions
<1>4. /\ Settles(payment[p], ReturnedStatus(s.row[p])) /\ payment[p] # "NONE"
      /\ ReturnedStatus(s.row[p]) # "NONE"
  BY DEF Settles, ReturnedStatus, PaidStatus, Settled
<1>5. RowsInOrder(x, payment)
  BY <1>2, <1>3, <1>4 DEF RowsInOrder, SamePlace
<1>6. SetBooking(x, r, st).row = x.row /\ SetBooking(x, r, st).dirtyP = x.dirtyP
      /\ SamePlace(SetBooking(x, r, st), x)
  BY <1>2, SetBookingFields DEF ReservationStatus
<1> QED  BY <1>5, <1>6, SameRows DEF x

(* Rows in order outside the phases that say more.                          *)
LEMMA CommitOrder ==
  ASSUME NEW s, RowsInOrder(s, payment), Commit(s)
  PROVE  RowsSettle /\ \A q \in Payments : payment[q] # "NONE" => payment'[q] # "NONE"
BY CommitInOrder DEF RowsSettle

RefundedRow(s, p) == SetRow(s, p, ReturnedStatus(s.row[p]))
LEMMA RefundCommit ==
  ASSUME NEW s \in Sessions, RowsInOrder(s, payment), s.at = "refund", s.p \in Payments,
         NEW r \in Reservations, NEW st \in Closed,
         Commit(SetBooking(RefundedRow(s, s.p), r, st))
  PROVE  RowsSettle /\ \A q \in Payments : payment[q] # "NONE" => payment'[q] # "NONE"
<1> DEFINE x == RefundedRow(s, s.p)  e == SetBooking(x, r, st)
<1>1. ReturnedStatus(s.row[s.p]) \in PaymentStatus
  BY DEF ReturnedStatus, PaymentStatus, Settled
<1>2. /\ x \in Sessions /\ x.dirtyP = s.dirtyP \cup {s.p}
      /\ \A q \in Payments :
           x.row[q] = IF q = s.p THEN ReturnedStatus(s.row[s.p]) ELSE s.row[q]
  BY <1>1, SetRowFields DEF RefundedRow
<1> HIDE DEF x
<1>3. e.row = x.row /\ e.dirtyP = x.dirtyP
  BY <1>2, SetBookingFields DEF ReservationStatus
<1> HIDE DEF e
<1>4. \A q \in Payments : payment'[q] = IF q \in e.dirtyP THEN e.row[q] ELSE payment[q]
  BY DEF Commit, e, x
<1>5. s.row[s.p] = payment[s.p] /\ payment[s.p] \in PaidStatus
  BY DEF RowsInOrder
<1>6. /\ Settles(payment[s.p], ReturnedStatus(payment[s.p]))
      /\ ReturnedStatus(payment[s.p]) # "NONE"
  BY <1>5 DEF Settles, ReturnedStatus, PaidStatus, Settled
<1>7. ASSUME NEW q \in Payments
      PROVE  /\ payment[q] # "NONE" => payment'[q] # "NONE"
             /\ Settles(payment[q], payment'[q])
  <2>1. CASE q = s.p
    BY <1>2, <1>3, <1>4, <1>5, <1>6, <2>1
  <2>2. CASE q # s.p /\ q \in s.dirtyP
    BY <1>2, <1>3, <1>4, <2>2 DEF RowsInOrder
  <2>3. CASE q # s.p /\ q \notin s.dirtyP
    BY <1>2, <1>3, <1>4, <2>3 DEF Settles
  <2> QED  BY <2>1, <2>2, <2>3
<1> QED  BY <1>7 DEF RowsSettle

LEMMA CancelRefundedInTurn ==
  ASSUME Serially, IInv, InTurn, NEW h \in Requests, CancelRefunded(h)
  PROVE  InTurn' /\ RowsSettle
<1> DEFINE s == session[h]
<1>1. /\ s \in Sessions /\ TypeOK /\ RowsInOrder(s, payment) /\ LinksTrue /\ h \in Handlers
      /\ s.at = "refund" /\ Go(h, Idle)
  BY InTurnSession, RequestHandler DEF CancelRefunded, Finish
<1>2. s.r \in Reservations /\ s.p \in Payments
  BY <1>1, OfSession DEF Works
<1>3. PICK ok \in BOOLEAN :
        /\ GiveBack(s.p, s.row[s.p], ok)
        /\ IF ok THEN Commit(SetBooking(RefundedRow(s, s.p), s.r, "CANCELLED"))
                 ELSE UNCHANGED rows
  BY DEF CancelRefunded, RefundedRow
<1>4. RowsSettle /\ \A q \in Payments : payment[q] # "NONE" => payment'[q] # "NONE"
  <2>1. CASE ok
    BY <1>1, <1>2, <1>3, <2>1, RefundCommit DEF Closed
  <2>2. CASE ~ok
    BY <1>3, <2>2, Unmoved DEF rows
  <2> QED  BY <2>1, <2>2
<1>5. LinksTrue'
  BY <1>1, <1>2, <1>3, <1>4, GiveBackLinks
<1> QED  BY <1>1, <1>4, <1>5, EndsInTurn

-----------------------------------------------------------------------------
(* The scheduler.                                                           *)

LEMMA ItsSession ==
  ASSUME IInv, InTurn
  PROVE  LET s == session[Scheduler] IN
         /\ s \in Sessions /\ RowsInOrder(s, payment) /\ Scheduler \in Handlers
         /\ Works(s, notices) /\ TypeOK /\ LinksTrue
         /\ s.at # "idle" => s.op = "tick"
         /\ s.at = "reconcile" => s.dirtyP = {}
<1>1. Scheduler \in Handlers
  BY DEF Handlers
<1> QED  BY <1>1, InTurnSession, OfSession DEF OfScheduler

(* It goes on, with nothing written.                                        *)
LEMMA SchedulerGoes ==
  ASSUME IInv, InTurn, session[Scheduler].at # "idle", NEW t,
         Go(Scheduler, t), t.at \notin {"idle", "reconcile"}, t.op = "tick",
         RowsInOrder(t, payment), UNCHANGED <<yookassa, rows>>
  PROVE  InTurn' /\ RowsSettle
<1>1. LinksTrue' /\ RowsSettle
  BY RowsStay, Unmoved DEF InTurn, rows
<1>2. RowsInOrder(t, payment') /\ OfScheduler(t, Scheduler) /\ Scheduler \in Handlers
  BY DEF rows, OfScheduler, Handlers
<1> QED  BY <1>1, <1>2, GoesInTurn

LEMMA ReconciledInTurn ==
  ASSUME Serially, IInv, InTurn, NEW p \in Payments, Reconciled(p)
  PROVE  InTurn' /\ RowsSettle
<1> DEFINE s0 == session[Scheduler]
           s == LoadBookings(s0, {Owner[p]})
           next == [s0 EXCEPT !.todoP = @ \ {p}, !.row[p] = "NONE"]
<1>1. /\ s0 \in Sessions /\ TypeOK /\ LinksTrue /\ RowsInOrder(s0, payment)
      /\ Scheduler \in Handlers
      /\ s0.at # "idle" => s0.op = "tick"
      /\ s0.at = "reconcile" => s0.dirtyP = {}
  BY ItsSession
<1>2. /\ s \in Sessions /\ SamePlace(s, s0) /\ s.row = s0.row /\ s.dirtyP = s0.dirtyP
  BY <1>1, LoadBookingsFields
<1>3. /\ s.at = "reconcile" /\ p \in s.todoP /\ Go(Scheduler, next) /\ UNCHANGED yookassa
  BY DEF Reconciled
<1>4. PICK silent : Commit(Heard(s, Owner[p], {p}, silent))
  BY DEF Reconciled
<1> HIDE DEF s
<1> DEFINE t == Heard(s, Owner[p], {p}, silent)
<1>5. RowsInOrder(s, payment) /\ s.row[p] # "NONE" /\ Owner[p] \in Reservations
  BY <1>1, <1>2, <1>3, SameRows, OwnerAssumption DEF RowsInOrder
<1>6. \A q \in PaymentsOf(Owner[p]) \cap {p} : s.row[q] # "NONE"
  BY <1>5
<1>7. RowsInOrder(t, payment) /\ t \in Sessions /\ Hears(t, s, Owner[p], News({p}, silent))
  BY <1>1, <1>2, <1>3, <1>5, <1>6, HeardRows, HeardHears
<1>8. LinksTrue' /\ RowsSettle
  BY <1>1, <1>3, <1>4, <1>7, CommitLinks, CommitInOrder DEF RowsSettle
<1>9. s0.dirtyP = {} /\ s0.op = "tick" /\ s0.at = "reconcile"
  BY <1>1, <1>2, <1>3 DEF SamePlace
<1>10. \A q \in Payments \ {p} : payment'[q] = payment[q]
  <2>1. t.dirtyP = s.dirtyP \cup {q \in Took(s, Owner[p], News({p}, silent)) :
                                   News({p}, silent)[q] # s.row[q]}
    BY <1>7 DEF Hears
  <2>2. Took(s, Owner[p], News({p}, silent)) \subseteq {p}
    BY DEF Took, Applies, News, PaymentsOf
  <2>3. t.dirtyP \subseteq {p}
    BY <1>2, <1>9, <2>1, <2>2
  <2> QED  BY <1>4, <2>3 DEF Commit
<1>11. /\ next.at = "reconcile" /\ next.op = "tick" /\ next.dirtyP = {}
       /\ next.todoP = s0.todoP \ {p}
       /\ \A q \in Payments : next.row[q] = IF q = p THEN "NONE" ELSE s0.row[q]
  BY <1>1, <1>9 DEF Sessions
<1> HIDE DEF next, t
<1>12. s0.todoP \subseteq Payments
  BY <1>1 DEF Sessions
<1>13. RowsInOrder(next, payment')
  BY <1>1, <1>9, <1>10, <1>11, <1>12 DEF RowsInOrder
<1>14. OfScheduler(next, Scheduler)
  BY <1>11 DEF OfScheduler
<1>15. s0.at # "idle"
  BY <1>9
<1> QED  BY <1>1, <1>3, <1>8, <1>11, <1>13, <1>14, <1>15, GoesInTurn DEF s0

LEMMA StartExpiryInTurn ==
  ASSUME Serially, IInv, InTurn, StartExpiry
  PROVE  InTurn' /\ RowsSettle
<1> DEFINE stale == {r \in Reservations : due[r] /\ reservation[r] \in Open}
           x == [Idle EXCEPT !.at = "expire", !.op = "tick", !.todoR = stale]
           t == LoadBookings(x, stale)
<1>1. /\ x \in Sessions /\ x.at = "expire" /\ x.op = "tick"
      /\ x.row = Idle.row /\ x.dirtyP = {}
  BY DEF Idle, Sessions
<1> HIDE DEF x
<1>2. t \in Sessions /\ SamePlace(t, x) /\ t.row = x.row /\ t.dirtyP = x.dirtyP
  BY <1>1, ItsSession, LoadBookingsFields
<1>3. /\ session[Scheduler].at # "idle" /\ Go(Scheduler, t)
      /\ UNCHANGED <<yookassa, rows>>
  BY DEF StartExpiry, x
<1> HIDE DEF t
<1>4. t.at = "expire" /\ t.op = "tick" /\ t.row = Idle.row /\ t.dirtyP = Idle.dirtyP
  BY <1>1, <1>2, IdleRows DEF SamePlace
<1>5. RowsInOrder(t, payment)
  BY <1>4, IdleRows, SameRows
<1> QED  BY <1>3, <1>4, <1>5, SchedulerGoes

LEMMA ExpireUnpaidInTurn ==
  ASSUME Serially, IInv, InTurn, NEW r \in Reservations, ExpireUnpaid(r)
  PROVE  InTurn' /\ RowsSettle
<1> DEFINE s == session[Scheduler]
           x == [s EXCEPT !.at = "resolve", !.r = r]
           t == LoadRows(x, PaymentsOf(r))
<1>1. s \in Sessions /\ RowsInOrder(s, payment) /\ s.at = "expire" /\ s.op = "tick"
  BY ItsSession DEF ExpireUnpaid
<1>2. /\ x \in Sessions /\ x.at = "resolve" /\ x.op = "tick"
      /\ x.row = s.row /\ x.dirtyP = s.dirtyP
  BY <1>1 DEF Sessions
<1>3. /\ Go(Scheduler, t) /\ UNCHANGED <<yookassa, rows>>
  BY DEF ExpireUnpaid
<1> HIDE DEF x
<1>4. RowsInOrder(x, payment)
  BY <1>1, <1>2, SameRows
<1>5. \A p \in x.dirtyP : payment[p] # "NONE"
  BY <1>4 DEF RowsInOrder
<1>6. RowsInOrder(t, payment)
  BY <1>2, <1>4, <1>5, LoadedRows
<1>7. t.at = "resolve" /\ t.op = "tick"
  BY <1>2, ItsSession, LoadRowsFields DEF SamePlace
<1> HIDE DEF t, s
<1>8. session[Scheduler].at # "idle"
  BY <1>1 DEF s
<1> QED  BY <1>3, <1>6, <1>7, <1>8, SchedulerGoes

LEMMA ExpireResolvedInTurn ==
  ASSUME Serially, IInv, InTurn, ExpireResolved
  PROVE  InTurn' /\ RowsSettle
<1> DEFINE s == session[Scheduler]
<1>1. /\ s \in Sessions /\ TypeOK /\ RowsInOrder(s, payment) /\ s.at = "resolve"
      /\ s.op = "tick" /\ s.r \in Reservations /\ UNCHANGED <<yookassa, rows>>
  BY ItsSession DEF ExpireResolved, Works
<1>2. PICK silent :
        LET t == Next1(Heard(s, s.r, Asked(s, s.r), silent), s.r)
        IN Go(Scheduler, IF t.booking[s.r] = "PAYMENT_AUTHORIZED"
                           THEN t ELSE SetBooking(t, s.r, "EXPIRED"))
  BY DEF ExpireResolved
<1> DEFINE w == Heard(s, s.r, Asked(s, s.r), silent)
           t == Next1(w, s.r)
<1>3. \A p \in PaymentsOf(s.r) \cap Asked(s, s.r) : s.row[p] # "NONE"
  BY DEF Asked, Unsettled
<1>4. w \in Sessions /\ RowsInOrder(w, payment) /\ w.op = "tick"
  BY <1>1, <1>3, HeardRows, HeardHears DEF Hears, SamePlace
<1>5. Go(Scheduler, t) \/ Go(Scheduler, SetBooking(t, s.r, "EXPIRED"))
  BY <1>2
<1> HIDE DEF w
<1>6. /\ t \in Sessions /\ t.at = "expire" /\ t.op = "tick"
      /\ t.row = w.row /\ t.dirtyP = w.dirtyP
  BY <1>4, Next1Fields
<1> HIDE DEF t
<1>7. RowsInOrder(t, payment)
  BY <1>4, <1>6, SameRows
<1> DEFINE u == SetBooking(t, s.r, "EXPIRED")
<1>8. /\ u \in Sessions /\ u.at = "expire" /\ u.op = "tick"
      /\ u.row = t.row /\ u.dirtyP = t.dirtyP
  BY <1>1, <1>6, SetBookingFields DEF ReservationStatus, Closed, SamePlace
<1> HIDE DEF u
<1>9. RowsInOrder(u, payment)
  BY <1>7, <1>8, SameRows
<1>10. CASE Go(Scheduler, t)
  BY <1>1, <1>6, <1>7, <1>10, SchedulerGoes
<1>11. CASE Go(Scheduler, u)
  BY <1>1, <1>8, <1>9, <1>11, SchedulerGoes
<1> QED  BY <1>5, <1>10, <1>11 DEF u

(* The row to refund is read again.                                         *)
LEMMA ExpirePaidInTurn ==
  ASSUME Serially, IInv, InTurn, NEW r \in Reservations, ExpirePaid(r)
  PROVE  InTurn' /\ RowsSettle
<1> DEFINE s == session[Scheduler]
<1>1. /\ s \in Sessions /\ TypeOK /\ RowsInOrder(s, payment) /\ s.at = "expire"
      /\ s.op = "tick" /\ UNCHANGED <<yookassa, rows>>
  BY ItsSession DEF ExpirePaid
<1>2. CASE Go(Scheduler, SetBooking(Next1(s, r), r, "EXPIRED"))
  <2> DEFINE t == Next1(s, r)  u == SetBooking(t, r, "EXPIRED")
  <2>1. /\ t \in Sessions /\ t.at = "expire" /\ t.op = "tick"
        /\ t.row = s.row /\ t.dirtyP = s.dirtyP
    BY <1>1, Next1Fields
  <2> HIDE DEF t
  <2>2. /\ u \in Sessions /\ u.at = "expire" /\ u.op = "tick"
        /\ u.row = s.row /\ u.dirtyP = s.dirtyP
    BY <2>1, SetBookingFields DEF ReservationStatus, Closed, SamePlace
  <2>3. Go(Scheduler, u)
    BY <1>2 DEF t
  <2> HIDE DEF u
  <2>4. RowsInOrder(u, payment)
    BY <1>1, <2>2, SameRows
  <2> QED  BY <1>1, <2>2, <2>3, <2>4, SchedulerGoes
<1>3. ASSUME NEW p \in PaidRows(r),
             Go(Scheduler, LoadRows([s EXCEPT !.at = "refund", !.r = r, !.p = p], {p}))
      PROVE  InTurn' /\ RowsSettle
  <2> DEFINE x == [s EXCEPT !.at = "refund", !.r = r, !.p = p]
             t == LoadRows(x, {p})
  <2>1. p \in Payments /\ payment[p] \in PaidStatus /\ payment[p] # "NONE"
    BY DEF PaidRows, PaymentsOf, PaidStatus
  <2>2. /\ x \in Sessions /\ x.at = "refund" /\ x.op = "tick" /\ x.p = p
        /\ x.row = s.row /\ x.dirtyP = s.dirtyP
    BY <1>1, <2>1 DEF Sessions
  <2> HIDE DEF x
  <2>3. /\ t \in Sessions /\ SamePlace(t, x) /\ t.dirtyP = s.dirtyP
        /\ \A q \in Payments : t.row[q] = IF q = p THEN payment[p] ELSE s.row[q]
    BY <1>1, <2>2, LoadRowsFields
  <2>4. Go(Scheduler, t)
    BY <1>3 DEF x
  <2> HIDE DEF t
  <2>5. t.at = "refund" /\ t.op = "tick" /\ t.p = p /\ s.dirtyP \subseteq Payments
    BY <1>1, <2>2, <2>3 DEF SamePlace, Sessions
  <2>6. RowsInOrder(t, payment)
    BY <1>1, <2>1, <2>3, <2>5 DEF RowsInOrder, Settles
  <2>7. session[Scheduler].at # "idle" /\ t.at \notin {"idle", "reconcile"}
    BY <1>1, <2>5
  <2> QED  BY <1>1, <2>4, <2>5, <2>6, <2>7, SchedulerGoes
<1> QED  BY <1>2, <1>3 DEF ExpirePaid

LEMMA ExpireRefundedInTurn ==
  ASSUME Serially, IInv, InTurn, ExpireRefunded
  PROVE  InTurn' /\ RowsSettle
<1> DEFINE s == session[Scheduler]
<1>1. /\ s \in Sessions /\ TypeOK /\ LinksTrue /\ RowsInOrder(s, payment) /\ s.at = "refund"
      /\ s.op = "tick" /\ s.r \in Reservations /\ s.p \in Payments
      /\ Scheduler \in Handlers /\ UNCHANGED rows
  BY ItsSession DEF ExpireRefunded, Works
<1>2. s.row[s.p] = payment[s.p] /\ payment[s.p] \in PaidStatus
  BY <1>1 DEF RowsInOrder
<1> DEFINE n == Next1(s, s.r)
           e == SetBooking(SetRow(n, s.p, ReturnedStatus(n.row[s.p])), s.r, "EXPIRED")
<1>3. /\ n \in Sessions /\ n.at = "expire" /\ n.op = "tick"
      /\ n.row = s.row /\ n.dirtyP = s.dirtyP
  BY <1>1, Next1Fields
<1>4. PICK ok \in BOOLEAN : /\ GiveBack(s.p, s.row[s.p], ok)
                            /\ Go(Scheduler, IF ok THEN e ELSE n)
  BY <1>3 DEF ExpireRefunded
<1> HIDE DEF n
<1>5. RowsInOrder(n, payment)
  BY <1>1, <1>3, SameRows
<1>6. RowsInOrder(e, payment)
  BY <1>1, <1>2, <1>3, <1>5, GivenBackRows DEF Closed
<1>7. e.at = "expire" /\ e.op = "tick"
  <2>1. ReturnedStatus(n.row[s.p]) \in PaymentStatus
    BY DEF ReturnedStatus, PaymentStatus, Settled
  <2>2. /\ SetRow(n, s.p, ReturnedStatus(n.row[s.p])) \in Sessions
        /\ SamePlace(SetRow(n, s.p, ReturnedStatus(n.row[s.p])), n)
    BY <1>1, <1>3, <2>1, SetRowFields
  <2> QED  BY <1>1, <1>3, <2>2, SetBookingFields DEF SamePlace, ReservationStatus, Closed
<1> HIDE DEF e
<1>8. LinksTrue' /\ RowsSettle
  BY <1>1, <1>4, GiveBackLinks, Unmoved DEF rows
<1>9. UNCHANGED payment
  BY <1>1 DEF rows
<1>10. s.at # "idle"
  BY <1>1
<1> HIDE DEF s
<1>11. ASSUME NEW t, Go(Scheduler, t), t.at = "expire", t.op = "tick", RowsInOrder(t, payment)
       PROVE  InTurn'
  <2>1. OfScheduler(t, Scheduler) /\ RowsInOrder(t, payment') /\ t.at # "idle"
    BY <1>9, <1>11 DEF OfScheduler
  <2> QED  BY <1>1, <1>8, <1>10, <1>11, <2>1, GoesInTurn DEF s
<1> QED  BY <1>3, <1>4, <1>5, <1>6, <1>7, <1>8, <1>11

LEMMA ExpiryCommittedInTurn ==
  ASSUME Serially, IInv, InTurn, ExpiryCommitted
  PROVE  InTurn' /\ RowsSettle
<1>1. /\ RowsInOrder(session[Scheduler], payment) /\ session[Scheduler].at # "idle"
      /\ Scheduler \in Handlers /\ Go(Scheduler, Idle)
      /\ Commit(session[Scheduler]) /\ UNCHANGED yookassa
  BY ItsSession DEF ExpiryCommitted, Finish
<1> QED  BY <1>1, CommitEnds

-----------------------------------------------------------------------------
(* What happens outside the handlers.                                       *)

LEMMA OutsideInTurn ==
  ASSUME InTurn, UNCHANGED <<session, payment>>, LinksTrue'
  PROVE  InTurn' /\ RowsSettle
<1>1. Alone' /\ Named'
  BY DEF InTurn, Alone, Named
<1>2. InOrder'
  BY DEF InTurn, InOrder
<1> QED  BY <1>1, <1>2, Unmoved DEF InTurn

(* A link at the provider moves from pending to st, and YooKassa says so.    *)
LEMMA LinkMoves ==
  ASSUME IInv, InTurn, NEW p \in Payments, provider[p] = "pending",
         NEW st \in {"succeeded", "waiting_for_capture", "canceled"},
         provider' = [provider EXCEPT ![p] = st],
         notices' = notices \cup {<<st, p>>},
         UNCHANGED <<session, payment, returned>>
  PROVE  InTurn' /\ RowsSettle
<1>1. /\ provider \in [Payments -> ProviderStatus \cup {"NONE"}]
  BY DEF IInv, TypeOK
<1>2. SUFFICES ASSUME NEW q \in Payments
               PROVE  LinkTrue(q, provider'[q], notices', returned[q], payment[q])
  <2> SUFFICES LinksTrue'
    BY OutsideInTurn
  <2> QED  BY <1>2 DEF LinksTrue
<1>3. LinkTrue(q, provider[q], notices, returned[q], payment[q])
  BY DEF InTurn, LinksTrue
<1>4. CASE q # p
  <2>1. /\ provider'[q] = provider[q]
        /\ \A x : <<x, q>> \in notices' <=> <<x, q>> \in notices
    BY <1>1, <1>4
  <2> QED  BY <1>3, <2>1 DEF LinkTrue, PaidIn
<1>5. CASE q = p
  <2>1. provider'[q] = st /\ provider[q] = "pending"
    BY <1>1, <1>5
  <2>2. /\ ~PaidIn(q, notices) /\ ~returned[q] /\ payment[q] # "NONE"
        /\ <<"canceled", q>> \notin notices
        /\ \A x : <<x, q>> \in notices => x # "pending"
    BY <1>3, <2>1 DEF LinkTrue
  <2>3. \A x : <<x, q>> \in notices' <=> <<x, q>> \in notices \/ x = st
    BY <1>5
  <2>4. PaidIn(q, notices') <=> st \in {"succeeded", "waiting_for_capture"}
    BY <2>2, <2>3 DEF PaidIn
  <2> QED  BY <2>1, <2>2, <2>3, <2>4 DEF LinkTrue
<1> QED  BY <1>4, <1>5

LEMMA CrashInTurn ==
  ASSUME IInv, InTurn, Crash
  PROVE  InTurn' /\ RowsSettle
<1>1. /\ \A h \in Handlers : session'[h] = Idle
      /\ UNCHANGED <<yookassa, payment>>
  BY DEF Crash, rows
<1>2. Alone' /\ Named' /\ InOrder'
  BY <1>1, IdleRows DEF Alone, Named, OfScheduler, InOrder
<1> QED  BY <1>1, <1>2, RowsStay, Unmoved DEF InTurn

LEMMA InitInTurn ==
  ASSUME Init
  PROVE  InTurn
<1>1. Alone /\ Named /\ InOrder
  BY IdleRows DEF Init, Alone, Named, OfScheduler, InOrder
<1>2. LinksTrue
  BY DEF Init, LinksTrue, LinkTrue, PaidIn
<1> QED  BY <1>1, <1>2 DEF InTurn

LEMMA StepInTurn ==
  ASSUME Serially, IInv, InTurn, [Next]_vars
  PROVE  InTurn' /\ RowsSettle
<1>1. ASSUME NEW h \in Requests, RequestStarts(h) \/ RequestAnswered(h)
      PROVE  InTurn' /\ RowsSettle
  BY <1>1, StartPayInTurn, StartListInTurn, StartCancelInTurn, StartPollInTurn,
     StartWebhookInTurn, PaySyncedInTurn, PayAnsweredInTurn, StatusAnsweredInTurn,
     ListAnsweredInTurn, CancelResolvedInTurn, CancelRefundedInTurn
     DEF RequestStarts, RequestAnswered
<1>2. CASE SchedulerStep
  BY <1>2, StartTickInTurn, StartExpiryInTurn, ExpireResolvedInTurn, ExpireRefundedInTurn,
     ExpiryCommittedInTurn, ReconciledInTurn, ExpireUnpaidInTurn, ExpirePaidInTurn
     DEF SchedulerStep
<1>3. ASSUME NEW p \in Payments, LinkPaid(p) PROVE InTurn' /\ RowsSettle
  BY <1>3, LinkMoves, PaidStatesAssumption DEF LinkPaid, rows
<1>4. ASSUME NEW p \in Payments, LinkAbandoned(p) PROVE InTurn' /\ RowsSettle
  BY <1>4, LinkMoves DEF LinkAbandoned, rows
<1>5. ASSUME UNCHANGED <<yookassa, payment, session>> PROVE InTurn' /\ RowsSettle
  BY <1>5, RowsStay, OutsideInTurn DEF InTurn, yookassa
<1>6. ASSUME NEW r \in Reservations, DeadlinePasses(r) \/ Confirm(r)
      PROVE  InTurn' /\ RowsSettle
  <2>1. UNCHANGED <<yookassa, payment, session>>
    BY <1>6 DEF DeadlinePasses, Confirm, yookassa
  <2> QED  BY <1>5, <2>1
<1>7. CASE UNCHANGED vars
  <2>1. UNCHANGED <<yookassa, payment, session>>
    BY <1>7 DEF vars, yookassa
  <2> QED  BY <1>5, <2>1
<1> QED  BY <1>1, <1>2, <1>3, <1>4, <1>6, <1>7, CrashInTurn DEF Next

(* Handlers one at a time, a settled row only moves from CAPTURED to         *)
(* REFUNDED, for any number of links, whatever fails, is lost or crashes     *)
(* (_SETTLED_PAYMENT_STATUSES).                                             *)
THEOREM SettledRowsStay ==
  ASSUME Serially
  PROVE  Spec => SettledStays
<1>1. Init => IInv /\ InTurn
  BY InitIInv, InitInTurn
<1>2. IInv /\ InTurn /\ [Next]_vars => (IInv /\ InTurn)'
  BY NextIInv, StepInTurn
<1>3. IInv /\ InTurn /\ [Next]_vars =>
        [\A p \in Payments :
           payment[p] \in Settled /\ payment'[p] # payment[p] =>
             payment[p] = "CAPTURED" /\ payment'[p] = "REFUNDED"]_vars
  BY StepInTurn DEF RowsSettle, Settles
<1> QED  BY <1>1, <1>2, <1>3, PTL DEF Spec, SettledStays

-----------------------------------------------------------------------------
(* The refinement: what each reservation of the promise does in a step.      *)
(* How a reservation stands, for a status b of its row.                      *)
StageOf(b) ==
  CASE b = "AWAITING_PAYMENT" -> "open"
    [] b = "PAYMENT_AUTHORIZED" -> "paid"
    [] b = "CONFIRMED" -> "confirmed"
    [] OTHER -> "closed"
MoneyIn(r, N, R) ==
  IF \E p \in PaymentsOf(r) : PaidIn(p, N) /\ ~R[p] THEN "taken"
  ELSE IF \E p \in PaymentsOf(r) : PaidIn(p, N) THEN "returned" ELSE "none"

(* The moves that the promise allows from (a, m) to (b, n).                  *)
Allowed(a, m, b, n) ==
  \/ a = b /\ m = n
  \/ a = b /\ m = "none" /\ n = "taken"
  \/ m = "taken" /\ n = "taken" /\ <<a, b>> \in {<<"open", "paid">>, <<"paid", "confirmed">>}
  \/ m = "taken" /\ n = "returned" /\ a = "paid" /\ b \in {"paid", "closed"}
  \/ m = n /\ b = "closed" /\ (a = "open" \/ (a = "paid" /\ m = "returned"))

LEMMA PromiseStarts == Init => Promise!Init
<1> SUFFICES ASSUME Init PROVE Promise!Init
  OBVIOUS
<1>1. \A r \in Reservations : Stage(r) = "open"
  BY DEF Init, Stage
<1>2. \A r \in Reservations : Money(r) = "none"
  BY DEF Init, Money, Held, PaidByClient
<1> QED  BY <1>1, <1>2 DEF Promise!Init

LEMMA PromiseMoves ==
  ASSUME \A r \in Reservations :
           Allowed(StageOf(reservation[r]), MoneyIn(r, notices, returned),
                   StageOf(reservation'[r]), MoneyIn(r, notices', returned'))
  PROVE  Promise!Next
<1> DEFINE stage == [r \in Reservations |-> Stage(r)]
           money == [r \in Reservations |-> Money(r)]
<1>1. ASSUME NEW r \in Reservations
      PROVE  /\ stage[r] = StageOf(reservation[r]) /\ money[r] = MoneyIn(r, notices, returned)
             /\ stage'[r] = StageOf(reservation'[r]) /\ money'[r] = MoneyIn(r, notices', returned')
  BY DEF Stage, StageOf, Money, MoneyIn, Held, PaidByClient, PaidIn
<1>2. ASSUME NEW r \in Reservations
      PROVE  \/ Promise!Pay(r) \/ Promise!Recognise(r) \/ Promise!Confirm(r)
             \/ Promise!Return(r) \/ Promise!Close(r)
             \/ Promise!Moves(r, stage[r], money[r])
  <2>1. Allowed(stage[r], money[r], stage'[r], money'[r])
    BY <1>1
  <2>2. CASE stage[r] = stage'[r] /\ money[r] = money'[r]
    BY <2>2 DEF Promise!Moves
  <2> HIDE DEF stage, money
  <2> QED  BY <2>1, <2>2 DEF Allowed, Promise!Pay, Promise!Recognise, Promise!Confirm,
                             Promise!Return, Promise!Close, Promise!Moves, stage, money
<1> QED  BY <1>2 DEF Promise!Next

-----------------------------------------------------------------------------
(* The detailed money flow implements MoneyPromise when each reservation has *)
(* one link, handlers run one at a time, and no answer to a refund is lost.  *)
(* Each hypothesis is needed: of two paid links one keeps its money when the *)
(* other goes back; a handler that overlaps writes over what another has     *)
(* read; a refund whose answer is lost leaves a reservation that looks paid  *)
(* and may become a rental.                                                 *)
(*                                                                         *)
(* The promise speaks of the committed rows, but a sweep refunds several     *)
(* reservations before it commits.  Books therefore says what the database   *)
(* would hold once the active session had committed: with it a reservation   *)
(* that awaits payment has no paid row, one that is paid has its row and its *)
(* money, and one leaves "paid" only when its money went back.  A worker may *)
(* also go down between a refund of the sweep and its commit.  The money of  *)
(* a reservation still "paid" is then gone, which the promise bears because  *)
(* that reservation is late: Confirm refuses it, and only Close is left.     *)
OneLink == \A p, q \in Payments : Owner[p] = Owner[q] => p = q
NoneLost == "lost" \notin Faults

(* What the database will hold once the session has committed.               *)
AfterRow(s, pay, p) == IF p \in s.dirtyP THEN s.row[p] ELSE pay[p]
AfterBooking(s, res, r) == IF r \in s.dirtyR THEN s.booking[r] ELSE res[r]
AfterDue(s, D, r) ==
  D[r] /\ ~(r \in s.dirtyR /\ s.booking[r] = "PAYMENT_AUTHORIZED")

Writes(s, res, R, r) ==
  \/ res[r] = "AWAITING_PAYMENT" /\ s.booking[r] \in Closed \cup {"PAYMENT_AUTHORIZED"}
  \/ /\ res[r] = "PAYMENT_AUTHORIZED" /\ s.booking[r] \in Closed
     /\ \A p \in PaymentsOf(r) : R[p]
BookingsInOrder(s, res, R) ==
  /\ \A r \in Reservations \ s.dirtyR : s.booking[r] \in {"NONE", res[r]}
  /\ \A r \in s.dirtyR : Writes(s, res, R, r)

Fits(book, late, row, given) ==
  /\ book = "AWAITING_PAYMENT" => ~given /\ row \notin PaidStatus
  /\ book = "PAYMENT_AUTHORIZED" =>
       (given /\ late) \/ (~given /\ row \in PaidStatus)
AllFit(s, res, pay, R, D) ==
  \A p \in Payments :
    Fits(AfterBooking(s, res, Owner[p]), AfterDue(s, D, Owner[p]), AfterRow(s, pay, p), R[p])

Clean(s) == s.dirtyP = {} /\ s.dirtyR = {}

Places(s, res, D) ==
  /\ s.at \in {"sync", "create", "reconcile"} \/ s.op = "cancel" => Clean(s)
  /\ s.at = "sync" /\ s.op \notin {"poll", "webhook"} => s.booking[s.r] # "NONE"
  /\ s.at = "resolve" => /\ s.op = "tick" => /\ s.booking[s.r] = "AWAITING_PAYMENT"
                                            /\ s.r \in s.todoR
                         /\ s.op = "cancel" => s.booking[s.r] \in Open
  /\ s.at = "refund" => /\ res[s.r] = "PAYMENT_AUTHORIZED" /\ s.p \in PaymentsOf(s.r)
                        /\ s.op = "tick" => D[s.r]
  /\ s.at = "reconcile" => \A r \in Reservations : s.booking[r] = "NONE"
  /\ \A r \in s.todoR : r \notin s.dirtyR /\ s.booking[r] # "NONE" /\ D[r]
  /\ \A p \in s.dirtyP : Owner[p] \notin s.todoR

Kept(s, res, pay, R, D) ==
  BookingsInOrder(s, res, R) /\ AllFit(s, res, pay, R, D) /\ Places(s, res, D)

Rest == \A h \in Handlers : session[h] = Idle
Books ==
  /\ AllFit(Idle, reservation, payment, returned, due)
  /\ \A h \in Handlers : session[h].at # "idle" \/ Rest =>
       Kept(session[h], reservation, payment, returned, due)

State == IInv /\ InTurn /\ Books

(* What a step may make of each reservation.                                 *)
Permitted ==
  \A r \in Reservations :
    Allowed(StageOf(reservation[r]), MoneyIn(r, notices, returned),
            StageOf(reservation'[r]), MoneyIn(r, notices', returned'))

-----------------------------------------------------------------------------
(* Sessions that have changed nothing.                                      *)
LEMMA CleanFit ==
  ASSUME NEW s, NEW t, NEW res, NEW pay, NEW R, NEW D,
         Clean(s), Clean(t), AllFit(s, res, pay, R, D)
  PROVE  AllFit(t, res, pay, R, D)
BY DEF AllFit, Clean, AfterRow, AfterBooking, AfterDue

LEMMA CleanKept ==
  ASSUME NEW t, NEW res, NEW pay, NEW R, NEW D, Clean(t), AllFit(t, res, pay, R, D),
         \A r \in Reservations : t.booking[r] \in {"NONE", res[r]}, Places(t, res, D)
  PROVE  Kept(t, res, pay, R, D)
BY DEF Kept, BookingsInOrder, Clean

LEMMA IdleClean ==
  /\ Clean(Idle) /\ Idle.at = "idle" /\ Idle.op = "none" /\ Idle \in Sessions
  /\ Idle.todoR = {} /\ \A r \in Reservations : Idle.booking[r] = "NONE"
  /\ \A res, D : Places(Idle, res, D)
BY IdleTrue DEF Idle, Clean, Places

LEMMA IdleKept ==
  ASSUME NEW s, NEW res, NEW pay, NEW R, NEW D, Clean(s), AllFit(s, res, pay, R, D)
  PROVE  Kept(Idle, res, pay, R, D)
BY IdleClean, CleanFit, CleanKept

(* The active session stands in order, and so must what it becomes.          *)
LEMMA Active ==
  ASSUME IInv, InTurn, Books, NEW h \in Handlers, session[h].at # "idle"
  PROVE  /\ session[h] \in Sessions /\ TypeOK /\ LinksTrue
         /\ RowsInOrder(session[h], payment) /\ OfScheduler(session[h], h)
         /\ Kept(session[h], reservation, payment, returned, due)
         /\ Believes(session[h], notices, returned) /\ Works(session[h], notices)
         /\ \A k \in Handlers \ {h} : session[k] = Idle
         /\ AllFit(Idle, reservation, payment, returned, due)
BY InTurnSession, OthersIdle DEF Books, InTurn, IInv, Grounded, SessionsTrue

LEMMA AtRest ==
  ASSUME IInv, InTurn, Books, \A k \in Handlers : session[k].at = "idle"
  PROVE  /\ Rest /\ Kept(Idle, reservation, payment, returned, due)
         /\ AllFit(Idle, reservation, payment, returned, due)
<1>1. Rest
  BY DEF InTurn, Named, Rest
<1>2. Scheduler \in Handlers
  BY DEF Handlers
<1> QED  BY <1>1, <1>2 DEF Books, Rest, Kept

LEMMA GoBooks ==
  ASSUME IInv, NEW h \in Handlers, NEW t,
         \A k \in Handlers \ {h} : session[k] = Idle,
         AllFit(Idle, reservation', payment', returned', due'),
         Go(h, t), Kept(t, reservation', payment', returned', due')
  PROVE  Books'
<1>1. session'[h] = t /\ \A k \in Handlers \ {h} : session'[k] = Idle
  BY DEF Go, IInv, TypeOK
<1>2. SUFFICES ASSUME NEW k \in Handlers, (session[k].at # "idle" \/ Rest)'
               PROVE  Kept(session'[k], reservation', payment', returned', due')
  BY DEF Books
<1>3. CASE k = h
  BY <1>1, <1>3
<1>4. CASE k # h
  <2>1. session'[k] = Idle /\ Idle.at = "idle"
    BY <1>1, <1>4, IdleClean
  <2>2. Rest'
    BY <1>2, <2>1
  <2>3. t = Idle
    BY <1>1, <2>2 DEF Rest
  <2> QED  BY <2>1, <2>3
<1> QED  BY <1>3, <1>4

LEMMA Stays ==
  ASSUME UNCHANGED <<reservation, notices, returned>>
  PROVE  Permitted
<1> SUFFICES ASSUME NEW r \in Reservations
             PROVE  Allowed(StageOf(reservation[r]), MoneyIn(r, notices, returned),
                            StageOf(reservation'[r]), MoneyIn(r, notices', returned'))
  BY DEF Permitted
<1>1. /\ StageOf(reservation'[r]) = StageOf(reservation[r])
      /\ MoneyIn(r, notices', returned') = MoneyIn(r, notices, returned)
  OBVIOUS
<1> QED  BY <1>1 DEF Allowed

-----------------------------------------------------------------------------
(* Commits.                                                                  *)
LEMMA CommitFits ==
  ASSUME NEW s, AllFit(s, reservation, payment, returned, due), Commit(s), UNCHANGED yookassa
  PROVE  AllFit(Idle, reservation', payment', returned', due')
<1> SUFFICES ASSUME NEW p \in Payments
             PROVE  Fits(AfterBooking(Idle, reservation', Owner[p]),
                         AfterDue(Idle, due', Owner[p]), AfterRow(Idle, payment', p), returned'[p])
  BY DEF AllFit
<1>1. Owner[p] \in Reservations
  BY OwnerAssumption
<1>2. /\ AfterBooking(Idle, reservation', Owner[p]) = AfterBooking(s, reservation, Owner[p])
      /\ AfterRow(Idle, payment', p) = AfterRow(s, payment, p)
      /\ AfterDue(Idle, due', Owner[p]) = AfterDue(s, due, Owner[p])
      /\ returned'[p] = returned[p]
  BY <1>1 DEF AfterBooking, AfterDue, AfterRow, Commit, Idle, yookassa
<1> QED  BY <1>2 DEF AllFit

LEMMA CommitKeeps ==
  ASSUME NEW s, AllFit(s, reservation, payment, returned, due), Commit(s), UNCHANGED yookassa
  PROVE  Kept(Idle, reservation', payment', returned', due')
BY CommitFits, IdleKept, IdleClean

LEMMA Taken ==
  ASSUME NEW r, NEW N, NEW R, NEW p \in PaymentsOf(r), PaidIn(p, N), ~R[p]
  PROVE  MoneyIn(r, N, R) = "taken"
BY DEF MoneyIn

LEMMA GivenAway ==
  ASSUME NEW r, NEW N, NEW R, NEW p \in PaymentsOf(r), PaidIn(p, N),
         \A q \in PaymentsOf(r) : R[q]
  PROVE  MoneyIn(r, N, R) = "returned"
BY DEF MoneyIn

LEMMA CommitPermitted ==
  ASSUME IInv, NEW s \in Sessions, Believes(s, notices, returned),
         BookingsInOrder(s, reservation, returned),
         AllFit(s, reservation, payment, returned, due), Commit(s), UNCHANGED yookassa
  PROVE  Permitted
<1> SUFFICES ASSUME NEW r \in Reservations
             PROVE  Allowed(StageOf(reservation[r]), MoneyIn(r, notices, returned),
                            StageOf(reservation'[r]), MoneyIn(r, notices', returned'))
  BY DEF Permitted
<1> DEFINE m == MoneyIn(r, notices, returned)
<1>1. MoneyIn(r, notices', returned') = m
  BY DEF yookassa
<1>2. reservation'[r] = IF r \in s.dirtyR THEN s.booking[r] ELSE reservation[r]
  BY DEF Commit
<1>3. CASE r \notin s.dirtyR
  BY <1>1, <1>2, <1>3 DEF Allowed
<1>4. CASE r \in s.dirtyR
  <2>1. Writes(s, reservation, returned, r) /\ reservation'[r] = s.booking[r]
    BY <1>2, <1>4 DEF BookingsInOrder
  <2>2. CASE reservation[r] = "AWAITING_PAYMENT" /\ s.booking[r] = "PAYMENT_AUTHORIZED"
    <3>1. PICK p \in PaymentsOf(r) : PaidIn(p, notices)
      BY <2>2 DEF Believes, BookingTrue
    <3>2. ~returned[p]
      <4>1. p \in Payments /\ Owner[p] = r
        BY DEF PaymentsOf
      <4> QED  BY <1>4, <2>2, <4>1 DEF AllFit, Fits, AfterBooking, AfterDue
    <3>3. m = "taken"
      BY <3>1, <3>2, Taken
    <3> QED  BY <1>1, <2>1, <2>2, <3>3 DEF Allowed, StageOf
  <2>3. CASE reservation[r] = "AWAITING_PAYMENT" /\ s.booking[r] \in Closed
    BY <1>1, <2>1, <2>3 DEF Allowed, StageOf, Closed
  <2>5. CASE /\ reservation[r] = "PAYMENT_AUTHORIZED" /\ s.booking[r] \in Closed
             /\ \A p \in PaymentsOf(r) : returned[p]
    <3>1. PICK p \in PaymentsOf(r) : PaidIn(p, notices)
      BY <2>5 DEF IInv, Grounded, RowsTrue, BookingTrue
    <3>2. m = "returned"
      BY <2>5, <3>1, GivenAway
    <3> QED  BY <1>1, <2>1, <2>5, <3>2 DEF Allowed, StageOf, Closed
  <2> QED  BY <2>1, <2>2, <2>3, <2>5 DEF Writes
<1> QED  BY <1>3, <1>4

-----------------------------------------------------------------------------
(* News of a reservation whose row the session has loaded.                   *)
Credible(news) ==
  \A p \in Payments :
    /\ news[p] \in {"NONE", "PENDING", "AUTHORIZED", "CAPTURED", "FAILED"}
    /\ news[p] = "FAILED" /\ PaidIn(p, notices) => returned[p]

LEMMA AnswersCredible ==
  ASSUME IInv, LinksTrue, NEW ps, NEW silent
  PROVE  Credible(News(ps, silent))
<1> SUFFICES ASSUME NEW p \in Payments
             PROVE  /\ News(ps, silent)[p] \in {"NONE", "PENDING", "AUTHORIZED", "CAPTURED", "FAILED"}
                    /\ News(ps, silent)[p] = "FAILED" /\ PaidIn(p, notices) => returned[p]
  BY DEF Credible
<1>1. /\ News(ps, silent)[p] = "FAILED" => provider[p] = "canceled"
      /\ News(ps, silent)[p] \in {"NONE", "PENDING", "AUTHORIZED", "CAPTURED", "FAILED"}
  BY DEF News, MapStatus
<1>2. PaidIn(p, notices) /\ ~returned[p] => provider[p] # "canceled"
  BY DEF LinksTrue, LinkTrue
<1> QED  BY <1>1, <1>2

LEMMA HearsKept ==
  ASSUME IInv, OneLink, NEW s \in Sessions, NEW t \in Sessions, NEW r \in Reservations,
         NEW news, Credible(news), Hears(t, s, r, news),
         RowsInOrder(s, payment), Believes(s, notices, returned),
         BookingsInOrder(s, reservation, returned),
         AllFit(s, reservation, payment, returned, due),
         s.booking[r] # "NONE", \A p \in PaymentsOf(r) : news[p] # "NONE" => s.row[p] # "NONE"
  PROVE  BookingsInOrder(t, reservation, returned) /\ AllFit(t, reservation, payment, returned, due)
<1> DEFINE took == Took(s, r, news)
           pulled == /\ s.booking[r] = "AWAITING_PAYMENT"
                     /\ \E p \in took : news[p] \in PaidStatus
<1>1. /\ \A p \in Payments : t.row[p] = IF p \in took THEN news[p] ELSE s.row[p]
      /\ t.dirtyP = s.dirtyP \cup {p \in took : news[p] # s.row[p]}
      /\ took \subseteq PaymentsOf(r) /\ PaymentsOf(r) \subseteq Payments
  BY DEF Hears, Took, PaymentsOf
<1>2. /\ pulled => /\ \A q \in Reservations :
                        t.booking[q] = IF q = r THEN "PAYMENT_AUTHORIZED" ELSE s.booking[q]
                   /\ t.dirtyR = s.dirtyR \cup {r}
      /\ ~pulled => t.booking = s.booking /\ t.dirtyR = s.dirtyR
  BY DEF Hears
<1>3. AfterBooking(s, reservation, r) = s.booking[r]
  BY DEF AfterBooking, BookingsInOrder
<1>4. \A p \in took : AfterRow(t, payment, p) = news[p]
  <2> SUFFICES ASSUME NEW p \in took PROVE AfterRow(t, payment, p) = news[p]
    OBVIOUS
  <2>1. t.row[p] = news[p] /\ p \in Payments /\ s.row[p] # "NONE"
    BY <1>1 DEF Took, Applies
  <2>2. CASE p \in t.dirtyP
    BY <2>1, <2>2 DEF AfterRow
  <2>3. CASE p \notin t.dirtyP
    <3>1. news[p] = s.row[p] /\ p \notin s.dirtyP
      BY <1>1, <2>3
    <3>2. s.row[p] = payment[p]
      BY <2>1, <3>1 DEF RowsInOrder
    <3> QED  BY <2>3, <3>1, <3>2 DEF AfterRow
  <2> QED  BY <2>2, <2>3
<1>5. \A p \in Payments \ took : AfterRow(t, payment, p) = AfterRow(s, payment, p)
  BY <1>1 DEF AfterRow
<1>6. \A p \in took : AfterRow(s, payment, p) = s.row[p]
  BY <1>1 DEF AfterRow, RowsInOrder, Took, Applies
<1> HIDE DEF took, pulled
<1>7. BookingsInOrder(t, reservation, returned)
  <2>1. CASE ~pulled
    BY <1>2, <2>1 DEF BookingsInOrder, Writes
  <2>2. CASE pulled
    <3>1. reservation[r] = "AWAITING_PAYMENT" \/ (r \in s.dirtyR /\ s.booking[r] = "AWAITING_PAYMENT")
      BY <2>2 DEF pulled, BookingsInOrder
    <3>2. reservation[r] = "AWAITING_PAYMENT"
      BY <3>1 DEF BookingsInOrder, Writes, Closed
    <3>3. s.dirtyR \subseteq Reservations
      BY DEF Sessions
    <3> QED  BY <1>2, <2>2, <3>2, <3>3 DEF BookingsInOrder, Writes
  <2> QED  BY <2>1, <2>2
<1>8. ASSUME NEW p \in Payments
      PROVE  Fits(AfterBooking(t, reservation, Owner[p]), AfterDue(t, due, Owner[p]),
                 AfterRow(t, payment, p), returned[p])
  <2>1. Fits(AfterBooking(s, reservation, Owner[p]), AfterDue(s, due, Owner[p]),
             AfterRow(s, payment, p), returned[p])
    BY DEF AllFit
  <2>2. Owner[p] \in Reservations
    BY OwnerAssumption
  <2>3. CASE Owner[p] # r
    <3>1. p \notin took
      BY <1>1, <2>3 DEF PaymentsOf
    <3>2. /\ AfterBooking(t, reservation, Owner[p]) = AfterBooking(s, reservation, Owner[p])
          /\ AfterDue(t, due, Owner[p]) = AfterDue(s, due, Owner[p])
      BY <1>2, <2>2, <2>3 DEF AfterBooking, AfterDue
    <3> QED  BY <1>5, <2>1, <3>1, <3>2
  <2>4. CASE Owner[p] = r /\ pulled
    <3>1. PICK q \in took : news[q] \in PaidStatus
      BY <2>4 DEF pulled
    <3>2. q = p
      BY <1>1, <2>4, <3>1 DEF OneLink, PaymentsOf
    <3>3. AfterBooking(t, reservation, r) = "PAYMENT_AUTHORIZED"
      BY <1>2, <2>4 DEF AfterBooking
    <3>4. AfterBooking(s, reservation, r) = "AWAITING_PAYMENT"
      BY <1>3, <2>4 DEF pulled
    <3> QED  BY <1>4, <2>1, <2>4, <3>1, <3>2, <3>3, <3>4 DEF Fits
  <2>5. CASE Owner[p] = r /\ ~pulled
    <3>1. /\ AfterBooking(t, reservation, r) = s.booking[r]
          /\ AfterDue(t, due, r) = AfterDue(s, due, r)
      BY <1>2, <1>3, <2>5 DEF AfterBooking, AfterDue
    <3>2. CASE p \notin took
      BY <1>3, <1>5, <2>1, <2>5, <3>1, <3>2
    <3>3. CASE p \in took
      <4>1. CASE s.booking[r] = "AWAITING_PAYMENT"
        <5>1. news[p] \notin PaidStatus
          BY <2>5, <3>3, <4>1 DEF pulled
        <5> QED  BY <1>3, <1>4, <2>1, <2>5, <3>1, <3>3, <4>1, <5>1 DEF Fits
      <4>2. CASE s.booking[r] = "PAYMENT_AUTHORIZED"
        <5> SUFFICES ASSUME ~(returned[p] /\ AfterDue(t, due, r))
                     PROVE  ~returned[p] /\ news[p] \in PaidStatus
          BY <1>4, <2>5, <3>1, <3>3, <4>2 DEF Fits
        <5>1. ~returned[p] /\ s.row[p] \in PaidStatus
          BY <1>3, <1>6, <2>1, <2>5, <3>1, <3>3, <4>2 DEF Fits
        <5>2. PaidIn(p, notices)
          BY <5>1 DEF Believes, RowTrue
        <5>3. news[p] \in {"NONE", "PENDING", "AUTHORIZED", "CAPTURED"}
          BY <5>1, <5>2 DEF Credible
        <5>4. news[p] # "NONE" /\ (news[p] = s.row[p] \/ news[p] # "PENDING")
          BY <3>3 DEF took, Took, Applies
        <5>5. news[p] \in PaidStatus
          BY <5>1, <5>3, <5>4 DEF PaidStatus
        <5> QED  BY <5>1, <5>5
      <4> QED  BY <2>5, <3>1, <4>1, <4>2 DEF Fits
    <3> QED  BY <3>2, <3>3
  <2> QED  BY <2>3, <2>4, <2>5
<1> QED  BY <1>7, <1>8 DEF AllFit

-----------------------------------------------------------------------------
(* Every action keeps Books and is permitted.  First the starts of handlers. *)
LEMMA StartKept ==
  ASSUME Serially, State, NEW h \in Handlers, NEW op, NEW s \in Sessions, Start(h, op, s),
         NEW t, t = [s EXCEPT !.op = op], Clean(s),
         \A r \in Reservations : s.booking[r] \in {"NONE", reservation[r]},
         Places(t, reservation, due)
  PROVE  Books' /\ Permitted
<1>1. /\ \A k \in Handlers : session[k].at = "idle"
      /\ Go(h, t) /\ UNCHANGED <<reservation, due, payment, provider, returned, notices>>
  BY DEF Start, Serially, Go, rows, yookassa
<1>2. Rest /\ AllFit(Idle, reservation, payment, returned, due)
  BY <1>1, AtRest DEF State
<1>3. Clean(t) /\ t.booking = s.booking
  BY DEF Clean, Sessions
<1>4. AllFit(t, reservation, payment, returned, due)
  BY <1>2, <1>3, IdleClean, CleanFit
<1>5. Kept(t, reservation, payment, returned, due)
  BY <1>3, <1>4, CleanKept
<1>6. Permitted
  BY <1>1, Stays
<1> QED  BY <1>1, <1>2, <1>5, <1>6, GoBooks DEF State, Rest

LEMMA FetchedFields ==
  ASSUME IInv, NEW r \in Reservations, NEW at \in {"sync", "resolve"}, NEW s, s = Fetched(at, r)
  PROVE  /\ s \in Sessions /\ s.at = at /\ s.r = r /\ Clean(s)
         /\ s.todoR = {} /\ s.booking[r] = reservation[r]
         /\ \A q \in Reservations : s.booking[q] \in {"NONE", reservation[q]}
<1> DEFINE x == [Idle EXCEPT !.at = at, !.r = r]
           y == LoadBookings(x, {r})
<1>1. /\ x \in Sessions /\ x.at = at /\ x.r = r /\ x.dirtyP = {} /\ x.dirtyR = {}
      /\ x.todoR = {} /\ \A q \in Reservations : x.booking[q] = "NONE"
  BY DEF Idle, Sessions
<1> HIDE DEF x
<1>2. /\ y \in Sessions /\ SamePlace(y, x) /\ y.dirtyP = {} /\ y.dirtyR = {}
      /\ \A q \in Reservations : y.booking[q] = IF q = r THEN reservation[q] ELSE "NONE"
  BY <1>1, LoadBookingsFields DEF IInv
<1>3. s = LoadRows(y, PaymentsOf(r)) /\ TypeOK
  BY DEF x, IInv, Fetched
<1> HIDE DEF y
<1>4. /\ s \in Sessions /\ SamePlace(s, y) /\ s.dirtyP = {} /\ s.dirtyR = {}
      /\ s.booking = y.booking
  BY <1>2, <1>3, LoadRowsFields
<1> QED  BY <1>1, <1>2, <1>4 DEF SamePlace, Clean

LEMMA FetchedKept ==
  ASSUME Serially, State, NEW h \in Requests, NEW r \in Reservations,
         NEW at \in {"sync", "resolve"}, NEW op \in {"pay", "list", "cancel"},
         at = "resolve" => op = "cancel" /\ reservation[r] \in Open,
         NEW s, s = Fetched(at, r), Start(h, op, s)
  PROVE  Books' /\ Permitted
<1>1. /\ s \in Sessions /\ s.at = at /\ s.r = r /\ Clean(s)
      /\ s.todoR = {} /\ s.booking[r] = reservation[r] /\ reservation[r] # "NONE"
      /\ \A q \in Reservations : s.booking[q] \in {"NONE", reservation[q]}
  <2>1. reservation[r] # "NONE" /\ IInv
    BY DEF State, IInv, TypeOK, ReservationStatus, Open, Closed
  <2> QED  BY <2>1, FetchedFields
<1> DEFINE t == [s EXCEPT !.op = op]
<1>2. /\ t.at = at /\ t.r = r /\ t.op = op /\ Clean(t) /\ t.dirtyP = {} /\ t.todoR = {}
      /\ t.booking[r] = reservation[r]
  BY <1>1 DEF Sessions, Clean
<1> HIDE DEF t
<1>3. Places(t, reservation, due)
  BY <1>1, <1>2 DEF Places
<1> QED  BY <1>1, <1>3, RequestHandler, StartKept DEF t

LEMMA StartPayKept ==
  ASSUME Serially, State, NEW h \in Requests, NEW r \in Reservations, StartPay(h, r)
  PROVE  Books' /\ Permitted
BY FetchedKept DEF StartPay, Fetched

LEMMA StartCancelKept ==
  ASSUME Serially, State, NEW h \in Requests, NEW r \in Reservations, StartCancel(h, r)
  PROVE  Books' /\ Permitted
BY FetchedKept DEF StartCancel, Fetched

(* Handlers one at a time never leave a reservation behind its paid row.     *)
LEMMA StartListKept ==
  ASSUME Serially, State, NEW h \in Requests, NEW r \in Reservations, StartList(h, r)
  PROVE  Books' /\ Permitted
<1>1. \A k \in Handlers : session[k].at = "idle"
  BY DEF StartList, Start, Serially
<1>2. AllFit(Idle, reservation, payment, returned, due)
  BY <1>1, AtRest DEF State
<1>3. reservation[r] = "AWAITING_PAYMENT" => PaidRows(r) = {}
  BY <1>2 DEF AllFit, Fits, AfterBooking, AfterRow, Idle, PaidRows, PaymentsOf
<1>4. Start(h, "list", Fetched("sync", r))
  BY <1>3 DEF StartList, Fetched
<1> QED  BY <1>4, FetchedKept

LEMMA RowKept ==
  ASSUME Serially, State, NEW h \in Requests, NEW p \in Payments, NEW op \in {"poll", "webhook"},
         NEW x \in Sessions, x.at = "sync", x.todoR = {}, Clean(x), x.booking = Idle.booking,
         Start(h, op, LoadRows(x, {p}))
  PROVE  Books' /\ Permitted
<1> DEFINE s == LoadRows(x, {p})  t == [s EXCEPT !.op = op]
<1>1. /\ s \in Sessions /\ s.at = "sync" /\ s.todoR = {} /\ Clean(s) /\ s.booking = Idle.booking
  BY LoadRowsFields DEF State, IInv, SamePlace, Clean
<1> HIDE DEF s
<1>2. t.at = "sync" /\ t.todoR = {} /\ Clean(t) /\ t.dirtyP = {} /\ t.op = op
  BY <1>1 DEF Sessions, Clean
<1> HIDE DEF t
<1>3. Places(t, reservation, due)
  BY <1>2 DEF Places
<1> QED  BY <1>1, <1>3, IdleClean, RequestHandler, StartKept DEF s, t

LEMMA StartPollKept ==
  ASSUME Serially, State, NEW h \in Requests, NEW p \in Payments, StartPoll(h, p)
  PROVE  Books' /\ Permitted
<1> DEFINE x == [Idle EXCEPT !.at = "sync", !.r = Owner[p], !.p = p]
<1>1. x \in Sessions /\ x.at = "sync" /\ x.todoR = {} /\ Clean(x) /\ x.booking = Idle.booking
  BY OwnerAssumption DEF Idle, Sessions, Clean
<1>2. Start(h, "poll", LoadRows(x, {p}))
  BY DEF StartPoll
<1> HIDE DEF x
<1> QED  BY <1>1, <1>2, RowKept

LEMMA StartWebhookKept ==
  ASSUME Serially, State, NEW h \in Requests, NEW n \in notices, StartWebhook(h, n[2], n[1])
  PROVE  Books' /\ Permitted
<1> SUFFICES ASSUME NEW p, p = n[2], NEW st, st = n[1] PROVE Books' /\ Permitted
  OBVIOUS
<1> DEFINE x == [Idle EXCEPT !.at = "sync", !.r = Owner[p], !.p = p, !.body = st]
<1>1. p \in Payments /\ st \in ProviderStatus
  BY DEF State, IInv, TypeOK
<1>2. x \in Sessions /\ x.at = "sync" /\ x.todoR = {} /\ Clean(x) /\ x.booking = Idle.booking
  BY <1>1, OwnerAssumption DEF Idle, Sessions, Clean
<1>3. Start(h, "webhook", LoadRows(x, {p}))
  BY DEF StartWebhook
<1> HIDE DEF x
<1> QED  BY <1>1, <1>2, <1>3, RowKept

LEMMA StartTickKept ==
  ASSUME Serially, State, StartTick
  PROVE  Books' /\ Permitted
<1> DEFINE ps == {p \in Payments : payment[p] \in Unsettled}
           x == [Idle EXCEPT !.at = "reconcile", !.todoP = ps]
           s == LoadRows(x, ps)
           t == [s EXCEPT !.op = "tick"]
<1>1. x \in Sessions /\ x.at = "reconcile" /\ x.todoR = {} /\ Clean(x) /\ x.booking = Idle.booking
  BY DEF Idle, Sessions, Clean
<1>2. Start(Scheduler, "tick", s) /\ Scheduler \in Handlers
  BY DEF StartTick, Handlers
<1> HIDE DEF x
<1>3. s \in Sessions /\ s.at = "reconcile" /\ s.todoR = {} /\ Clean(s) /\ s.booking = Idle.booking
  BY <1>1, LoadRowsFields DEF State, IInv, SamePlace, Clean
<1> HIDE DEF s
<1>4. /\ t.at = "reconcile" /\ t.todoR = {} /\ Clean(t) /\ t.dirtyP = {} /\ t.op = "tick"
      /\ t.booking = Idle.booking
  BY <1>3 DEF Sessions, Clean
<1> HIDE DEF t
<1>5. Places(t, reservation, due)
  BY <1>4, IdleClean DEF Places
<1> QED  BY <1>2, <1>3, <1>5, IdleClean, StartKept DEF t

-----------------------------------------------------------------------------
LEMMA HeardKept ==
  ASSUME State, OneLink, NEW s \in Sessions, NEW r \in Reservations, NEW ps, NEW silent,
         RowsInOrder(s, payment), Believes(s, notices, returned),
         BookingsInOrder(s, reservation, returned),
         AllFit(s, reservation, payment, returned, due),
         s.booking[r] # "NONE", \A p \in PaymentsOf(r) \cap ps : s.row[p] # "NONE",
         NEW t, t = Heard(s, r, ps, silent)
  PROVE  /\ t \in Sessions /\ Believes(t, notices, returned)
         /\ Hears(t, s, r, News(ps, silent))
         /\ BookingsInOrder(t, reservation, returned)
         /\ AllFit(t, reservation, payment, returned, due)
<1>1. IInv /\ TypeOK /\ ProviderTrue /\ LinksTrue
  BY DEF State, IInv, Grounded, InTurn
<1>2. t \in Sessions /\ Hears(t, s, r, News(ps, silent)) /\ Believes(t, notices, returned)
  BY <1>1, HeardHears, HeardTrue
<1>3. \A p \in PaymentsOf(r) : News(ps, silent)[p] # "NONE" => s.row[p] # "NONE"
  BY DEF News, PaymentsOf
<1> QED  BY <1>1, <1>2, <1>3, AnswersCredible, HearsKept

(* A handler commits and ends.                                              *)
LEMMA EndsKept ==
  ASSUME State, NEW h \in Handlers, session[h].at # "idle", Go(h, Idle),
         NEW u \in Sessions, Believes(u, notices, returned),
         BookingsInOrder(u, reservation, returned),
         AllFit(u, reservation, payment, returned, due), Commit(u), UNCHANGED yookassa
  PROVE  Books' /\ Permitted
<1>1. IInv /\ \A k \in Handlers \ {h} : session[k] = Idle
  BY Active DEF State
<1>2. Permitted
  BY <1>1, CommitPermitted
<1>3. /\ Kept(Idle, reservation', payment', returned', due')
      /\ AllFit(Idle, reservation', payment', returned', due')
  BY CommitKeeps, CommitFits
<1> QED  BY <1>1, <1>2, <1>3, GoBooks

(* A handler ends and has written nothing.                                  *)
LEMMA QuitsKept ==
  ASSUME State, NEW h \in Handlers, session[h].at # "idle", Go(h, Idle),
         NEW s, Clean(s), AllFit(s, reservation, payment, returned, due),
         UNCHANGED <<yookassa, rows>>
  PROVE  Books' /\ Permitted
<1>1. IInv /\ \A k \in Handlers \ {h} : session[k] = Idle
  BY Active DEF State
<1>2. /\ UNCHANGED <<reservation, due, payment, returned, notices>>
      /\ AllFit(Idle, reservation, payment, returned, due)
  BY Active DEF State, yookassa, rows
<1>3. Kept(Idle, reservation, payment, returned, due)
  BY IdleKept
<1> QED  BY <1>1, <1>2, <1>3, GoBooks, Stays

LEMMA PaySyncedKept ==
  ASSUME Serially, OneLink, State, NEW h \in Requests, PaySynced(h)
  PROVE  Books' /\ Permitted
<1> DEFINE s == session[h]
           again == [Idle EXCEPT !.at = "create", !.op = "pay", !.r = s.r]
<1>1. /\ s.at = "sync" /\ s.op = "pay" /\ h \in Handlers /\ UNCHANGED yookassa
  BY RequestHandler DEF PaySynced
<1>2. /\ s \in Sessions /\ TypeOK /\ RowsInOrder(s, payment) /\ IInv
      /\ Kept(s, reservation, payment, returned, due) /\ Believes(s, notices, returned)
      /\ s.r \in Reservations /\ \A k \in Handlers \ {h} : session[k] = Idle
  BY <1>1, Active DEF State, Works
<1>3. PICK silent \in SUBSET AskedToPay(s, s.r) :
        /\ Commit(Heard(s, s.r, AskedToPay(s, s.r), silent))
        /\ Go(h, Idle) \/ Go(h, again)
  BY DEF PaySynced, Finish
<1> DEFINE t == Heard(s, s.r, AskedToPay(s, s.r), silent)
<1>4. \A p \in PaymentsOf(s.r) \cap AskedToPay(s, s.r) : s.row[p] # "NONE"
  BY DEF AskedToPay
<1>5. s.booking[s.r] # "NONE"
  BY <1>1, <1>2 DEF Kept, Places
<1>6. /\ t \in Sessions /\ Believes(t, notices, returned)
      /\ BookingsInOrder(t, reservation, returned)
      /\ AllFit(t, reservation, payment, returned, due)
  BY <1>2, <1>4, <1>5, HeardKept DEF Kept
<1>7. Commit(t)
  BY <1>3
<1> HIDE DEF t
<1>8. CASE Go(h, Idle)
  BY <1>1, <1>6, <1>7, <1>8, EndsKept
<1>9. CASE Go(h, again)
  <2>1. Permitted
    BY <1>1, <1>2, <1>6, <1>7, CommitPermitted
  <2>2. AllFit(Idle, reservation', payment', returned', due')
    BY <1>1, <1>6, <1>7, CommitFits
  <2>3. /\ again.at = "create" /\ again.op = "pay" /\ again.todoR = {} /\ again.dirtyP = {}
        /\ Clean(again) /\ again.booking = Idle.booking
    BY DEF Idle, Clean
  <2> HIDE DEF again
  <2>4. AllFit(again, reservation', payment', returned', due')
    BY <2>2, <2>3, IdleClean, CleanFit
  <2>5. Places(again, reservation', due')
    BY <2>3 DEF Places
  <2>6. Kept(again, reservation', payment', returned', due')
    BY <2>3, <2>4, <2>5, IdleClean, CleanKept
  <2> QED  BY <1>1, <1>2, <1>9, <2>1, <2>2, <2>6, GoBooks
<1> QED  BY <1>3, <1>8, <1>9

LEMMA PayAnsweredKept ==
  ASSUME Serially, OneLink, State, NEW h \in Requests, PayAnswered(h)
  PROVE  Books' /\ Permitted
<1> DEFINE s == session[h]
<1>1. /\ s.at = "create" /\ Go(h, Idle) /\ h \in Handlers
      /\ UNCHANGED <<reservation, due, returned, notices>>
  BY RequestHandler DEF PayAnswered, Finish
<1>2. /\ Kept(s, reservation, payment, returned, due) /\ IInv /\ TypeOK
      /\ \A k \in Handlers \ {h} : session[k] = Idle
  BY <1>1, Active DEF State
<1>3. Clean(s)
  BY <1>1, <1>2 DEF Kept, Places
<1>4. AllFit(Idle, reservation, payment, returned, due)
  BY <1>2, <1>3, IdleClean, CleanFit DEF Kept
<1>5. Permitted
  BY <1>1, Stays
<1>6. CASE UNCHANGED payment
  <2>1. AllFit(Idle, reservation', payment', returned', due')
    BY <1>1, <1>4, <1>6
  <2>2. Kept(Idle, reservation', payment', returned', due')
    BY <2>1, IdleClean, IdleKept
  <2> QED  BY <1>1, <1>2, <1>5, <2>1, <2>2, GoBooks
<1>7. ASSUME NEW p \in PaymentsOf(s.r), payment[p] = "NONE",
             payment' = [payment EXCEPT ![p] = "PENDING"]
      PROVE  Books' /\ Permitted
  <2>1. \A q \in Payments : payment'[q] = IF q = p THEN "PENDING" ELSE payment[q]
    BY <1>2, <1>7 DEF TypeOK
  <2>2. ASSUME NEW q \in Payments
        PROVE  Fits(reservation[Owner[q]], AfterDue(Idle, due, Owner[q]), payment'[q], returned[q])
    <3>1. Fits(reservation[Owner[q]], AfterDue(Idle, due, Owner[q]), payment[q], returned[q])
      BY <1>4 DEF AllFit, AfterBooking, AfterRow, Idle
    <3> QED  BY <1>7, <2>1, <3>1 DEF Fits, PaidStatus
  <2>3. AllFit(Idle, reservation', payment', returned', due')
    BY <1>1, <2>2 DEF AllFit, AfterBooking, AfterRow, Idle
  <2>4. Kept(Idle, reservation', payment', returned', due')
    BY <2>3, IdleClean, IdleKept
  <2> QED  BY <1>1, <1>2, <1>5, <2>3, <2>4, GoBooks
<1> QED  BY <1>6, <1>7 DEF PayAnswered, Exists

LEMMA ListAnsweredKept ==
  ASSUME Serially, OneLink, State, NEW h \in Requests, ListAnswered(h)
  PROVE  Books' /\ Permitted
<1> DEFINE s == session[h]
<1>1. /\ s.at = "sync" /\ s.op = "list" /\ h \in Handlers /\ UNCHANGED yookassa /\ Go(h, Idle)
  BY RequestHandler DEF ListAnswered, Finish
<1>2. /\ s \in Sessions /\ RowsInOrder(s, payment)
      /\ Kept(s, reservation, payment, returned, due) /\ Believes(s, notices, returned)
      /\ s.r \in Reservations
  BY <1>1, Active DEF State, Works
<1>3. PICK silent \in SUBSET AskedIfUnpaid(s, s.r) :
        Commit(Heard(s, s.r, AskedIfUnpaid(s, s.r), silent))
  BY DEF ListAnswered
<1> DEFINE t == Heard(s, s.r, AskedIfUnpaid(s, s.r), silent)
<1>4. \A p \in PaymentsOf(s.r) \cap AskedIfUnpaid(s, s.r) : s.row[p] # "NONE"
  BY DEF AskedIfUnpaid, Asked, Unsettled
<1>5. s.booking[s.r] # "NONE"
  BY <1>1, <1>2 DEF Kept, Places
<1>6. /\ t \in Sessions /\ Believes(t, notices, returned)
      /\ BookingsInOrder(t, reservation, returned)
      /\ AllFit(t, reservation, payment, returned, due)
  BY <1>2, <1>4, <1>5, HeardKept DEF Kept
<1>7. Commit(t)
  BY <1>3
<1> HIDE DEF t
<1> QED  BY <1>1, <1>6, <1>7, EndsKept

(* The reservation is read at the answer.                                    *)
LEMMA BookingRead ==
  ASSUME State, NEW s0 \in Sessions, NEW r \in Reservations, Clean(s0),
         Kept(s0, reservation, payment, returned, due), Believes(s0, notices, returned),
         RowsInOrder(s0, payment),
         NEW s, s = LoadBookings(s0, {r})
  PROVE  /\ s \in Sessions /\ SamePlace(s, s0) /\ s.row = s0.row /\ Clean(s)
         /\ Believes(s, notices, returned) /\ RowsInOrder(s, payment)
         /\ s.booking[r] # "NONE"
         /\ BookingsInOrder(s, reservation, returned)
         /\ AllFit(s, reservation, payment, returned, due)
<1>1. TypeOK /\ RowsTrue
  BY DEF State, IInv, Grounded
<1>2. /\ s \in Sessions /\ SamePlace(s, s0) /\ s.row = s0.row
      /\ s.dirtyP = s0.dirtyP /\ s.dirtyR = s0.dirtyR
      /\ \A q \in Reservations :
           s.booking[q] = IF q \in {r} THEN reservation[q] ELSE s0.booking[q]
  BY <1>1, LoadBookingsFields
<1>3. Believes(s, notices, returned)
  BY <1>1, LoadBookingsTrue
<1>4. RowsInOrder(s, payment)
  BY <1>2, SameRows
<1>5. Clean(s)
  BY <1>2 DEF Clean
<1>6. AllFit(s, reservation, payment, returned, due)
  BY <1>5, CleanFit DEF Kept
<1>7. s.booking[r] # "NONE"
  BY <1>1, <1>2 DEF TypeOK, ReservationStatus, Open, Closed
<1>8. BookingsInOrder(s, reservation, returned)
  BY <1>2, <1>5 DEF Kept, BookingsInOrder, Clean
<1> QED  BY <1>2, <1>3, <1>4, <1>5, <1>6, <1>7, <1>8

LEMMA StatusAnsweredKept ==
  ASSUME Serially, OneLink, State, NEW h \in Requests, StatusAnswered(h)
  PROVE  Books' /\ Permitted
<1> DEFINE s0 == session[h]
           s == LoadBookings(s0, {s0.r})
           news == [q \in Payments |-> IF q = s.p THEN MapStatus(s.body) ELSE "NONE"]
           asked == {s.p} \cap Asked(s, s.r)
<1>1. /\ s0.at # "idle" => /\ s0 \in Sessions /\ RowsInOrder(s0, payment)
                           /\ Kept(s0, reservation, payment, returned, due)
                           /\ Believes(s0, notices, returned) /\ Works(s0, notices)
      /\ h \in Handlers /\ TypeOK /\ IInv /\ LinksTrue
  BY RequestHandler, Active DEF State, InTurn, IInv
<1>2. /\ s.at = "sync" /\ s.op \in {"poll", "webhook"} /\ Go(h, Idle) /\ UNCHANGED yookassa
  BY DEF StatusAnswered, Finish
<1>3. PICK silent \in SUBSET asked, trusted \in BOOLEAN :
        LET t == Heard(s, s.r, asked, silent)
            u == IF t = s /\ trusted THEN Applied(s, s.r, news) ELSE t
        IN IF <<s.body, s.p>> \in events THEN UNCHANGED rows ELSE Commit(u)
  BY DEF StatusAnswered
<1>4. s0.at = "sync" /\ s0.op = s.op /\ s0.r = s.r /\ s0.p = s.p /\ s0.body = s.body
  <2>1. s0 \in Sessions
    BY <1>1 DEF TypeOK
  <2> QED  BY <1>1, <1>2, <2>1, LoadBookingsFields DEF SamePlace
<1>5. Clean(s0) /\ s.r \in Reservations /\ s.p \in Payments /\ s0.row[s.p] # "NONE"
  BY <1>1, <1>2, <1>4 DEF Kept, Places, Works, RowsInOrder
<1>6. /\ s \in Sessions /\ Clean(s) /\ s.row[s.p] # "NONE" /\ s.booking[s.r] # "NONE"
      /\ Believes(s, notices, returned) /\ RowsInOrder(s, payment)
      /\ BookingsInOrder(s, reservation, returned)
      /\ AllFit(s, reservation, payment, returned, due)
  BY <1>1, <1>4, <1>5, BookingRead
<1> HIDE DEF s, asked
<1> DEFINE t == Heard(s, s.r, asked, silent)  a == Applied(s, s.r, news)
<1>7. /\ t \in Sessions /\ Believes(t, notices, returned)
      /\ BookingsInOrder(t, reservation, returned)
      /\ AllFit(t, reservation, payment, returned, due)
  <2>1. \A p \in PaymentsOf(s.r) \cap asked : s.row[p] # "NONE"
    BY <1>6 DEF asked
  <2> QED  BY <1>5, <1>6, <2>1, HeardKept
<1>8. /\ a \in Sessions /\ Believes(a, notices, returned)
      /\ BookingsInOrder(a, reservation, returned)
      /\ AllFit(a, reservation, payment, returned, due)
  <2>1. s.body = "NONE" \/ (s.body \in ProviderStatus /\ <<s.body, s.p>> \in notices)
    BY <1>1, <1>4, <1>6 DEF Works, Sessions
  <2>2. news \in [Payments -> PaymentStatus \cup {"NONE"}]
    BY <2>1, MapStatusType
  <2>3. \A p \in PaymentsOf(s.r) : news[p] # "NONE" => s.row[p] # "NONE"
    BY <1>6 DEF PaymentsOf
  <2>4. Credible(news)
    <3>1. /\ MapStatus(s.body) \in {"NONE", "PENDING", "AUTHORIZED", "CAPTURED", "FAILED"}
          /\ MapStatus(s.body) = "FAILED" => s.body = "canceled"
      BY DEF MapStatus
    <3>2. MapStatus(s.body) = "FAILED" /\ PaidIn(s.p, notices) => returned[s.p]
      BY <1>1, <1>5, <2>1, <3>1 DEF LinksTrue, LinkTrue
    <3> QED  BY <3>1, <3>2 DEF Credible
  <2>5. \A p \in PaymentsOf(s.r) : RowTrue(news[p], p, notices, returned)
    <3>1. MapStatus("NONE") = "NONE"
      BY DEF MapStatus
    <3>2. RowTrue(MapStatus(s.body), s.p, notices, returned)
      BY <2>1, <3>1, MapStatusType DEF RowTrue, PaidIn, PaidStatus
    <3>3. RowTrue("NONE", s.p, notices, returned) /\ \A p : RowTrue("NONE", p, notices, returned)
      BY DEF RowTrue, PaidStatus
    <3> QED  BY <3>2, <3>3 DEF PaymentsOf
  <2> HIDE DEF news
  <2>6. a \in Sessions /\ Hears(a, s, s.r, news) /\ Believes(a, notices, returned)
    BY <1>5, <1>6, <2>2, <2>5, AppliedHears, AppliedTrue
  <2> QED  BY <1>1, <1>5, <1>6, <2>3, <2>4, <2>6, HearsKept
<1>9. s0.at # "idle"
  BY <1>4
<1>10. UNCHANGED rows \/ Commit(t) \/ Commit(a)
  BY <1>3
<1> HIDE DEF t, a, news, s0
<1>11. CASE UNCHANGED rows
  BY <1>1, <1>2, <1>6, <1>9, <1>11, QuitsKept DEF s0
<1>12. CASE Commit(t)
  BY <1>1, <1>2, <1>7, <1>9, <1>12, EndsKept DEF s0
<1>13. CASE Commit(a)
  BY <1>1, <1>2, <1>8, <1>9, <1>13, EndsKept DEF s0
<1> QED  BY <1>10, <1>11, <1>12, <1>13

(* Where a reservation is known to be paid, its row says so, or its money    *)
(* went back in a sweep that did not commit, and then it is late.            *)
LEMMA PaidRowFound ==
  ASSUME IInv, OneLink, NEW s, NEW r \in Reservations,
         AllFit(s, reservation, payment, returned, due),
         reservation[r] = "PAYMENT_AUTHORIZED", r \notin s.dirtyR,
         \A p \in s.dirtyP : Owner[p] # r
  PROVE  \/ /\ PaidRows(r) # {}
            /\ \A p \in PaymentsOf(r) : p \in PaidRows(r) /\ ~returned[p] /\ PaidIn(p, notices)
            /\ MoneyIn(r, notices, returned) = "taken"
         \/ due[r] /\ \A p \in PaymentsOf(r) : returned[p]
<1>1. PICK p \in PaymentsOf(r) : PaidIn(p, notices)
  BY DEF IInv, Grounded, RowsTrue, BookingTrue
<1>2. p \in Payments /\ Owner[p] = r /\ p \notin s.dirtyP /\ \A q \in PaymentsOf(r) : q = p
  BY DEF PaymentsOf, OneLink
<1>3. Fits(reservation[r], due[r], payment[p], returned[p])
  <2>1. /\ AfterBooking(s, reservation, r) = reservation[r] /\ AfterRow(s, payment, p) = payment[p]
        /\ AfterDue(s, due, r) <=> due[r]
    BY <1>2 DEF AfterBooking, AfterRow, AfterDue
  <2>2. Fits(AfterBooking(s, reservation, r), AfterDue(s, due, r), AfterRow(s, payment, p), returned[p])
    BY <1>2 DEF AllFit
  <2> QED  BY <2>1, <2>2 DEF Fits
<1>4. CASE due[r] /\ returned[p]
  BY <1>2, <1>4
<1>5. CASE ~returned[p] /\ payment[p] \in PaidStatus
  BY <1>1, <1>2, <1>5, Taken DEF PaidRows
<1> QED  BY <1>3, <1>4, <1>5 DEF Fits

LEMMA SetBookingKept ==
  ASSUME NEW s \in Sessions, NEW r \in Reservations, NEW st \in Closed,
         NEW res, NEW pay, NEW R, NEW D,
         BookingsInOrder(s, res, R), AllFit(s, res, pay, R, D),
         res[r] = "AWAITING_PAYMENT"
           \/ (res[r] = "PAYMENT_AUTHORIZED" /\ \A p \in PaymentsOf(r) : R[p]),
         NEW u, u = SetBooking(s, r, st)
  PROVE  /\ u \in Sessions /\ BookingsInOrder(u, res, R) /\ AllFit(u, res, pay, R, D)
<1>1. /\ u \in Sessions /\ \A q \in Reservations : u.booking[q] = IF q = r THEN st ELSE s.booking[q]
      /\ u.dirtyR = s.dirtyR \cup {r} /\ u.row = s.row /\ u.dirtyP = s.dirtyP
  BY SetBookingFields DEF ReservationStatus
<1>2. s.dirtyR \subseteq Reservations
  BY DEF Sessions
<1>3. BookingsInOrder(u, res, R)
  BY <1>1, <1>2 DEF BookingsInOrder, Writes
<1>4. ASSUME NEW p \in Payments
      PROVE  Fits(AfterBooking(u, res, Owner[p]), AfterDue(u, D, Owner[p]),
                  AfterRow(u, pay, p), R[p])
  <2>1. Owner[p] \in Reservations
    BY OwnerAssumption
  <2>2. CASE Owner[p] = r
    BY <1>1, <2>1, <2>2 DEF Fits, AfterBooking, Closed
  <2>3. CASE Owner[p] # r
    <3>1. /\ AfterBooking(u, res, Owner[p]) = AfterBooking(s, res, Owner[p])
          /\ AfterDue(u, D, Owner[p]) = AfterDue(s, D, Owner[p])
          /\ AfterRow(u, pay, p) = AfterRow(s, pay, p)
      BY <1>1, <2>1, <2>3 DEF AfterBooking, AfterDue, AfterRow
    <3> QED  BY <3>1 DEF AllFit
  <2> QED  BY <2>2, <2>3
<1> QED  BY <1>1, <1>3, <1>4 DEF AllFit

LEMMA ClosedTrue ==
  ASSUME NEW s \in Sessions, NEW r \in Reservations, NEW st \in Closed, NEW N, NEW R,
         Believes(s, N, R)
  PROVE  Believes(SetBooking(s, r, st), N, R)
BY SetBookingTrue DEF BookingTrue, Closed, ReservationStatus

LEMMA CancelResolvedKept ==
  ASSUME Serially, OneLink, State, NEW h \in Requests, CancelResolved(h)
  PROVE  Books' /\ Permitted
<1> DEFINE s == session[h]  r == s.r
<1>1. /\ s.at = "resolve" /\ s.op = "cancel" /\ h \in Handlers /\ UNCHANGED yookassa
  BY RequestHandler DEF CancelResolved
<1>2. /\ s \in Sessions /\ TypeOK /\ RowsInOrder(s, payment) /\ IInv
      /\ Kept(s, reservation, payment, returned, due) /\ Believes(s, notices, returned)
      /\ s.r \in Reservations /\ \A k \in Handlers \ {h} : session[k] = Idle
  BY <1>1, Active DEF State, Works
<1>3. Clean(s) /\ s.booking[r] \in Open /\ s.booking[r] = reservation[r]
  BY <1>1, <1>2 DEF Kept, Places, BookingsInOrder, Clean, Open
<1>4. PICK silent \in SUBSET AskedIfUnpaid(s, r) :
        LET t == Heard(s, r, AskedIfUnpaid(s, r), silent)
        IN IF t.booking[r] = "PAYMENT_AUTHORIZED" /\ PaidRows(r) # {}
             THEN /\ \E p \in PaidRows(r) :
                       Go(h, [t EXCEPT !.at = "refund", !.p = p, !.row[p] = payment[p]])
                  /\ UNCHANGED rows
             ELSE Commit(SetBooking(t, r, "CANCELLED")) /\ Go(h, Idle)
  BY DEF CancelResolved, Finish
<1> DEFINE t == Heard(s, r, AskedIfUnpaid(s, r), silent)
<1>5. \A p \in PaymentsOf(r) \cap AskedIfUnpaid(s, r) : s.row[p] # "NONE"
  BY DEF AskedIfUnpaid, Asked, Unsettled
<1>6. /\ t \in Sessions /\ Believes(t, notices, returned)
      /\ Hears(t, s, r, News(AskedIfUnpaid(s, r), silent))
      /\ BookingsInOrder(t, reservation, returned)
      /\ AllFit(t, reservation, payment, returned, due)
  <2>1. s.booking[r] # "NONE"
    BY <1>3 DEF Open
  <2> QED  BY <1>2, <1>5, <2>1, HeardKept DEF Kept
<1>7. IF t.booking[r] = "PAYMENT_AUTHORIZED" /\ PaidRows(r) # {}
        THEN /\ \E p \in PaidRows(r) :
                  Go(h, [t EXCEPT !.at = "refund", !.p = p, !.row[p] = payment[p]])
             /\ UNCHANGED rows
        ELSE Commit(SetBooking(t, r, "CANCELLED")) /\ Go(h, Idle)
  BY <1>4
<1>8. reservation[r] = "AWAITING_PAYMENT" => PaidRows(r) = {}
  BY <1>2, <1>3 DEF Kept, AllFit, Fits, AfterBooking, AfterRow, Clean, PaidRows, PaymentsOf
<1>9. reservation[r] = "PAYMENT_AUTHORIZED" =>
        /\ t.booking[r] = "PAYMENT_AUTHORIZED" /\ Clean(t)
        /\ \A q \in Reservations : t.booking[q] \in {"NONE", reservation[q]}
  <2> SUFFICES ASSUME reservation[r] = "PAYMENT_AUTHORIZED"
               PROVE  /\ t.booking[r] = "PAYMENT_AUTHORIZED" /\ Clean(t)
                      /\ \A q \in Reservations : t.booking[q] \in {"NONE", reservation[q]}
    OBVIOUS
  <2>1. AskedIfUnpaid(s, r) = {}
    BY <1>3 DEF AskedIfUnpaid
  <2>2. Took(s, r, News(AskedIfUnpaid(s, r), silent)) = {}
    BY <2>1 DEF Took, News, Applies, PaymentsOf
  <2>3. t.booking = s.booking /\ t.dirtyR = {} /\ t.dirtyP = {}
    BY <1>3, <1>6, <2>2 DEF Hears, Clean
  <2> QED  BY <1>2, <1>3, <2>3 DEF Clean, Kept, BookingsInOrder
<1>10. SamePlace(t, s)
  BY <1>6 DEF Hears
<1> HIDE DEF t
<1>11. ASSUME reservation[r] = "AWAITING_PAYMENT"
                \/ (reservation[r] = "PAYMENT_AUTHORIZED" /\ \A p \in PaymentsOf(r) : returned[p]),
              Commit(SetBooking(t, r, "CANCELLED")) /\ Go(h, Idle)
       PROVE  Books' /\ Permitted
  <2> DEFINE u == SetBooking(t, r, "CANCELLED")
  <2>1. Commit(u) /\ Go(h, Idle)
    BY <1>11
  <2>2. /\ u \in Sessions /\ BookingsInOrder(u, reservation, returned)
        /\ AllFit(u, reservation, payment, returned, due)
    BY <1>2, <1>6, <1>11, SetBookingKept DEF Closed
  <2>3. Believes(u, notices, returned)
    BY <1>2, <1>6, ClosedTrue DEF Closed
  <2> HIDE DEF u
  <2> QED  BY <1>1, <2>1, <2>2, <2>3, EndsKept
<1>12. CASE reservation[r] = "PAYMENT_AUTHORIZED" /\ PaidRows(r) # {}
  <2>1. PICK p \in PaidRows(r) :
          Go(h, [t EXCEPT !.at = "refund", !.p = p, !.row[p] = payment[p]])
    BY <1>7, <1>9, <1>12
  <2> DEFINE u == [t EXCEPT !.at = "refund", !.p = p, !.row[p] = payment[p]]
  <2>2. /\ u.at = "refund" /\ u.p = p /\ u.r = r /\ u.op = "cancel" /\ u.todoR = s.todoR
        /\ u.booking = t.booking /\ u.dirtyP = {} /\ u.dirtyR = {}
    BY <1>1, <1>6, <1>9, <1>10, <1>12 DEF Sessions, SamePlace, Clean
  <2>3. UNCHANGED rows /\ Go(h, u)
    BY <1>7, <1>9, <1>12, <2>1
  <2> HIDE DEF u
  <2>4. AllFit(u, reservation, payment, returned, due)
    BY <1>2, <1>3, <2>2, CleanFit DEF Kept, Clean
  <2>5. \A q \in s.todoR : s.booking[q] # "NONE" /\ q \in Reservations /\ due[q]
    BY <1>2 DEF Kept, Places, Sessions
  <2>6. \A q \in s.todoR : u.booking[q] # "NONE"
    <3>1. t.booking = s.booking
      <4>1. AskedIfUnpaid(s, r) = {}
        BY <1>3, <1>12 DEF AskedIfUnpaid
      <4>2. Took(s, r, News(AskedIfUnpaid(s, r), silent)) = {}
        BY <4>1 DEF Took, News, Applies, PaymentsOf
      <4> QED  BY <1>6, <4>2 DEF Hears
    <3> QED  BY <2>2, <2>5, <3>1
  <2>7. Places(u, reservation, due)
    BY <1>12, <2>2, <2>5, <2>6 DEF Places, Clean, PaidRows
  <2>8. Kept(u, reservation, payment, returned, due)
    BY <1>9, <1>12, <2>2, <2>4, <2>7, CleanKept DEF Clean
  <2>9. /\ UNCHANGED <<reservation, due, payment, returned, notices>>
        /\ AllFit(Idle, reservation, payment, returned, due)
    BY <1>1, <2>3, Active DEF State, rows, yookassa
  <2> QED  BY <1>2, <2>3, <2>8, <2>9, Stays, GoBooks, <1>1
<1>13. CASE reservation[r] = "AWAITING_PAYMENT"
  BY <1>7, <1>8, <1>11, <1>13
<1>14. CASE reservation[r] = "PAYMENT_AUTHORIZED" /\ PaidRows(r) = {}
  <2>1. \A p \in PaymentsOf(r) : returned[p]
    BY <1>2, <1>3, <1>14, PaidRowFound DEF Kept, Clean
  <2> QED  BY <1>7, <1>11, <1>14, <2>1
<1> QED  BY <1>3, <1>12, <1>13, <1>14 DEF Open

LEMMA AnswersArrive ==
  ASSUME NoneLost, NEW p, NEW seen, NEW ok \in BOOLEAN, GiveBack(p, seen, ok)
  PROVE  /\ ok => Refundable(p, seen) /\ MoneyLeaves(p)
         /\ ~ok => UNCHANGED yookassa
BY DEF GiveBack, Fault, NoneLost

(* The money of the only link goes back.                                     *)
LEMMA MoneyGoesBack ==
  ASSUME IInv, OneLink, NEW r \in Reservations, NEW p \in PaymentsOf(r),
         PaidIn(p, notices), ~returned[p], MoneyLeaves(p)
  PROVE  /\ \A q \in Payments : returned'[q] = IF q = p THEN TRUE ELSE returned[q]
         /\ MoneyIn(r, notices, returned) = "taken"
         /\ MoneyIn(r, notices', returned') = "returned"
         /\ \A q \in Reservations \ {r} :
              MoneyIn(q, notices', returned') = MoneyIn(q, notices, returned)
<1>1. p \in Payments /\ Owner[p] = r /\ returned \in [Payments -> BOOLEAN]
  BY DEF PaymentsOf, IInv, TypeOK
<1>2. \A q \in Payments : returned'[q] = IF q = p THEN TRUE ELSE returned[q]
  BY <1>1 DEF MoneyLeaves
<1>3. notices' = notices \/ notices' = notices \cup {<<"canceled", p>>}
  BY DEF MoneyLeaves
<1>4. \A q : PaidIn(q, notices') <=> PaidIn(q, notices)
  BY <1>3 DEF PaidIn
<1>5. MoneyIn(r, notices, returned) = "taken"
  BY Taken
<1>6. \A q \in PaymentsOf(r) : returned'[q]
  BY <1>1, <1>2 DEF PaymentsOf, OneLink
<1>7. MoneyIn(r, notices', returned') = "returned"
  BY <1>4, <1>6, GivenAway
<1>8. ASSUME NEW q \in Reservations \ {r}
      PROVE  MoneyIn(q, notices', returned') = MoneyIn(q, notices, returned)
  <2>1. \A x \in PaymentsOf(q) : returned'[x] = returned[x]
    BY <1>1, <1>2 DEF PaymentsOf
  <2> QED  BY <1>4, <2>1 DEF MoneyIn
<1> QED  BY <1>2, <1>5, <1>7, <1>8

(* The row to refund, and its money, before the answer.                      *)
LEMMA ToRefund ==
  ASSUME State, NEW s \in Sessions, s.at = "refund", LinksTrue,
         RowsInOrder(s, payment), Kept(s, reservation, payment, returned, due),
         Refundable(s.p, s.row[s.p])
  PROVE  PaidIn(s.p, notices) /\ ~returned[s.p] /\ s.p \in PaymentsOf(s.r) /\ s.p \in Payments
<1>1. s.p \in PaymentsOf(s.r) /\ s.p \in Payments
  BY DEF Kept, Places, PaymentsOf
<1>2. s.row[s.p] = payment[s.p] /\ payment[s.p] \in PaidStatus
  BY DEF RowsInOrder
<1>3. PaidIn(s.p, notices)
  BY <1>1, <1>2 DEF State, IInv, Grounded, RowsTrue, RowTrue
<1>4. ~returned[s.p]
  BY <1>1 DEF Refundable, LinksTrue, LinkTrue
<1> QED  BY <1>1, <1>3, <1>4

LEMMA CancelRefundedKept ==
  ASSUME Serially, OneLink, NoneLost, State, NEW h \in Requests, CancelRefunded(h)
  PROVE  Books' /\ Permitted
<1> DEFINE s == session[h]  r == s.r  p == s.p
<1>1. s.at = "refund" /\ s.op = "cancel" /\ h \in Handlers /\ Go(h, Idle)
  BY RequestHandler DEF CancelRefunded, Finish
<1>2. /\ s \in Sessions /\ TypeOK /\ RowsInOrder(s, payment) /\ IInv /\ LinksTrue
      /\ Kept(s, reservation, payment, returned, due)
      /\ AllFit(Idle, reservation, payment, returned, due)
      /\ s.r \in Reservations /\ \A k \in Handlers \ {h} : session[k] = Idle
  BY <1>1, Active DEF State, Works
<1>3. /\ Clean(s) /\ reservation[r] = "PAYMENT_AUTHORIZED" /\ p \in PaymentsOf(r)
      /\ p \in Payments /\ Owner[p] = r
  BY <1>1, <1>2 DEF Kept, Places, PaymentsOf
<1>4. PICK ok \in BOOLEAN :
        /\ GiveBack(p, s.row[p], ok)
        /\ IF ok THEN Commit(SetBooking(RefundedRow(s, p), r, "CANCELLED"))
                 ELSE UNCHANGED rows
  BY DEF CancelRefunded, RefundedRow
<1>5. CASE ~ok
  <2>1. UNCHANGED yookassa /\ UNCHANGED rows
    BY <1>4, <1>5, AnswersArrive
  <2>2. AllFit(s, reservation, payment, returned, due) /\ s.at # "idle"
    BY <1>1, <1>2 DEF Kept
  <2> HIDE DEF s
  <2> QED  BY <1>1, <1>3, <2>1, <2>2, QuitsKept DEF s, yookassa, rows
<1>6. CASE ok
  <2>1. Refundable(p, s.row[p]) /\ MoneyLeaves(p)
    BY <1>4, <1>6, AnswersArrive
  <2>2. PaidIn(p, notices) /\ ~returned[p]
    BY <1>1, <1>2, <2>1, ToRefund
  <2>3. /\ \A q \in Payments : returned'[q] = IF q = p THEN TRUE ELSE returned[q]
        /\ MoneyIn(r, notices, returned) = "taken"
        /\ MoneyIn(r, notices', returned') = "returned"
        /\ \A q \in Reservations \ {r} :
             MoneyIn(q, notices', returned') = MoneyIn(q, notices, returned)
    BY <1>2, <1>3, <2>1, <2>2, MoneyGoesBack
  <2> DEFINE x == RefundedRow(s, p)  u == SetBooking(x, r, "CANCELLED")
  <2>4. /\ x \in Sessions /\ x.dirtyP = {p} /\ x.dirtyR = {} /\ x.booking = s.booking
    <3>1. ReturnedStatus(s.row[p]) \in PaymentStatus
      BY DEF ReturnedStatus, PaymentStatus, Settled
    <3> QED  BY <1>2, <1>3, <3>1, SetRowFields DEF RefundedRow, Clean
  <2>5. Commit(u)
    BY <1>4, <1>6
  <2> HIDE DEF x
  <2>6. /\ u.dirtyP = {p} /\ u.dirtyR = {r} /\ u.booking[r] = "CANCELLED"
    BY <1>2, <2>4, SetBookingFields DEF ReservationStatus, Closed
  <2> HIDE DEF u
  <2>7. /\ \A q \in Reservations : reservation'[q] = IF q = r THEN "CANCELLED" ELSE reservation[q]
        /\ \A q \in Payments \ {p} : payment'[q] = payment[q]
        /\ \A q \in Reservations \ {r} : due'[q] <=> due[q]
    BY <2>5, <2>6 DEF Commit
  <2>8. Permitted
    <3> SUFFICES ASSUME NEW q \in Reservations
                 PROVE  Allowed(StageOf(reservation[q]), MoneyIn(q, notices, returned),
                                StageOf(reservation'[q]), MoneyIn(q, notices', returned'))
      BY DEF Permitted
    <3>1. CASE q = r
      BY <1>3, <2>3, <2>7, <3>1 DEF Allowed, StageOf
    <3>2. CASE q # r
      BY <2>3, <2>7, <3>2 DEF Allowed
    <3> QED  BY <3>1, <3>2
  <2>9. ASSUME NEW q \in Payments
        PROVE  Fits(reservation'[Owner[q]], AfterDue(Idle, due', Owner[q]), payment'[q], returned'[q])
    <3>1. CASE q = p
      BY <1>2, <1>3, <2>7, <3>1 DEF Fits
    <3>2. CASE q # p
      <4>1. Owner[q] # r /\ Owner[q] \in Reservations
        BY <1>3, <3>2, OwnerAssumption DEF OneLink
      <4>2. Fits(reservation[Owner[q]], AfterDue(Idle, due, Owner[q]), payment[q], returned[q])
        BY <1>2, <4>1 DEF AllFit, AfterBooking, AfterRow, Idle
      <4>3. AfterDue(Idle, due', Owner[q]) <=> AfterDue(Idle, due, Owner[q])
        BY <2>7, <4>1 DEF AfterDue, Idle
      <4> QED  BY <2>3, <2>7, <3>2, <4>1, <4>2, <4>3 DEF Fits
    <3> QED  BY <3>1, <3>2
  <2>10. AllFit(Idle, reservation', payment', returned', due')
    BY <2>9 DEF AllFit, AfterBooking, AfterRow, Idle
  <2>11. Kept(Idle, reservation', payment', returned', due')
    BY <2>10, IdleClean, IdleKept
  <2> QED  BY <1>1, <1>2, <2>8, <2>10, <2>11, GoBooks
<1> QED  BY <1>5, <1>6

-----------------------------------------------------------------------------
(* The scheduler goes on; the rows and the provider are untouched.           *)
LEMMA TickGoes ==
  ASSUME State, session[Scheduler].at # "idle", NEW t, Go(Scheduler, t),
         Kept(t, reservation, payment, returned, due), UNCHANGED <<yookassa, rows>>
  PROVE  Books' /\ Permitted
<1>1. /\ Scheduler \in Handlers /\ IInv
      /\ UNCHANGED <<reservation, due, payment, returned, notices>>
  BY DEF Handlers, State, yookassa, rows
<1>2. /\ \A k \in Handlers \ {Scheduler} : session[k] = Idle
      /\ AllFit(Idle, reservation, payment, returned, due)
  BY <1>1, Active DEF State
<1> QED  BY <1>1, <1>2, GoBooks, Stays

LEMMA TickActive ==
  ASSUME State, session[Scheduler].at # "idle"
  PROVE  LET s == session[Scheduler] IN
         /\ s \in Sessions /\ TypeOK /\ LinksTrue /\ IInv /\ Scheduler \in Handlers
         /\ RowsInOrder(s, payment) /\ Kept(s, reservation, payment, returned, due)
         /\ Believes(s, notices, returned) /\ Works(s, notices) /\ s.op = "tick"
         /\ \A k \in Handlers \ {Scheduler} : session[k] = Idle
         /\ AllFit(Idle, reservation, payment, returned, due)
<1>1. Scheduler \in Handlers
  BY DEF Handlers
<1> QED  BY <1>1, Active DEF State, OfScheduler

LEMMA ReconciledKept ==
  ASSUME Serially, OneLink, State, NEW p \in Payments, Reconciled(p)
  PROVE  Books' /\ Permitted
<1> DEFINE s0 == session[Scheduler]
           s == LoadBookings(s0, {Owner[p]})
           next == [s0 EXCEPT !.todoP = @ \ {p}, !.row[p] = "NONE"]
<1>1. s0 \in Sessions /\ TypeOK /\ Owner[p] \in Reservations
  BY OwnerAssumption, ItsSession DEF State
<1>2. /\ s.at = "reconcile" /\ p \in s.todoP /\ Go(Scheduler, next) /\ UNCHANGED yookassa
  BY DEF Reconciled
<1>3. PICK silent : Commit(Heard(s, Owner[p], {p}, silent))
  BY DEF Reconciled
<1>4. s0.at = "reconcile" /\ s0.todoP = s.todoP
  BY <1>1, <1>2, LoadBookingsFields DEF SamePlace
<1>5. /\ RowsInOrder(s0, payment) /\ Kept(s0, reservation, payment, returned, due)
      /\ Believes(s0, notices, returned) /\ s0.op = "tick" /\ IInv /\ Scheduler \in Handlers
      /\ \A k \in Handlers \ {Scheduler} : session[k] = Idle
  BY <1>4, TickActive
<1>6. Clean(s0) /\ \A r \in Reservations : s0.booking[r] = "NONE"
  BY <1>4, <1>5 DEF Kept, Places
<1>7. /\ s \in Sessions /\ SamePlace(s, s0) /\ s.row = s0.row /\ s.booking[Owner[p]] # "NONE"
      /\ Believes(s, notices, returned) /\ RowsInOrder(s, payment)
      /\ BookingsInOrder(s, reservation, returned)
      /\ AllFit(s, reservation, payment, returned, due)
  BY <1>1, <1>5, <1>6, BookingRead
<1> HIDE DEF s
<1> DEFINE t == Heard(s, Owner[p], {p}, silent)
<1>8. s.row[p] # "NONE"
  BY <1>2, <1>7 DEF RowsInOrder
<1>9. /\ t \in Sessions /\ Believes(t, notices, returned)
      /\ BookingsInOrder(t, reservation, returned)
      /\ AllFit(t, reservation, payment, returned, due)
  <2>1. \A q \in PaymentsOf(Owner[p]) \cap {p} : s.row[q] # "NONE"
    BY <1>8
  <2> QED  BY <1>1, <1>7, <2>1, HeardKept
<1>10. Commit(t)
  BY <1>3
<1> HIDE DEF t
<1>11. Permitted
  BY <1>2, <1>5, <1>9, <1>10, CommitPermitted
<1>12. AllFit(Idle, reservation', payment', returned', due')
  BY <1>2, <1>9, <1>10, CommitFits
<1>13. /\ next.at = "reconcile" /\ next.op = "tick" /\ next.dirtyP = {} /\ next.dirtyR = {}
       /\ next.todoR = s0.todoR /\ next.booking = s0.booking
  BY <1>1, <1>4, <1>5, <1>6 DEF Sessions, Clean
<1>14. Clean(next)
  BY <1>13 DEF Clean
<1>15. s0.todoR = {}
  BY <1>1, <1>5, <1>6 DEF Kept, Places, Sessions
<1> HIDE DEF next, s0
<1>16. Places(next, reservation', due')
  BY <1>6, <1>13, <1>14, <1>15 DEF Places
<1>17. AllFit(next, reservation', payment', returned', due')
  BY <1>12, <1>14, IdleClean, CleanFit
<1>18. Kept(next, reservation', payment', returned', due')
  BY <1>6, <1>13, <1>14, <1>16, <1>17, CleanKept
<1> QED  BY <1>2, <1>5, <1>11, <1>12, <1>18, GoBooks

LEMMA StartExpiryKept ==
  ASSUME Serially, State, StartExpiry
  PROVE  Books' /\ Permitted
<1> DEFINE stale == {r \in Reservations : due[r] /\ reservation[r] \in Open}
           x == [Idle EXCEPT !.at = "expire", !.op = "tick", !.todoR = stale]
           t == LoadBookings(x, stale)
           s == session[Scheduler]
<1>1. s.at = "reconcile" /\ Go(Scheduler, t) /\ UNCHANGED <<yookassa, rows>>
  BY DEF StartExpiry
<1>2. TypeOK /\ Kept(s, reservation, payment, returned, due)
  BY <1>1, TickActive
<1>3. Clean(s)
  BY <1>1, <1>2 DEF Kept, Places
<1>4. /\ x \in Sessions /\ x.at = "expire" /\ x.op = "tick" /\ x.todoR = stale
      /\ x.dirtyP = {} /\ x.dirtyR = {} /\ x.booking = Idle.booking
  BY DEF Idle, Sessions
<1> HIDE DEF x
<1>5. /\ t.at = "expire" /\ t.op = "tick" /\ t.todoR = stale /\ t.dirtyP = {} /\ t.dirtyR = {}
      /\ \A q \in Reservations : t.booking[q] = IF q \in stale THEN reservation[q] ELSE "NONE"
  BY <1>2, <1>4, IdleClean, LoadBookingsFields DEF SamePlace
<1> HIDE DEF t
<1>6. \A q \in stale : t.booking[q] # "NONE" /\ due[q]
  BY <1>5 DEF Open
<1> HIDE DEF stale
<1>7. Clean(t) /\ Places(t, reservation, due)
  BY <1>5, <1>6 DEF Clean, Places
<1>8. AllFit(t, reservation, payment, returned, due)
  BY <1>2, <1>3, <1>7, CleanFit DEF Kept
<1>9. \A q \in Reservations : t.booking[q] \in {"NONE", reservation[q]}
  BY <1>5
<1>10. Kept(t, reservation, payment, returned, due)
  BY <1>7, <1>8, <1>9, CleanKept
<1>11. s.at # "idle"
  BY <1>1
<1> QED  BY <1>1, <1>10, <1>11, TickGoes

LEMMA ExpireUnpaidKept ==
  ASSUME Serially, State, NEW r \in Reservations, ExpireUnpaid(r)
  PROVE  Books' /\ Permitted
<1> DEFINE s == session[Scheduler]
           x == [s EXCEPT !.at = "resolve", !.r = r]
           t == LoadRows(x, PaymentsOf(r))
<1>1. /\ s.at = "expire" /\ r \in s.todoR /\ s.booking[r] = "AWAITING_PAYMENT"
      /\ Go(Scheduler, t) /\ UNCHANGED <<rows, yookassa>>
  BY DEF ExpireUnpaid
<1>2. s \in Sessions /\ TypeOK /\ Kept(s, reservation, payment, returned, due) /\ s.op = "tick"
  BY <1>1, TickActive
<1>3. /\ x \in Sessions /\ x.at = "resolve" /\ x.op = "tick" /\ x.r = r /\ x.todoR = s.todoR
      /\ x.row = s.row /\ x.dirtyP = s.dirtyP /\ x.booking = s.booking /\ x.dirtyR = s.dirtyR
  BY <1>2 DEF Sessions
<1> HIDE DEF x
<1>4. /\ t.at = "resolve" /\ t.op = "tick" /\ t.r = r /\ t.todoR = s.todoR
      /\ \A p \in Payments : t.row[p] = IF p \in PaymentsOf(r) THEN payment[p] ELSE s.row[p]
      /\ t.dirtyP = s.dirtyP /\ t.booking = s.booking /\ t.dirtyR = s.dirtyR
  BY <1>2, <1>3, LoadRowsFields DEF SamePlace
<1> HIDE DEF t
<1>5. \A p \in s.dirtyP : p \notin PaymentsOf(r)
  BY <1>1, <1>2 DEF Kept, Places, PaymentsOf
<1>6. AllFit(t, reservation, payment, returned, due)
  BY <1>2, <1>4, <1>5 DEF Kept, AllFit, AfterBooking, AfterDue, AfterRow, Sessions
<1>7. BookingsInOrder(t, reservation, returned)
  BY <1>2, <1>4 DEF Kept, BookingsInOrder, Writes
<1>8. Places(t, reservation, due)
  BY <1>1, <1>2, <1>4 DEF Kept, Places
<1>9. s.at # "idle" /\ Kept(t, reservation, payment, returned, due)
  BY <1>1, <1>6, <1>7, <1>8 DEF Kept
<1> QED  BY <1>1, <1>9, TickGoes

(* What a session may write once a reservation is off the list of the sweep. *)
LEMMA OffTheList ==
  ASSUME NEW s \in Sessions, NEW u, NEW r, NEW res,
         NEW D, u.at = "expire", u.op = "tick", u.todoR = s.todoR \ {r},
         \A q \in s.todoR \ {r} : s.booking[q] # "NONE" /\ q \notin s.dirtyR /\ D[q],
         \A q \in Reservations \ {r} : u.booking[q] = s.booking[q],
         u.dirtyR \subseteq s.dirtyR \cup {r},
         \A p \in u.dirtyP : Owner[p] = r \/ Owner[p] \notin s.todoR
  PROVE  Places(u, res, D)
<1>1. s.todoR \subseteq Reservations
  BY DEF Sessions
<1> QED  BY <1>1 DEF Places

LEMMA ExpireResolvedKept ==
  ASSUME Serially, OneLink, State, ExpireResolved
  PROVE  Books' /\ Permitted
<1> DEFINE s == session[Scheduler]  r == s.r
<1>1. s.at = "resolve" /\ UNCHANGED <<rows, yookassa>>
  BY DEF ExpireResolved
<1>2. /\ s \in Sessions /\ TypeOK /\ RowsInOrder(s, payment) /\ r \in Reservations
      /\ Kept(s, reservation, payment, returned, due) /\ s.op = "tick"
      /\ Believes(s, notices, returned)
  BY <1>1, TickActive DEF Works
<1>3. /\ s.booking[r] = "AWAITING_PAYMENT" /\ r \in s.todoR /\ r \notin s.dirtyR
      /\ reservation[r] = "AWAITING_PAYMENT"
  BY <1>1, <1>2 DEF Kept, Places, BookingsInOrder
<1>4. PICK silent :
        LET t == Next1(Heard(s, r, Asked(s, r), silent), r)
        IN Go(Scheduler, IF t.booking[r] = "PAYMENT_AUTHORIZED"
                           THEN t ELSE SetBooking(t, r, "EXPIRED"))
  BY DEF ExpireResolved
<1> DEFINE w == Heard(s, r, Asked(s, r), silent)
           t == Next1(w, r)
           u == SetBooking(t, r, "EXPIRED")
<1>5. \A p \in PaymentsOf(r) \cap Asked(s, r) : s.row[p] # "NONE"
  BY DEF Asked, Unsettled
<1>6. /\ w \in Sessions /\ Hears(w, s, r, News(Asked(s, r), silent))
      /\ BookingsInOrder(w, reservation, returned)
      /\ AllFit(w, reservation, payment, returned, due)
  <2>1. s.booking[r] # "NONE"
    BY <1>3
  <2> QED  BY <1>2, <1>5, <2>1, HeardKept DEF Kept
<1>7. /\ w.op = "tick" /\ w.todoR = s.todoR
      /\ \A q \in Reservations \ {r} : w.booking[q] = s.booking[q]
      /\ w.dirtyR \subseteq s.dirtyR \cup {r}
      /\ \A p \in w.dirtyP : p \in s.dirtyP \/ Owner[p] = r
  BY <1>2, <1>6 DEF Hears, SamePlace, Took, PaymentsOf
<1>8. Go(Scheduler, t) \/ Go(Scheduler, u)
  BY <1>4
<1> HIDE DEF w
<1>9. /\ t \in Sessions /\ t.at = "expire" /\ t.op = "tick" /\ t.row = w.row /\ t.dirtyP = w.dirtyP
      /\ t.booking = w.booking /\ t.dirtyR = w.dirtyR /\ t.todoR = s.todoR \ {r}
  BY <1>6, <1>7, Next1Fields
<1> HIDE DEF t
<1>10. BookingsInOrder(t, reservation, returned) /\ AllFit(t, reservation, payment, returned, due)
  BY <1>6, <1>9 DEF BookingsInOrder, Writes, AllFit, AfterBooking, AfterDue, AfterRow
<1>11. /\ \A q \in s.todoR \ {r} : s.booking[q] # "NONE" /\ q \notin s.dirtyR /\ due[q]
       /\ \A p \in w.dirtyP : Owner[p] = r \/ Owner[p] \notin s.todoR
  BY <1>2, <1>7 DEF Kept, Places
<1>12. Places(t, reservation, due)
  <2>1. \A q \in Reservations \ {r} : t.booking[q] = s.booking[q]
    BY <1>7, <1>9
  <2>2. t.dirtyR \subseteq s.dirtyR \cup {r}
    BY <1>7, <1>9
  <2> QED  BY <1>2, <1>9, <1>11, <2>1, <2>2, OffTheList
<1>13. u \in Sessions /\ BookingsInOrder(u, reservation, returned) /\ AllFit(u, reservation, payment, returned, due)
  BY <1>2, <1>3, <1>9, <1>10, SetBookingKept DEF Closed
<1>14. /\ u.at = "expire" /\ u.op = "tick" /\ u.todoR = s.todoR \ {r} /\ u.dirtyP = w.dirtyP
       /\ \A q \in Reservations \ {r} : u.booking[q] = s.booking[q]
       /\ u.dirtyR \subseteq s.dirtyR \cup {r}
  BY <1>2, <1>7, <1>9, SetBookingFields DEF ReservationStatus, Closed, SamePlace
<1> HIDE DEF u
<1>15. Places(u, reservation, due)
  BY <1>2, <1>11, <1>14, OffTheList
<1>16. s.at # "idle"
  BY <1>1
<1> HIDE DEF s
<1>17. CASE Go(Scheduler, t)
  BY <1>1, <1>10, <1>12, <1>16, <1>17, TickGoes DEF Kept, s
<1>18. CASE Go(Scheduler, u)
  BY <1>1, <1>13, <1>15, <1>16, <1>18, TickGoes DEF Kept, s
<1> QED  BY <1>8, <1>17, <1>18

LEMMA ExpirePaidKept ==
  ASSUME Serially, OneLink, State, NEW r \in Reservations, ExpirePaid(r)
  PROVE  Books' /\ Permitted
<1> DEFINE s == session[Scheduler]
<1>1. /\ s.at = "expire" /\ r \in s.todoR /\ s.booking[r] = "PAYMENT_AUTHORIZED"
      /\ UNCHANGED <<rows, yookassa>>
  BY DEF ExpirePaid
<1>2. /\ s \in Sessions /\ TypeOK /\ IInv
      /\ Kept(s, reservation, payment, returned, due) /\ s.op = "tick"
  BY <1>1, TickActive
<1>3. /\ r \notin s.dirtyR /\ reservation[r] = "PAYMENT_AUTHORIZED" /\ due[r]
      /\ \A p \in s.dirtyP : Owner[p] # r
  BY <1>1, <1>2 DEF Kept, Places, BookingsInOrder
<1>4. ASSUME NEW p \in PaidRows(r),
             Go(Scheduler, LoadRows([s EXCEPT !.at = "refund", !.r = r, !.p = p], {p}))
      PROVE  Books' /\ Permitted
  <2> DEFINE x == [s EXCEPT !.at = "refund", !.r = r, !.p = p]
             t == LoadRows(x, {p})
  <2>1. p \in PaymentsOf(r) /\ p \in Payments /\ Owner[p] = r
    BY DEF PaidRows, PaymentsOf
  <2>2. /\ x \in Sessions /\ x.at = "refund" /\ x.op = "tick" /\ x.r = r /\ x.p = p
        /\ x.todoR = s.todoR /\ x.row = s.row /\ x.dirtyP = s.dirtyP
        /\ x.booking = s.booking /\ x.dirtyR = s.dirtyR
    BY <1>2, <2>1 DEF Sessions
  <2> HIDE DEF x
  <2>3. /\ t.at = "refund" /\ t.op = "tick" /\ t.r = r /\ t.p = p /\ t.todoR = s.todoR
        /\ \A q \in Payments : t.row[q] = IF q \in {p} THEN payment[q] ELSE s.row[q]
        /\ t.dirtyP = s.dirtyP /\ t.booking = s.booking /\ t.dirtyR = s.dirtyR
    BY <1>2, <2>2, LoadRowsFields DEF SamePlace
  <2>4. Go(Scheduler, t)
    BY <1>4 DEF x
  <2> HIDE DEF t
  <2>5. AllFit(t, reservation, payment, returned, due)
    BY <1>2, <1>3, <2>1, <2>3 DEF Kept, AllFit, AfterBooking, AfterDue, AfterRow, Sessions
  <2>6. BookingsInOrder(t, reservation, returned)
    BY <1>2, <2>3 DEF Kept, BookingsInOrder, Writes
  <2>7. Places(t, reservation, due)
    BY <1>2, <1>3, <2>1, <2>3 DEF Kept, Places
  <2>8. s.at # "idle" /\ Kept(t, reservation, payment, returned, due)
    BY <1>1, <2>5, <2>6, <2>7 DEF Kept
  <2> QED  BY <1>1, <2>4, <2>8, TickGoes
<1>5. ASSUME PaidRows(r) = {}, Go(Scheduler, SetBooking(Next1(s, r), r, "EXPIRED"))
      PROVE  Books' /\ Permitted
  <2> DEFINE t == Next1(s, r)  u == SetBooking(t, r, "EXPIRED")
  <2>1. \A p \in PaymentsOf(r) : returned[p]
    BY <1>2, <1>3, <1>5, PaidRowFound DEF Kept
  <2>2. /\ t \in Sessions /\ t.at = "expire" /\ t.op = "tick" /\ t.row = s.row
        /\ t.dirtyP = s.dirtyP /\ t.booking = s.booking /\ t.dirtyR = s.dirtyR
        /\ t.todoR = s.todoR \ {r}
    BY <1>2, Next1Fields
  <2> HIDE DEF t
  <2>3. /\ BookingsInOrder(t, reservation, returned)
        /\ AllFit(t, reservation, payment, returned, due)
    BY <1>2, <2>2 DEF Kept, BookingsInOrder, Writes, AllFit, AfterBooking, AfterDue, AfterRow
  <2>4. /\ BookingsInOrder(u, reservation, returned)
        /\ AllFit(u, reservation, payment, returned, due)
    BY <1>3, <2>1, <2>2, <2>3, SetBookingKept DEF Closed
  <2>5. /\ u.at = "expire" /\ u.op = "tick" /\ u.todoR = s.todoR \ {r} /\ u.dirtyP = s.dirtyP
        /\ \A q \in Reservations \ {r} : u.booking[q] = s.booking[q]
        /\ u.dirtyR \subseteq s.dirtyR \cup {r}
    BY <2>2, SetBookingFields DEF ReservationStatus, Closed, SamePlace
  <2>6. Go(Scheduler, u)
    BY <1>5 DEF t
  <2> HIDE DEF u
  <2>7. /\ \A q \in s.todoR \ {r} : s.booking[q] # "NONE" /\ q \notin s.dirtyR /\ due[q]
        /\ \A q \in s.dirtyP : Owner[q] = r \/ Owner[q] \notin s.todoR
    BY <1>2 DEF Kept, Places
  <2>8. Places(u, reservation, due)
    BY <1>2, <2>5, <2>7, OffTheList
  <2>9. s.at # "idle" /\ Kept(u, reservation, payment, returned, due)
    BY <1>1, <2>4, <2>8 DEF Kept
  <2> HIDE DEF s
  <2> QED  BY <1>1, <2>6, <2>9, TickGoes DEF s
<1> QED  BY <1>4, <1>5 DEF ExpirePaid

LEMMA ExpireRefundedKept ==
  ASSUME Serially, OneLink, NoneLost, State, ExpireRefunded
  PROVE  Books' /\ Permitted
<1> DEFINE s == session[Scheduler]  r == s.r  p == s.p
<1>1. s.at = "refund" /\ UNCHANGED rows
  BY DEF ExpireRefunded
<1>2. /\ s \in Sessions /\ TypeOK /\ RowsInOrder(s, payment) /\ r \in Reservations
      /\ Kept(s, reservation, payment, returned, due) /\ s.op = "tick" /\ LinksTrue
      /\ Scheduler \in Handlers /\ IInv
      /\ \A k \in Handlers \ {Scheduler} : session[k] = Idle
      /\ AllFit(Idle, reservation, payment, returned, due)
  BY <1>1, TickActive DEF Works
<1>3. /\ reservation[r] = "PAYMENT_AUTHORIZED" /\ due[r]
      /\ p \in PaymentsOf(r) /\ p \in Payments /\ Owner[p] = r
  BY <1>1, <1>2 DEF Kept, Places, PaymentsOf
<1> DEFINE n == Next1(s, r)
           y == SetRow(n, p, ReturnedStatus(n.row[p]))
           e == SetBooking(y, r, "EXPIRED")
<1>4. /\ n \in Sessions /\ n.at = "expire" /\ n.op = "tick" /\ n.row = s.row /\ n.dirtyP = s.dirtyP
      /\ n.booking = s.booking /\ n.dirtyR = s.dirtyR /\ n.todoR = s.todoR \ {r}
  BY <1>2, Next1Fields
<1>5. PICK ok \in BOOLEAN : GiveBack(p, s.row[p], ok) /\ Go(Scheduler, IF ok THEN e ELSE n)
  BY <1>4 DEF ExpireRefunded
<1> HIDE DEF n
<1>6. BookingsInOrder(n, reservation, returned) /\ AllFit(n, reservation, payment, returned, due)
  BY <1>2, <1>4 DEF Kept, BookingsInOrder, Writes, AllFit, AfterBooking, AfterDue, AfterRow
<1>7. /\ \A q \in s.todoR \ {r} : s.booking[q] # "NONE" /\ q \notin s.dirtyR /\ due[q]
      /\ \A q \in s.dirtyP : Owner[q] = r \/ Owner[q] \notin s.todoR
  BY <1>2 DEF Kept, Places
<1>8. CASE ~ok
  <2>1. Places(n, reservation, due)
    BY <1>2, <1>4, <1>7, OffTheList
  <2>2. UNCHANGED yookassa /\ Go(Scheduler, n)
    BY <1>5, <1>8, AnswersArrive
  <2>3. s.at # "idle" /\ Kept(n, reservation, payment, returned, due)
    BY <1>1, <1>6, <2>1 DEF Kept
  <2> HIDE DEF s
  <2> QED  BY <1>1, <2>2, <2>3, TickGoes DEF s, yookassa, rows
<1>9. CASE ok
  <2>1. Refundable(p, s.row[p]) /\ MoneyLeaves(p) /\ Go(Scheduler, e)
    BY <1>5, <1>9, AnswersArrive
  <2>2. PaidIn(p, notices) /\ ~returned[p]
    BY <1>1, <1>2, <2>1, ToRefund
  <2>3. /\ \A q \in Payments : returned'[q] = IF q = p THEN TRUE ELSE returned[q]
        /\ MoneyIn(r, notices, returned) = "taken"
        /\ MoneyIn(r, notices', returned') = "returned"
        /\ \A q \in Reservations \ {r} :
             MoneyIn(q, notices', returned') = MoneyIn(q, notices, returned)
    BY <1>2, <1>3, <2>1, <2>2, MoneyGoesBack
  <2>4. UNCHANGED <<reservation, due, payment>>
    BY <1>1 DEF rows
  <2>5. Permitted
    <3> SUFFICES ASSUME NEW q \in Reservations
                 PROVE  Allowed(StageOf(reservation[q]), MoneyIn(q, notices, returned),
                                StageOf(reservation'[q]), MoneyIn(q, notices', returned'))
      BY DEF Permitted
    <3>1. CASE q = r
      BY <1>3, <2>3, <2>4, <3>1 DEF Allowed, StageOf
    <3>2. CASE q # r
      BY <2>3, <2>4, <3>2 DEF Allowed
    <3> QED  BY <3>1, <3>2
  <2>6. /\ y \in Sessions /\ y.at = "expire" /\ y.op = "tick" /\ y.todoR = s.todoR \ {r}
        /\ y.booking = s.booking /\ y.dirtyR = s.dirtyR /\ y.dirtyP = s.dirtyP \cup {p}
        /\ \A q \in Payments \ {p} : y.row[q] = s.row[q]
    <3>1. ReturnedStatus(n.row[p]) \in PaymentStatus
      BY DEF ReturnedStatus, PaymentStatus, Settled
    <3> QED  BY <1>3, <1>4, <3>1, SetRowFields DEF SamePlace
  <2> HIDE DEF y
  <2>7. /\ e.at = "expire" /\ e.op = "tick" /\ e.todoR = s.todoR \ {r}
        /\ \A q \in Reservations : e.booking[q] = IF q = r THEN "EXPIRED" ELSE s.booking[q]
        /\ e.dirtyR = s.dirtyR \cup {r} /\ e.dirtyP = s.dirtyP \cup {p}
        /\ \A q \in Payments \ {p} : e.row[q] = s.row[q]
    BY <1>2, <2>6, SetBookingFields DEF ReservationStatus, Closed, SamePlace
  <2> HIDE DEF e
  <2>8. Places(e, reservation, due)
    BY <1>2, <1>3, <1>7, <2>7, OffTheList
  <2>9. BookingsInOrder(e, reservation, returned')
    <3>1. ASSUME NEW q \in Reservations \ e.dirtyR PROVE e.booking[q] \in {"NONE", reservation[q]}
      BY <1>2, <2>7 DEF Kept, BookingsInOrder
    <3>2. ASSUME NEW q \in e.dirtyR PROVE Writes(e, reservation, returned', q)
      <4>1. CASE q = r
        <5>1. \A x \in PaymentsOf(r) : returned'[x]
          BY <1>3, <2>3 DEF OneLink, PaymentsOf
        <5> QED  BY <1>2, <1>3, <2>7, <4>1, <5>1 DEF Writes, Closed
      <4>2. CASE q # r
        <5>1. q \in s.dirtyR /\ q \in Reservations
          BY <1>2, <2>7, <3>2, <4>2 DEF Sessions
        <5>2. Writes(s, reservation, returned, q) /\ e.booking[q] = s.booking[q]
          BY <1>2, <2>7, <4>2, <5>1 DEF Kept, BookingsInOrder
        <5>3. \A x \in PaymentsOf(q) : returned[x] => returned'[x]
          BY <2>3 DEF PaymentsOf
        <5> QED  BY <5>2, <5>3 DEF Writes
      <4> QED  BY <4>1, <4>2
    <3> QED  BY <3>1, <3>2 DEF BookingsInOrder
  <2>10. ASSUME NEW q \in Payments
         PROVE  /\ Fits(AfterBooking(e, reservation, Owner[q]), AfterDue(e, due, Owner[q]),
                         AfterRow(e, payment, q), returned'[q])
                /\ Fits(AfterBooking(Idle, reservation, Owner[q]), AfterDue(Idle, due, Owner[q]),
                         AfterRow(Idle, payment, q), returned'[q])
    <3>1. CASE q = p
      BY <1>2, <1>3, <2>3, <2>7, <3>1 DEF Fits, AfterBooking, AfterDue, Idle
    <3>2. CASE q # p
      <4>1. Owner[q] # r /\ Owner[q] \in Reservations
        BY <1>3, <3>2, OwnerAssumption DEF OneLink
      <4>2. /\ Fits(AfterBooking(s, reservation, Owner[q]), AfterDue(s, due, Owner[q]),
                     AfterRow(s, payment, q), returned[q])
            /\ Fits(AfterBooking(Idle, reservation, Owner[q]), AfterDue(Idle, due, Owner[q]),
                     AfterRow(Idle, payment, q), returned[q])
        BY <1>2 DEF Kept, AllFit
      <4>3. /\ AfterBooking(e, reservation, Owner[q]) = AfterBooking(s, reservation, Owner[q])
            /\ AfterDue(e, due, Owner[q]) = AfterDue(s, due, Owner[q])
            /\ AfterRow(e, payment, q) = AfterRow(s, payment, q)
        BY <2>7, <3>2, <4>1 DEF AfterBooking, AfterDue, AfterRow
      <4> QED  BY <2>3, <3>2, <4>2, <4>3
    <3> QED  BY <3>1, <3>2
  <2>11. /\ Kept(e, reservation', payment', returned', due')
         /\ AllFit(Idle, reservation', payment', returned', due')
    BY <2>4, <2>8, <2>9, <2>10 DEF Kept, AllFit
  <2> QED  BY <1>2, <2>1, <2>5, <2>11, GoBooks
<1> QED  BY <1>8, <1>9

LEMMA ExpiryCommittedKept ==
  ASSUME Serially, State, ExpiryCommitted
  PROVE  Books' /\ Permitted
<1>1. /\ session[Scheduler].at = "expire" /\ Go(Scheduler, Idle)
      /\ Commit(session[Scheduler]) /\ UNCHANGED yookassa
  BY DEF ExpiryCommitted, Finish
<1> QED  BY <1>1, TickActive, EndsKept DEF Kept

-----------------------------------------------------------------------------
(* The client at the provider, time, and the rental.                        *)
LEMMA OutsideKept ==
  ASSUME State, UNCHANGED <<session, reservation, payment, returned, due>>
  PROVE  Books'
BY DEF State, Books, Rest

LEMMA LinkPaidKept ==
  ASSUME OneLink, State, NEW p \in Payments, LinkPaid(p)
  PROVE  Books' /\ Permitted
<1>1. /\ provider[p] = "pending" /\ UNCHANGED <<session, reservation, payment, returned>>
      /\ due' = due
      /\ \E st \in PaidStates : notices' = notices \cup {<<st, p>>}
  BY DEF LinkPaid, rows
<1>2. ~PaidIn(p, notices) /\ ~returned[p]
  BY <1>1 DEF State, InTurn, LinksTrue, LinkTrue
<1>3. \A q : PaidIn(q, notices') <=> PaidIn(q, notices) \/ q = p
  BY <1>1, PaidStatesAssumption DEF PaidIn
<1>4. ASSUME NEW r \in Reservations
      PROVE  Allowed(StageOf(reservation[r]), MoneyIn(r, notices, returned),
                     StageOf(reservation'[r]), MoneyIn(r, notices', returned'))
  <2>1. CASE p \in PaymentsOf(r)
    <3>1. \A q \in PaymentsOf(r) : q = p
      BY <2>1 DEF OneLink, PaymentsOf
    <3>2. MoneyIn(r, notices, returned) = "none"
      BY <1>2, <3>1 DEF MoneyIn
    <3>3. MoneyIn(r, notices', returned) = "taken"
      BY <1>2, <1>3, <2>1, Taken
    <3> QED  BY <1>1, <3>2, <3>3 DEF Allowed
  <2>2. CASE p \notin PaymentsOf(r)
    <3>1. MoneyIn(r, notices', returned) = MoneyIn(r, notices, returned)
      BY <1>3, <2>2 DEF MoneyIn
    <3> QED  BY <1>1, <3>1 DEF Allowed
  <2> QED  BY <2>1, <2>2
<1> QED  BY <1>1, <1>4, OutsideKept DEF Permitted

LEMMA LinkAbandonedKept ==
  ASSUME State, NEW p \in Payments, LinkAbandoned(p)
  PROVE  Books' /\ Permitted
<1>1. /\ UNCHANGED <<session, reservation, payment, returned>>
      /\ due' = due /\ notices' = notices \cup {<<"canceled", p>>}
  BY DEF LinkAbandoned, rows
<1>2. \A q : PaidIn(q, notices') <=> PaidIn(q, notices)
  BY <1>1 DEF PaidIn
<1>3. ASSUME NEW r \in Reservations
      PROVE  Allowed(StageOf(reservation[r]), MoneyIn(r, notices, returned),
                     StageOf(reservation'[r]), MoneyIn(r, notices', returned'))
  <2>1. MoneyIn(r, notices', returned) = MoneyIn(r, notices, returned)
    BY <1>2 DEF MoneyIn
  <2> QED  BY <1>1, <2>1 DEF Allowed
<1> QED  BY <1>1, <1>3, OutsideKept DEF Permitted

(* A reservation that has come to be late may still fit.                      *)
LEMMA LaterKept ==
  ASSUME NEW s, NEW res, NEW pay, NEW R, NEW D, NEW E, Kept(s, res, pay, R, D),
         s.todoR \subseteq Reservations, s.r \in Reservations \/ s.at # "refund",
         \A r \in Reservations : D[r] => E[r]
  PROVE  Kept(s, res, pay, R, E)
<1>1. AllFit(s, res, pay, R, E)
  BY OwnerAssumption DEF Kept, AllFit, AfterDue, Fits
<1>2. Places(s, res, E)
  BY DEF Kept, Places
<1> QED  BY <1>1, <1>2 DEF Kept

LEMMA DeadlineKept ==
  ASSUME State, NEW r \in Reservations, DeadlinePasses(r)
  PROVE  Books' /\ Permitted
<1>1. UNCHANGED <<session, reservation, payment, returned, notices>>
  BY DEF DeadlinePasses, yookassa
<1>2. TypeOK /\ Books
  BY DEF State, IInv
<1>3. \A q \in Reservations : due[q] => due'[q]
  BY <1>2 DEF DeadlinePasses, TypeOK
<1>4. ASSUME NEW h \in Handlers, Kept(session[h], reservation, payment, returned, due)
      PROVE  Kept(session[h], reservation, payment, returned, due')
  <2>1. session[h] \in Sessions
    BY <1>2 DEF TypeOK
  <2>2. session[h].todoR \subseteq Reservations /\ (session[h].r \in Reservations \/ session[h].at # "refund")
    <3>1. session[h].todoR \subseteq Reservations
      BY <2>1 DEF Sessions
    <3>2. session[h].at = "refund" => session[h].p \in PaymentsOf(session[h].r)
      BY <1>4 DEF Kept, Places
    <3> QED  BY <3>1, <3>2, OwnerAssumption DEF PaymentsOf
  <2> QED  BY <1>3, <1>4, <2>2, LaterKept
<1>5. AllFit(Idle, reservation, payment, returned, due')
  BY <1>2, <1>3, OwnerAssumption DEF Books, AllFit, AfterDue, Fits, Idle
<1>6. Books'
  BY <1>1, <1>2, <1>4, <1>5 DEF Books, Rest
<1> QED  BY <1>1, <1>6, Stays

(* A worker that goes down leaves the books as the last commit wrote them.    *)
LEMMA CrashKept ==
  ASSUME State, Crash
  PROVE  Books' /\ Permitted
<1>1. /\ UNCHANGED <<reservation, payment, due, returned, notices>>
      /\ \A h \in Handlers : session'[h] = Idle
  BY DEF Crash, rows, yookassa
<1>2. AllFit(Idle, reservation, payment, returned, due)
  BY DEF State, Books
<1>3. Kept(Idle, reservation, payment, returned, due)
  BY <1>2, IdleClean, IdleKept
<1> QED  BY <1>1, <1>2, <1>3, Stays DEF Books

(* A rental begins with the money held.                                     *)
LEMMA ConfirmKept ==
  ASSUME Serially, OneLink, State, NEW r \in Reservations, Confirm(r)
  PROVE  Books' /\ Permitted
<1>1. /\ \A k \in Handlers : session[k].at = "idle"
      /\ reservation[r] = "PAYMENT_AUTHORIZED"
      /\ reservation' = [reservation EXCEPT ![r] = "CONFIRMED"]
      /\ UNCHANGED <<payment, returned, notices, session, due>> /\ ~due[r]
  BY DEF Confirm, Serially, yookassa
<1>2. IInv /\ Rest /\ AllFit(Idle, reservation, payment, returned, due) /\ TypeOK
  BY <1>1, AtRest DEF State, IInv
<1>3. \A q \in Reservations : reservation'[q] = IF q = r THEN "CONFIRMED" ELSE reservation[q]
  BY <1>1, <1>2 DEF TypeOK
<1>4. MoneyIn(r, notices, returned) = "taken"
  BY <1>1, <1>2, IdleClean, PaidRowFound DEF Clean
<1>5. ASSUME NEW q \in Reservations
      PROVE  Allowed(StageOf(reservation[q]), MoneyIn(q, notices, returned),
                     StageOf(reservation'[q]), MoneyIn(q, notices', returned'))
  <2>1. CASE q = r
    BY <1>1, <1>3, <1>4, <2>1 DEF Allowed, StageOf
  <2>2. CASE q # r
    BY <1>1, <1>3, <2>2 DEF Allowed
  <2> QED  BY <2>1, <2>2
<1>6. ASSUME NEW p \in Payments
      PROVE  Fits(reservation'[Owner[p]], due[Owner[p]], payment[p], returned[p])
  <2>1. Fits(reservation[Owner[p]], due[Owner[p]], payment[p], returned[p])
    <3>1. Fits(AfterBooking(Idle, reservation, Owner[p]), AfterDue(Idle, due, Owner[p]),
               AfterRow(Idle, payment, p), returned[p])
      BY <1>2 DEF AllFit
    <3> QED  BY <3>1, IdleClean DEF Fits, Clean, AfterBooking, AfterDue, AfterRow
  <2> QED  BY <1>3, <2>1, OwnerAssumption DEF Fits
<1>7. AllFit(Idle, reservation', payment', returned', due')
  <2> SUFFICES ASSUME NEW p \in Payments
               PROVE  Fits(AfterBooking(Idle, reservation', Owner[p]), AfterDue(Idle, due', Owner[p]),
                           AfterRow(Idle, payment', p), returned'[p])
    BY DEF AllFit
  <2> QED  BY <1>1, <1>6, IdleClean DEF Fits, Clean, AfterBooking, AfterDue, AfterRow
<1>8. Kept(Idle, reservation', payment', returned', due')
  BY <1>7, IdleClean, IdleKept
<1>9. Books'
  BY <1>1, <1>2, <1>7, <1>8 DEF Books, Rest
<1> QED  BY <1>5, <1>9 DEF Permitted

LEMMA InitKept ==
  ASSUME Init
  PROVE  State
<1>1. IInv /\ InTurn
  BY InitIInv, InitInTurn
<1>2. AllFit(Idle, reservation, payment, returned, due)
  BY OwnerAssumption DEF Init, AllFit, Fits, AfterBooking, AfterDue, AfterRow, Idle, PaidStatus
<1>3. Kept(Idle, reservation, payment, returned, due)
  BY <1>2, IdleClean, IdleKept
<1> QED  BY <1>1, <1>2, <1>3 DEF State, Books, Init

LEMMA StepKept ==
  ASSUME Serially, OneLink, NoneLost, State, [Next]_vars
  PROVE  State' /\ Permitted
<1> SUFFICES Books' /\ Permitted
  BY NextIInv, StepInTurn DEF State
<1>1. ASSUME NEW h \in Requests, RequestStarts(h) \/ RequestAnswered(h)
      PROVE  Books' /\ Permitted
  BY <1>1, StartPayKept, StartListKept, StartCancelKept, StartPollKept, StartWebhookKept,
     PaySyncedKept, PayAnsweredKept, StatusAnsweredKept, ListAnsweredKept,
     CancelResolvedKept, CancelRefundedKept DEF RequestStarts, RequestAnswered
<1>2. CASE SchedulerStep
  BY <1>2, StartTickKept, StartExpiryKept, ExpireResolvedKept, ExpireRefundedKept,
     ExpiryCommittedKept, ReconciledKept, ExpireUnpaidKept, ExpirePaidKept DEF SchedulerStep
<1>3. CASE UNCHANGED vars
  <2>1. UNCHANGED <<session, reservation, payment, returned, notices, due>>
    BY <1>3 DEF vars
  <2> QED  BY <2>1, OutsideKept, Stays
<1> QED  BY <1>1, <1>2, <1>3, LinkPaidKept, LinkAbandonedKept, DeadlineKept, ConfirmKept,
            CrashKept DEF Next

(* Handlers one at a time, with one link for each reservation and no answer  *)
(* to a refund lost, every step of the money flow is a step of MoneyPromise, *)
(* crashes and whole expiry batches included: a reservation is known to be   *)
(* paid only while its money is held, becomes a rental only then, and closes *)
(* from there only with the money back.                                     *)
THEOREM PromiseKept ==
  ASSUME Serially, OneLink, NoneLost
  PROVE  Spec => KeepsPromise
<1>1. Init => Promise!Init /\ State
  BY PromiseStarts, InitKept
<1>2. State /\ [Next]_vars => State' /\ [Promise!Next]_(Promise!promise)
  <2> SUFFICES ASSUME State, [Next]_vars PROVE State' /\ Promise!Next
    OBVIOUS
  <2>1. State' /\ Permitted
    BY StepKept
  <2> QED  BY <2>1, PromiseMoves DEF Permitted
<1> QED  BY <1>1, <1>2, PTL DEF Spec, KeepsPromise, Promise!Spec
=============================================================================
