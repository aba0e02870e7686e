---------------------------- MODULE PaymentFlow ----------------------------
(***************************************************************************)
(* The money of a reservation: the payment links the client opens, the     *)
(* rows that mirror them, the notifications of YooKassa, the sweeps that    *)
(* ask the provider, and every handler that gives the money back.          *)
(*                                                                         *)
(* Handlers are coroutines of one event loop.  Each loads rows into its    *)
(* own SQLAlchemy session, waits for the provider, and writes what it       *)
(* changed.  A step below is the code between two provider calls; session  *)
(* is what a handler carries across a call, so it may be stale when used.  *)
(***************************************************************************)
EXTENDS Naturals, FiniteSets

CONSTANTS
  Reservations,    \* reservations of the model
  Payments,        \* payment rows (links) that may be created
  Owner,           \* the reservation a payment row belongs to
  Requests,        \* HTTP requests that may be in flight at once
  Scheduler,       \* the reservation maintenance thread
  NoReservation, NoPayment,
  Operations,      \* request handlers that clients and YooKassa call
  PaidStates,      \* what paying a link leads to ("capture": True: succeeded)
  LateLinks,       \* TRUE: a link may be paid after its reservation closed
  Overlap,         \* TRUE: handlers interleave at provider calls
  Faults,          \* kinds of failure that may happen
  MaxFaults        \* bound: failures of one behaviour

ASSUME OwnerAssumption == Owner \in [Payments -> Reservations]
ASSUME NullAssumption == /\ NoReservation \notin Reservations
                         /\ NoPayment \notin Payments
ASSUME SchedulerAssumption == Scheduler \notin Requests
ASSUME OperationsAssumption ==
  Operations \subseteq {"pay", "poll", "webhook", "list", "cancel"}
ASSUME PaidStatesAssumption ==
  PaidStates \subseteq {"succeeded", "waiting_for_capture"}
ASSUME FaultsAssumption ==
  /\ LateLinks \in BOOLEAN /\ Overlap \in BOOLEAN
  /\ Faults \subseteq {"silent", "refused", "lost", "crash"}
  /\ MaxFaults \in Nat

Handlers == Requests \cup {Scheduler}

Open == {"AWAITING_PAYMENT", "PAYMENT_AUTHORIZED"}
Closed == {"EXPIRED", "CANCELLED"}
ReservationStatus == Open \cup {"CONFIRMED"} \cup Closed

PaidStatus == {"AUTHORIZED", "CAPTURED"}
Unsettled == {"PENDING", "AUTHORIZED"}
Settled == {"CAPTURED", "CANCELLED", "REFUNDED"}
PaymentStatus == Unsettled \cup Settled \cup {"FAILED"}
ProviderStatus == {"pending", "waiting_for_capture", "succeeded", "canceled"}

VARIABLES
  reservation,   \* committed Reservation.status
  due,           \* due[r]: expires_at has passed
  payment,       \* committed Payment.status, "NONE" before the row exists
  provider,      \* status of the link at YooKassa, "NONE" before it exists
  returned,      \* the provider has given the money of the link back
  notices,       \* notifications YooKassa may deliver, any number of times
  events,        \* PaymentEvent rows, the deduplication of notifications
  session,       \* what each handler carries across its provider call
  faults         \* failures that have happened

rows == <<reservation, due, payment>>
yookassa == <<provider, returned, notices>>
vars == <<reservation, due, payment, provider, returned, notices, events,
          session, faults>>

PaymentsOf(r) == {p \in Payments : Owner[p] = r}
Exists(p) == payment[p] # "NONE"

(* A session: the phase, the row under work, the copies its queries loaded, *)
(* the attributes it changed and has not flushed, and what a sweep has left. *)
Sessions ==
  [at : {"idle", "sync", "resolve", "create", "refund", "reconcile", "expire"},
   op : Operations \cup {"none", "tick"},
   r : Reservations \cup {NoReservation},
   p : Payments \cup {NoPayment},
   row : [Payments -> PaymentStatus \cup {"NONE"}],
   booking : [Reservations -> ReservationStatus \cup {"NONE"}],
   dirtyP : SUBSET Payments, dirtyR : SUBSET Reservations,
   body : ProviderStatus \cup {"NONE"},
   todoP : SUBSET Payments, todoR : SUBSET Reservations]

Idle ==
  [at |-> "idle", op |-> "none", r |-> NoReservation, p |-> NoPayment,
   row |-> [p \in Payments |-> "NONE"],
   booking |-> [r \in Reservations |-> "NONE"],
   dirtyP |-> {}, dirtyR |-> {}, body |-> "NONE", todoP |-> {}, todoR |-> {}]

Init ==
  /\ reservation = [r \in Reservations |-> "AWAITING_PAYMENT"]
  /\ due = [r \in Reservations |-> FALSE]
  /\ payment = [p \in Payments |-> "NONE"]
  /\ provider = [p \in Payments |-> "NONE"]
  /\ returned = [p \in Payments |-> FALSE]
  /\ notices = {}
  /\ events = {}
  /\ session = [h \in Handlers |-> Idle]
  /\ faults = 0

-----------------------------------------------------------------------------
(* Queries and writes of a session.                                         *)

LoadRows(s, ps) ==
  [s EXCEPT !.row = [p \in Payments |-> IF p \in ps THEN payment[p] ELSE @[p]]]

LoadBookings(s, rs) ==
  [s EXCEPT !.booking =
     [r \in Reservations |-> IF r \in rs THEN reservation[r] ELSE @[r]]]

(* Only the attributes the session changed reach the database.              *)
Commit(s) ==
  /\ payment' = [p \in Payments |->
                   IF p \in s.dirtyP THEN s.row[p] ELSE payment[p]]
  /\ reservation' = [r \in Reservations |->
                       IF r \in s.dirtyR THEN s.booking[r] ELSE reservation[r]]
  /\ due' = [r \in Reservations |->
               due[r] /\ ~(r \in s.dirtyR /\ s.booking[r] = "PAYMENT_AUTHORIZED")]

SetBooking(s, r, status) ==
  [s EXCEPT !.booking[r] = status, !.dirtyR = @ \cup {r}]

SetRow(s, p, status) == [s EXCEPT !.row[p] = status, !.dirtyP = @ \cup {p}]

(* Mutant: a status of YooKassa is stored as it comes.                      *)
MapStatusRaw(st) ==
  CASE st = "waiting_for_capture" -> "AUTHORIZED"
    [] st = "succeeded" -> "CAPTURED"
    [] st = "pending" -> "PENDING"
    [] OTHER -> st

MapStatus(st) ==
  CASE st = "waiting_for_capture" -> "AUTHORIZED"
    [] st = "succeeded" -> "CAPTURED"
    [] st = "canceled" -> "FAILED"
    [] st = "pending" -> "PENDING"
    [] OTHER -> "NONE"

(* Mutant: settled rows are not protected.                                  *)
AppliesToSettled(seen, new) ==
  new # "NONE" /\ (new = seen \/ new # "PENDING")

(* Does a transition to new take effect on a row the session saw as seen?   *)
Applies(seen, new) ==
  /\ new # "NONE"
  /\ new = seen \/ (seen \notin Settled /\ new # "PENDING")

(* Mutant: any answer moves the reservation.                                *)
AppliedUnpaid(s, r, news) ==
  LET took == {p \in PaymentsOf(r) : Applies(s.row[p], news[p])}
      moved == [s EXCEPT
                  !.row = [p \in Payments |-> IF p \in took THEN news[p] ELSE @[p]],
                  !.dirtyP = @ \cup {p \in took : news[p] # s.row[p]}]
  IN IF s.booking[r] = "AWAITING_PAYMENT" /\ took # {}
       THEN SetBooking(moved, r, "PAYMENT_AUTHORIZED") ELSE moved

(* apply_payment_status_transition for each row of news, on one reservation *)
Applied(s, r, news) ==
  LET took == {p \in PaymentsOf(r) : Applies(s.row[p], news[p])}
      pulled == /\ s.booking[r] = "AWAITING_PAYMENT"
                /\ \E p \in took : news[p] \in PaidStatus
      moved == [s EXCEPT
                  !.row = [p \in Payments |-> IF p \in took THEN news[p] ELSE @[p]],
                  !.dirtyP = @ \cup {p \in took : news[p] # s.row[p]}]
  IN IF pulled THEN SetBooking(moved, r, "PAYMENT_AUTHORIZED") ELSE moved

(* The rows a sync asks the provider about, as the session sees them.  A    *)
(* client who pays again is only asked to wait for PENDING ones.            *)
Asked(s, r) == {p \in PaymentsOf(r) : s.row[p] \in Unsettled}
AskedToPay(s, r) == {p \in PaymentsOf(r) : s.row[p] = "PENDING"}

Fault(kind) == kind \in Faults /\ faults < MaxFaults /\ faults' = faults + 1

(* Answers of YooKassa to the status queries of ps: the truth, or silence.  *)
News(ps, silent) ==
  [p \in Payments |-> IF p \in ps \ silent THEN MapStatus(provider[p]) ELSE "NONE"]

Heard(s, r, ps, silent) == Applied(s, r, News(ps, silent))

Answer(silent) == IF silent = {} THEN UNCHANGED faults ELSE Fault("silent")

(* refund_yookassa_payment or cancel_yookassa_payment, chosen by the status  *)
(* the caller read.  Every call has a fresh idempotency key, so a payment   *)
(* already given back is refused.  ok is what the caller learns.            *)
Refundable(p, seen) ==
  IF seen = "CAPTURED" THEN provider[p] = "succeeded" /\ ~returned[p]
                       ELSE provider[p] = "waiting_for_capture"

MoneyLeaves(p) ==
  /\ returned' = [returned EXCEPT ![p] = TRUE]
  /\ IF provider[p] = "waiting_for_capture"
       THEN /\ provider' = [provider EXCEPT ![p] = "canceled"]
            /\ notices' = notices \cup {<<"canceled", p>>}
       ELSE UNCHANGED <<provider, notices>>

GiveBack(p, seen, ok) ==
  \/ ok /\ Refundable(p, seen) /\ MoneyLeaves(p) /\ UNCHANGED faults
  \/ ~ok /\ ~Refundable(p, seen) /\ UNCHANGED <<yookassa, faults>>
  \/ ~ok /\ Refundable(p, seen) /\ Fault("refused") /\ UNCHANGED yookassa
  \/ ~ok /\ Refundable(p, seen) /\ Fault("lost") /\ MoneyLeaves(p)

ReturnedStatus(seen) == IF seen = "CAPTURED" THEN "REFUNDED" ELSE "CANCELLED"

PaidRows(r) == {p \in PaymentsOf(r) : payment[p] \in PaidStatus}

-----------------------------------------------------------------------------
(* The client at the provider, and time.                                    *)

LinkPaid(p) ==
  /\ provider[p] = "pending"
  /\ LateLinks \/ reservation[Owner[p]] \in Open
  /\ \E st \in PaidStates :
       /\ provider' = [provider EXCEPT ![p] = st]
       /\ notices' = notices \cup {<<st, p>>}
  /\ UNCHANGED <<rows, returned, events, session, faults>>

LinkAbandoned(p) ==
  /\ provider[p] = "pending"
  /\ provider' = [provider EXCEPT ![p] = "canceled"]
  /\ notices' = notices \cup {<<"canceled", p>>}
  /\ UNCHANGED <<rows, returned, events, session, faults>>

DeadlinePasses(r) ==
  /\ reservation[r] \in Open
  /\ ~due[r]
  /\ due' = [due EXCEPT ![r] = TRUE]
  /\ UNCHANGED <<reservation, payment, yookassa, events, session, faults>>

(* The paid reservation becomes a rental (module Handover has the details). *)
Confirm(r) ==
  /\ Overlap \/ \A h \in Handlers : session[h].at = "idle"
  /\ reservation[r] = "PAYMENT_AUTHORIZED"
  /\ ~due[r]
  /\ reservation' = [reservation EXCEPT ![r] = "CONFIRMED"]
  /\ UNCHANGED <<due, payment, yookassa, events, session, faults>>

-----------------------------------------------------------------------------
(* Requests.  Start(h) is the code before the first call to the provider.   *)

Start(h, op, s) ==
  /\ session[h].at = "idle"
  /\ Overlap \/ \A k \in Handlers : session[k].at = "idle"
  /\ session' = [session EXCEPT ![h] = [s EXCEPT !.op = op]]
  /\ UNCHANGED <<rows, yookassa, events, faults>>

Go(h, s) == session' = [session EXCEPT ![h] = s]
Finish(h) == Go(h, Idle)

(* create_preauth_for_reservation: ask about earlier links, refuse if one   *)
(* is paid, else open a new link; the row is committed with its answer.     *)
StartPay(h, r) ==
  /\ "pay" \in Operations
  /\ reservation[r] = "AWAITING_PAYMENT" /\ ~due[r]
  /\ Start(h, "pay", LoadRows(LoadBookings(
       [Idle EXCEPT !.at = "sync", !.r = r], {r}), PaymentsOf(r)))

PaySynced(h) ==
  LET s == session[h]
  IN /\ s.at = "sync" /\ s.op = "pay"
     /\ \E silent \in SUBSET AskedToPay(s, s.r) :
          /\ Answer(silent)
          /\ LET t == Heard(s, s.r, AskedToPay(s, s.r), silent)
             IN /\ Commit(t)
                /\ IF \E p \in PaymentsOf(s.r) : t.row[p] \in PaidStatus
                     THEN Finish(h)
                     ELSE Go(h, [Idle EXCEPT !.at = "create", !.op = "pay",
                                             !.r = s.r])
     /\ UNCHANGED <<yookassa, events>>

PayAnswered(h) ==
  LET s == session[h]
  IN /\ s.at = "create"
     /\ \/ \E p \in PaymentsOf(s.r) :
             /\ ~Exists(p)
             /\ provider' = [provider EXCEPT ![p] = "pending"]
             /\ payment' = [payment EXCEPT ![p] = "PENDING"]
        \/ UNCHANGED <<provider, payment>>      \* error or timeout: rollback
     /\ Finish(h)
     /\ UNCHANGED <<reservation, due, returned, notices, events, faults>>

(* get_payment asks the provider only while its row is PENDING.             *)
StartPoll(h, p) ==
  /\ "poll" \in Operations
  /\ payment[p] = "PENDING"
  /\ Start(h, "poll", LoadRows([Idle EXCEPT !.at = "sync", !.r = Owner[p],
                                            !.p = p], {p}))

(* process_yookassa_webhook: a notification seen before is acknowledged.    *)
StartWebhook(h, p, st) ==
  /\ "webhook" \in Operations
  /\ <<st, p>> \in notices
  /\ <<st, p>> \notin events
  /\ Start(h, "webhook", LoadRows([Idle EXCEPT !.at = "sync", !.r = Owner[p],
                                               !.p = p, !.body = st], {p}))

(* The reservation is read after the answer.  When the answer changed       *)
(* nothing, the body of a notification from a known address counts.  The    *)
(* event row is unique: a concurrent copy rolls everything back.            *)
StatusAnswered(h) ==
  LET s == LoadBookings(session[h], {session[h].r})
      bodyNews == [q \in Payments |->
                     IF q = s.p THEN MapStatus(s.body) ELSE "NONE"]
  IN /\ s.at = "sync" /\ s.op \in {"poll", "webhook"}
     /\ \E silent \in SUBSET ({s.p} \cap Asked(s, s.r)), trusted \in BOOLEAN :
          /\ Answer(silent)
          /\ LET t == Heard(s, s.r, {s.p} \cap Asked(s, s.r), silent)
                 u == IF t = s /\ trusted THEN Applied(s, s.r, bodyNews) ELSE t
             IN IF <<s.body, s.p>> \in events THEN UNCHANGED rows ELSE Commit(u)
     /\ events' = IF s.op = "webhook" THEN events \cup {<<s.body, s.p>>}
                                      ELSE events
     /\ Finish(h)
     /\ UNCHANGED yookassa

(* list_my_reservations repairs a reservation behind its paid row, then     *)
(* asks the provider about what still looks unpaid.                         *)
StartList(h, r) ==
  LET s == LoadRows(LoadBookings([Idle EXCEPT !.at = "sync", !.r = r], {r}),
                    PaymentsOf(r))
  IN /\ "list" \in Operations
     /\ reservation[r] \in Open
     /\ Start(h, "list",
              IF reservation[r] = "AWAITING_PAYMENT" /\ PaidRows(r) # {}
                THEN SetBooking(s, r, "PAYMENT_AUTHORIZED") ELSE s)

AskedIfUnpaid(s, r) ==
  IF s.booking[r] = "AWAITING_PAYMENT" THEN Asked(s, r) ELSE {}

ListAnswered(h) ==
  LET s == session[h]
  IN /\ s.at = "sync" /\ s.op = "list"
     /\ \E silent \in SUBSET AskedIfUnpaid(s, s.r) :
          /\ Answer(silent)
          /\ Commit(Heard(s, s.r, AskedIfUnpaid(s, s.r), silent))
     /\ Finish(h)
     /\ UNCHANGED <<yookassa, events>>

(* cancel_my_reservation.  What resolve found is in the session only: with  *)
(* autoflush off, the query for the row to refund reads the database.       *)
StartCancel(h, r) ==
  /\ "cancel" \in Operations
  /\ reservation[r] \in Open
  /\ Start(h, "cancel", LoadRows(LoadBookings(
       [Idle EXCEPT !.at = "resolve", !.r = r], {r}), PaymentsOf(r)))

CancelResolved(h) ==
  LET s == session[h]
  IN /\ s.at = "resolve" /\ s.op = "cancel"
     /\ \E silent \in SUBSET AskedIfUnpaid(s, s.r) :
          /\ Answer(silent)
          /\ LET t == Heard(s, s.r, AskedIfUnpaid(s, s.r), silent)
             IN IF t.booking[s.r] = "PAYMENT_AUTHORIZED" /\ PaidRows(s.r) # {}
                  THEN /\ \E p \in PaidRows(s.r) :
                            Go(h, [t EXCEPT !.at = "refund", !.p = p,
                                            !.row[p] = payment[p]])
                       /\ UNCHANGED rows
                  ELSE /\ Commit(SetBooking(t, s.r, "CANCELLED"))
                       /\ Finish(h)
     /\ UNCHANGED <<yookassa, events>>

(* Mutant: cancelled although the refund was refused.                       *)
CancelUnrefunded(h) ==
  LET s == session[h]
  IN /\ s.at = "refund" /\ s.op = "cancel"
     /\ \E ok \in BOOLEAN : GiveBack(s.p, s.row[s.p], ok)
     /\ Commit(SetBooking(s, s.r, "CANCELLED"))
     /\ Finish(h)
     /\ UNCHANGED events

CancelRefunded(h) ==
  LET s == session[h]
  IN /\ s.at = "refund" /\ s.op = "cancel"
     /\ \E ok \in BOOLEAN :
          /\ GiveBack(s.p, s.row[s.p], ok)
          /\ IF ok
               THEN Commit(SetBooking(SetRow(s, s.p, ReturnedStatus(s.row[s.p])),
                                      s.r, "CANCELLED"))
               ELSE UNCHANGED rows
     /\ Finish(h)
     /\ UNCHANGED events

-----------------------------------------------------------------------------
(* _reservation_maintenance_tick: reconcile, (auto-confirm,) expire.        *)

(* Mutant: the sweep asks only about authorized payments.                   *)
StartTickAuthorized ==
  LET unsettled == {p \in Payments : payment[p] = "AUTHORIZED"}
  IN Start(Scheduler, "tick",
           LoadRows([Idle EXCEPT !.at = "reconcile", !.todoP = unsettled],
                    unsettled))

StartTick ==
  LET unsettled == {p \in Payments : payment[p] \in Unsettled}
  IN Start(Scheduler, "tick",
           LoadRows([Idle EXCEPT !.at = "reconcile", !.todoP = unsettled],
                    unsettled))

(* reconcile_pending_payments: one transaction per payment, rows loaded at  *)
(* the start of the sweep, the reservation at the answer.                   *)
Reconciled(p) ==
  LET s == LoadBookings(session[Scheduler], {Owner[p]})
  IN /\ s.at = "reconcile" /\ p \in s.todoP
     /\ \E silent \in SUBSET {p} :
          /\ Answer(silent)
          /\ Commit(Heard(s, Owner[p], {p}, silent))
     /\ Go(Scheduler, [session[Scheduler] EXCEPT !.todoP = @ \ {p},
                                                 !.row[p] = "NONE"])
     /\ UNCHANGED <<yookassa, events>>

(* Mutant: paid reservations never expire.                                  *)
StartExpiryUnpaid ==
  LET stale == {r \in Reservations : due[r] /\ reservation[r] = "AWAITING_PAYMENT"}
  IN /\ session[Scheduler].at = "reconcile" /\ session[Scheduler].todoP = {}
     /\ Go(Scheduler, LoadBookings(
          [Idle EXCEPT !.at = "expire", !.op = "tick", !.todoR = stale], stale))
     /\ UNCHANGED <<rows, yookassa, events, faults>>

(* expire_stale_reservations: all due reservations are loaded at once.      *)
StartExpiry ==
  LET stale == {r \in Reservations : due[r] /\ reservation[r] \in Open}
  IN /\ session[Scheduler].at = "reconcile" /\ session[Scheduler].todoP = {}
     /\ Go(Scheduler, LoadBookings(
          [Idle EXCEPT !.at = "expire", !.op = "tick", !.todoR = stale], stale))
     /\ UNCHANGED <<rows, yookassa, events, faults>>

Next1(s, r) == [s EXCEPT !.at = "expire", !.r = NoReservation,
                         !.p = NoPayment, !.todoR = @ \ {r}]

ExpireUnpaid(r) ==
  LET s == session[Scheduler]
  IN /\ s.at = "expire" /\ r \in s.todoR
     /\ s.booking[r] = "AWAITING_PAYMENT"
     /\ Go(Scheduler, LoadRows([s EXCEPT !.at = "resolve", !.r = r],
                               PaymentsOf(r)))
     /\ UNCHANGED <<rows, yookassa, events, faults>>

ExpireResolved ==
  LET s == session[Scheduler]
  IN /\ s.at = "resolve"
     /\ \E silent \in SUBSET Asked(s, s.r) :
          /\ Answer(silent)
          /\ LET t == Next1(Heard(s, s.r, Asked(s, s.r), silent), s.r)
             IN Go(Scheduler, IF t.booking[s.r] = "PAYMENT_AUTHORIZED"
                                THEN t ELSE SetBooking(t, s.r, "EXPIRED"))
     /\ UNCHANGED <<rows, yookassa, events>>

(* release_reservation_payment: one row that looks paid, if there is one.   *)
ExpirePaid(r) ==
  LET s == session[Scheduler]
  IN /\ s.at = "expire" /\ r \in s.todoR
     /\ s.booking[r] = "PAYMENT_AUTHORIZED"
     /\ \/ \E p \in PaidRows(r) :
             Go(Scheduler, LoadRows([s EXCEPT !.at = "refund", !.r = r,
                                              !.p = p], {p}))
        \/ /\ PaidRows(r) = {}
           /\ Go(Scheduler, SetBooking(Next1(s, r), r, "EXPIRED"))
     /\ UNCHANGED <<rows, yookassa, events, faults>>

(* Mutant: the row is settled whatever the provider said.                   *)
ExpireUnrefunded ==
  LET s == session[Scheduler]
  IN /\ s.at = "refund"
     /\ \E ok \in BOOLEAN : GiveBack(s.p, s.row[s.p], ok)
     /\ Go(Scheduler, SetBooking(SetRow(Next1(s, s.r), s.p,
                                        ReturnedStatus(s.row[s.p])),
                                 s.r, "EXPIRED"))
     /\ UNCHANGED <<rows, events>>

ExpireRefunded ==
  LET s == session[Scheduler]
  IN /\ s.at = "refund"
     /\ \E ok \in BOOLEAN :
          /\ GiveBack(s.p, s.row[s.p], ok)
          /\ Go(Scheduler,
                IF ok THEN SetBooking(SetRow(Next1(s, s.r), s.p,
                                             ReturnedStatus(s.row[s.p])),
                                      s.r, "EXPIRED")
                      ELSE Next1(s, s.r))
     /\ UNCHANGED <<rows, events>>

(* One commit for the whole batch.                                          *)
ExpiryCommitted ==
  LET s == session[Scheduler]
  IN /\ s.at = "expire" /\ s.todoR = {}
     /\ Commit(s)
     /\ Finish(Scheduler)
     /\ UNCHANGED <<yookassa, events, faults>>

-----------------------------------------------------------------------------
(* The process restarts: whatever was not committed is forgotten.           *)
Crash ==
  /\ Fault("crash")
  /\ \E h \in Handlers : session[h].at # "idle"
  /\ session' = [h \in Handlers |-> Idle]
  /\ UNCHANGED <<rows, yookassa, events>>

RequestAnswered(h) ==
  \/ PaySynced(h) \/ PayAnswered(h) \/ StatusAnswered(h) \/ ListAnswered(h)
  \/ CancelResolved(h) \/ CancelRefunded(h)

RequestStarts(h) ==
  \/ \E r \in Reservations : StartPay(h, r) \/ StartList(h, r) \/ StartCancel(h, r)
  \/ \E p \in Payments : StartPoll(h, p)
  \/ \E n \in notices : StartWebhook(h, n[2], n[1])

SchedulerStep ==
  \/ StartTick \/ StartExpiry \/ ExpireResolved \/ ExpireRefunded
  \/ ExpiryCommitted
  \/ \E p \in Payments : Reconciled(p)
  \/ \E r \in Reservations : ExpireUnpaid(r) \/ ExpirePaid(r)

Next ==
  \/ \E h \in Requests : RequestStarts(h) \/ RequestAnswered(h)
  \/ SchedulerStep
  \/ \E p \in Payments : LinkPaid(p) \/ LinkAbandoned(p)
  \/ \E r \in Reservations : DeadlinePasses(r) \/ Confirm(r)
  \/ Crash

Spec == Init /\ [][Next]_vars

-----------------------------------------------------------------------------
TypeOK ==
  /\ reservation \in [Reservations -> ReservationStatus]
  /\ due \in [Reservations -> BOOLEAN]
  /\ payment \in [Payments -> PaymentStatus \cup {"NONE"}]
  /\ provider \in [Payments -> ProviderStatus \cup {"NONE"}]
  /\ returned \in [Payments -> BOOLEAN]
  /\ notices \subseteq ProviderStatus \X Payments
  /\ events \subseteq ProviderStatus \X Payments
  /\ session \in [Handlers -> Sessions]
  /\ faults \in 0..MaxFaults

(* What the client did at the provider; notices only grow.                  *)
PaidByClient(p) ==
  \/ <<"succeeded", p>> \in notices
  \/ <<"waiting_for_capture", p>> \in notices

Held(p) == PaidByClient(p) /\ ~returned[p]

(* No rental for free: whatever the order of notifications, polls, sweeps    *)
(* and retries, a reservation counts as paid only if a link of that very     *)
(* reservation was paid (_sync_reservation_with_payment).                    *)
PaidIsBacked ==
  \A r \in Reservations :
    reservation[r] \in {"PAYMENT_AUTHORIZED", "CONFIRMED"} =>
      \E p \in PaymentsOf(r) : PaidByClient(p)

(* The books never claim a refund that did not happen: a row is REFUNDED or  *)
(* CANCELLED only after the provider gave the money back                     *)
(* (release_reservation_payment sets the status after the call).             *)
ReturnedIsTrue ==
  \A p \in Payments : payment[p] \in {"REFUNDED", "CANCELLED"} => returned[p]

(* A settled row only moves from CAPTURED to REFUNDED; a late notification   *)
(* or sweep does not override it (_SETTLED_PAYMENT_STATUSES).                *)
SettledStays ==
  [][\A p \in Payments :
       payment[p] \in Settled /\ payment'[p] # payment[p] =>
         payment[p] = "CAPTURED" /\ payment'[p] = "REFUNDED"]_vars

(* Whoever cancels gets back the money the system knows about: no CANCELLED  *)
(* reservation keeps a paid row (cancel_my_reservation asks the provider     *)
(* first so that the client is not left "without reservation and money").    *)
CancelReturnsMoney ==
  \A r \in Reservations : reservation[r] = "CANCELLED" => PaidRows(r) = {}

(* The scheduler never asks for the refund of money already given back       *)
(* (docstring of release_reservation_payment).                               *)
NoSecondRefund ==
  session[Scheduler].at = "refund" => ~returned[session[Scheduler].p]

-----------------------------------------------------------------------------
(* The abstract promise, with what the books cannot see read off the         *)
(* provider.                                                                 *)
Stage(r) ==
  CASE reservation[r] = "AWAITING_PAYMENT" -> "open"
    [] reservation[r] = "PAYMENT_AUTHORIZED" -> "paid"
    [] reservation[r] = "CONFIRMED" -> "confirmed"
    [] OTHER -> "closed"

Money(r) ==
  IF \E p \in PaymentsOf(r) : Held(p) THEN "taken"
  ELSE IF \E p \in PaymentsOf(r) : PaidByClient(p) THEN "returned"
  ELSE "none"

Promise == INSTANCE MoneyPromise WITH
  stage <- [r \in Reservations |-> Stage(r)],
  money <- [r \in Reservations |-> Money(r)]

(* Every step of the detailed money flow is a step of MoneyPromise.          *)
KeepsPromise == Promise!Spec

-----------------------------------------------------------------------------
(* The scheduler thread keeps running; each call to the provider ends.       *)
FairSpec == Spec /\ WF_vars(SchedulerStep)

(* Without overlap a handler waits for the others, as in a fair queue.       *)
QueueSpec ==
  /\ Spec
  /\ SF_vars(SchedulerStep)
  /\ \A h \in Requests : WF_vars(RequestAnswered(h))

(* Without any notification or returning client, the sweep notices a         *)
(* payment (reconcile_pending_payments).                                     *)
PaymentNoticed ==
  \A p \in Payments :
    payment[p] = "PENDING" /\ PaidByClient(p) ~> payment[p] # "PENDING"

(* A reservation past its deadline does not hold its unit forever: it is     *)
(* closed, rented or found paid and given a later deadline                   *)
(* (expire_stale_reservations).                                              *)
DeadlineResolved ==
  \A r \in Reservations :
    due[r] /\ reservation[r] \in Open ~> ~due[r] \/ reservation[r] \notin Open
=============================================================================
