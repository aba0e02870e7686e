----------------------------- MODULE Extension -----------------------------
(***************************************************************************)
(* The term of one rental: extensions that are paid and then applied, the  *)
(* scheduler that marks a late rental, the end by a return or an operator. *)
(* The locker takes no part in an extension.                               *)
(*                                                                         *)
(* A handler reads the rental and its events, and commits later; only the  *)
(* attributes it changed are written.  work is what it carries in between. *)
(* In an initial state overlap says whether handlers interleave.           *)
(***************************************************************************)
EXTENDS Integers, Sequences, FiniteSets

CONSTANTS
  Charges,      \* EXTRA_CHARGE payments that may be created
  Terms,        \* lengths an extension may have
  FirstEnd,     \* planned_end_at when the rental was picked up
  LastTick,     \* bound of the clock
  NextStarts,   \* days another client may book the unit from
  Batch,        \* PAYMENT_RECONCILE_BATCH_LIMIT
  Clients,      \* handlers of requests and notifications
  Sweeper,      \* the thread that runs reconcile_pending_payments
  Marker,       \* the thread that runs mark_overdue_rentals
  Modes         \* values of overlap to start from

ASSUME TermsAssumption ==
  /\ Terms \subseteq Nat \ {0} /\ FirstEnd \in Nat \ {0}
  /\ NextStarts \subseteq Nat \ {0} /\ LastTick \in Nat /\ Batch \in Nat \ {0}
ASSUME ThreadsAssumption ==
  /\ Sweeper \notin Clients /\ Marker \notin Clients \cup {Sweeper}
  /\ Modes \subseteq BOOLEAN

VARIABLES
  now,          \* the clock
  rental,       \* Rental.status
  end,          \* Rental.planned_end_at
  charge,       \* Payment.status of an extension payment
  atYooKassa,    \* its status at YooKassa
  term,         \* the length in its extension_requested event
  applied,      \* its extension_applied / extension_not_applied events
  opened,       \* extension payments by Payment.created_at
  nextStart,    \* start of the next booking of the unit, 0 for none
  work,         \* what each handler carries
  overlap       \* handlers interleave (never changes)

rentalRow == <<rental, end>>
chargeRows == <<charge, atYooKassa, term, applied, opened>>
extVars == <<now, rental, end, charge, atYooKassa, term,
             applied, opened, nextStart, work, overlap>>

Threads == Clients \cup {Sweeper, Marker}
Extendable == {"ACTIVE", "OVERDUE"}
RentalStates == Extendable \cup {"RETURN_IN_PROGRESS", "COMPLETED", "INCIDENT"}

Resting == [op |-> "none"]

ExtInit ==
  /\ now = 0
  /\ rental = "ACTIVE" /\ end = FirstEnd
  /\ charge = [c \in Charges |-> "none"]
  /\ atYooKassa = [c \in Charges |-> "none"]
  /\ term = [c \in Charges |-> 0]
  /\ applied = [c \in Charges |-> {}]
  /\ opened = <<>>
  /\ nextStart = 0
  /\ work = [h \in Threads |-> Resting]
  /\ overlap \in Modes

-----------------------------------------------------------------------------
MayBegin(h) ==
  /\ work[h] = Resting
  /\ overlap \/ \A g \in Threads : work[g] = Resting

Carry(h, s) == work' = [work EXCEPT ![h] = s]
Rest(h) == work' = [work EXCEPT ![h] = Resting]

(* A row that nobody has inserted or is about to.                           *)
Fresh(c) ==
  /\ charge[c] = "none"
  /\ \A g \in Threads : ~(work[g].op = "extend" /\ work[g].c = c)

(* get_extension_barrier: the start of the next booking of the unit.        *)
Fits(newEnd) == nextStart = 0 \/ newEnd <= nextStart

(* extend_rental: checks, then the call that makes the link.                *)
StartExtend(h, c, t) ==
  /\ h \in Clients /\ MayBegin(h)
  /\ Fresh(c)
  /\ rental \in Extendable
  /\ Fits(end + t)
  /\ Carry(h, [op |-> "extend", c |-> c, t |-> t])
  /\ UNCHANGED <<now, rentalRow, chargeRows, nextStart, overlap>>

ExtendCommitted(h) ==
  LET s == work[h]
  IN /\ s.op = "extend"
     /\ charge' = [charge EXCEPT ![s.c] = "PENDING"]
     /\ atYooKassa' = [atYooKassa EXCEPT ![s.c] = "pending"]
     /\ term' = [term EXCEPT ![s.c] = s.t]
     /\ opened' = Append(opened, s.c)
     /\ Rest(h)
     /\ UNCHANGED <<now, rentalRow, applied, nextStart, overlap>>

ExtendFailed(h) ==
  /\ work[h].op = "extend"
  /\ Rest(h)
  /\ UNCHANGED <<now, rentalRow, chargeRows, nextStart, overlap>>

(* At YooKassa the client pays the link, or the link runs out.              *)
LinkEnds(c) ==
  /\ atYooKassa[c] = "pending"
  /\ \E st \in {"succeeded", "canceled"} :
       atYooKassa' = [atYooKassa EXCEPT ![c] = st]
  /\ UNCHANGED <<now, rentalRow, charge, term, applied, opened, nextStart, work,
                 overlap>>

-----------------------------------------------------------------------------
(* A notification, a poll or the sweep settles a payment.                   *)

(* Mutant: the batch is cut before the settled ones are left out.           *)
UnsettledOfOldest ==
  SelectSeq(opened, LAMBDA c : /\ charge[c] = "PENDING"
                               /\ \E i \in 1..Batch : i <= Len(opened) /\ opened[i] = c)
UnsettledCharges == SelectSeq(opened, LAMBDA c : charge[c] = "PENDING")

(* The rows of one tick of the sweep: the oldest unsettled ones.            *)
OldestOf(s) == {s[i] : i \in {j \in DOMAIN s : j <= Batch}}

(* The payment is loaded and YooKassa is asked.                             *)
StartSettle(h, c) ==
  /\ h \in Clients \cup {Sweeper} /\ MayBegin(h)
  /\ charge[c] = "PENDING"
  /\ h = Sweeper => c \in OldestOf(UnsettledCharges)
  /\ atYooKassa[c] # "pending"
  /\ Carry(h, [op |-> "settle", c |-> c])
  /\ UNCHANGED <<now, rentalRow, chargeRows, nextStart, overlap>>

(* Mutant: the settling event of the payment is not looked for.             *)
ReadBlind(h) ==
  /\ work[h].op = "settle"
  /\ Carry(h, [op |-> "apply", c |-> work[h].c, rental |-> rental, end |-> end,
               settled |-> FALSE])
  /\ UNCHANGED <<now, rentalRow, chargeRows, nextStart, overlap>>

(* The answer: the rental and the events of the payment are loaded.         *)
ReadRental(h) ==
  /\ work[h].op = "settle"
  /\ Carry(h, [op |-> "apply", c |-> work[h].c, rental |-> rental, end |-> end,
               settled |-> applied[work[h].c] # {}])
  /\ UNCHANGED <<now, rentalRow, chargeRows, nextStart, overlap>>

(* apply_rental_extension_for_payment on a rental that is still out.        *)
Shift(s) ==
  LET newEnd == s.end + term[s.c]
      back == s.rental = "OVERDUE" /\ newEnd > now
  IN /\ end' = newEnd
     /\ rental' = IF back THEN "ACTIVE" ELSE rental

StillOut == Extendable \cup {"RETURN_IN_PROGRESS"}

(* The transition of the payment and what it brings are committed.          *)
SettleCommitted(h) ==
  LET s == work[h]
      paid == atYooKassa[s.c] = "succeeded"
      applies == paid /\ ~s.settled
  IN /\ s.op = "apply"
     /\ charge' = [charge EXCEPT ![s.c] = IF paid THEN "CAPTURED" ELSE "FAILED"]
     /\ IF applies /\ s.rental \in StillOut
          THEN Shift(s) ELSE UNCHANGED rentalRow
     /\ applied' = IF applies
                     THEN [applied EXCEPT ![s.c] = @ \cup
                             {IF s.rental \in StillOut
                                THEN "applied" ELSE "not_applied"}]
                     ELSE applied
     /\ Rest(h)
     /\ UNCHANGED <<now, atYooKassa, term, opened, nextStart, overlap>>

-----------------------------------------------------------------------------
(* mark_overdue_rentals *)

StartMark ==
  /\ MayBegin(Marker)
  /\ rental = "ACTIVE" /\ end <= now
  /\ Carry(Marker, [op |-> "mark"])
  /\ UNCHANGED <<now, rentalRow, chargeRows, nextStart, overlap>>

Marked ==
  /\ work[Marker].op = "mark"
  /\ rental' = "OVERDUE"
  /\ Rest(Marker)
  /\ UNCHANGED <<now, end, chargeRows, nextStart, overlap>>

-----------------------------------------------------------------------------
(* The rental leaves the client's hands.                                    *)

(* start_rental_return: the call to the locker lies between read and write. *)
StartGiveBack(h) ==
  /\ h \in Clients /\ MayBegin(h)
  /\ rental \in Extendable
  /\ Carry(h, [op |-> "return"])
  /\ UNCHANGED <<now, rentalRow, chargeRows, nextStart, overlap>>

GaveBack(h) ==
  /\ work[h].op = "return"
  /\ \E ok \in BOOLEAN :
       rental' = IF ok THEN "RETURN_IN_PROGRESS" ELSE rental
  /\ Rest(h)
  /\ UNCHANGED <<now, end, chargeRows, nextStart, overlap>>

(* The return is completed or fails; an operator may complete any rental    *)
(* that is not (force_complete_rental).                                     *)
RentalEnds ==
  /\ overlap \/ \A g \in Threads : work[g] = Resting
  /\ \/ rental = "RETURN_IN_PROGRESS" /\ rental' \in {"COMPLETED", "INCIDENT"}
     \/ rental # "COMPLETED" /\ rental' = "COMPLETED"
  /\ UNCHANGED <<now, end, chargeRows, nextStart, work, overlap>>

(* Another client books the unit from the end of this rental on, or later;  *)
(* the booking may be cancelled.                                            *)
NextBooked ==
  /\ overlap \/ \A g \in Threads : work[g] = Resting
  /\ nextStart = 0 /\ nextStart' \in {d \in NextStarts : d >= end /\ d >= now}
  /\ UNCHANGED <<now, rentalRow, chargeRows, work, overlap>>

NextLeaves ==
  /\ nextStart # 0 /\ nextStart' = 0
  /\ UNCHANGED <<now, rentalRow, chargeRows, work, overlap>>

Tick ==
  /\ now < LastTick /\ now' = now + 1
  /\ UNCHANGED <<rentalRow, chargeRows, nextStart, work, overlap>>

-----------------------------------------------------------------------------
MarkerStep == StartMark \/ Marked

Proceeds(h) ==
  \/ ExtendCommitted(h) \/ ExtendFailed(h)
  \/ ReadRental(h) \/ SettleCommitted(h) \/ GaveBack(h)

Begins(h) ==
  \/ \E c \in Charges, t \in Terms : StartExtend(h, c, t)
  \/ \E c \in Charges : StartSettle(h, c)
  \/ StartGiveBack(h)

SweeperStep == Proceeds(Sweeper) \/ \E c \in Charges : StartSettle(Sweeper, c)

ExtNext ==
  \/ MarkerStep
  \/ \E h \in Clients \cup {Sweeper} : Begins(h) \/ Proceeds(h)
  \/ \E c \in Charges : LinkEnds(c)
  \/ RentalEnds \/ NextBooked \/ NextLeaves \/ Tick

ExtSpec == ExtInit /\ [][ExtNext]_extVars

(* The two threads run until the process ends, handlers finish, a link is   *)
(* paid or runs out.  A thread that waits for its turn gets it.             *)
ExtFairness ==
  /\ SF_extVars(MarkerStep) /\ SF_extVars(SweeperStep)
  /\ \A h \in Clients : WF_extVars(Proceeds(h))
  /\ \A c \in Charges : WF_extVars(LinkEnds(c))
  /\ WF_extVars(Tick)

-----------------------------------------------------------------------------
Carried ==
  {Resting} \cup [op : {"extend"}, c : Charges, t : Terms]
  \cup [op : {"settle"}, c : Charges] \cup [op : {"return"}]
  \cup [op : {"apply"}, c : Charges, rental : RentalStates, end : Nat,
       settled : BOOLEAN]
  \cup [op : {"mark"}]

(* Every row and every handler has its type.                                *)
ExtTypeOK ==
  /\ now \in 0..LastTick /\ rental \in RentalStates /\ end \in Nat
  /\ charge \in [Charges -> {"none", "PENDING", "CAPTURED", "FAILED"}]
  /\ atYooKassa \in [Charges -> {"none", "pending", "succeeded", "canceled"}]
  /\ term \in [Charges -> Nat]
  /\ applied \in [Charges -> SUBSET {"applied", "not_applied"}]
  /\ opened \in Seq(Charges) /\ nextStart \in Nat
  /\ work \in [Threads -> Carried] /\ overlap \in BOOLEAN

Applied == {c \in Charges : "applied" \in applied[c]}

(* However a notification, a poll and the sweep interleave over one or more *)
(* payments, the client never gets more than was paid for: the days beyond   *)
(* the first end can be shared out among the payments that were applied, to   *)
(* none more than its term.  With handlers one at a time no paid day is lost  *)
(* either, and an extension takes back the mark of a late rental             *)
(* (apply_rental_extension_for_payment).                                    *)
EndIsPaidFor ==
  /\ \E payer \in [FirstEnd + 1..end -> Applied] : \A c \in Applied :
       LET days == Cardinality({d \in FirstEnd + 1..end : payer[d] = c})
       IN IF overlap THEN days <= term[c] ELSE days = term[c]
  /\ ~overlap /\ rental = "OVERDUE" => end <= now

(* A paid extension is settled without any notification or returning        *)
(* client: applied, or recorded for a refund by hand                        *)
(* (reconcile_pending_payments).                                            *)
PaidExtensionSettles ==
  \A c \in Charges : atYooKassa[c] = "succeeded" ~> applied[c] # {}

=============================================================================
