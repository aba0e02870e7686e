-------------------------------- MODULE Pickup --------------------------------
(***************************************************************************)
(* One item in one cell, and the rentals it waits for one after another:    *)
(* the code on the keypad from the hand-over until the client has opened    *)
(* the cell, said so, or given up.  The code is written once; a locker that *)
(* is reset forgets it and reports the cell as free, and the tick writes    *)
(* the code again if the cell was not opened since the rental began.  A     *)
(* cancelled rental's code is replaced by one nobody knows.                 *)
(*                                                                         *)
(* How rentals come about and how money is returned is in Handover.  The    *)
(* locker, its events and the client at the door are external.              *)
(***************************************************************************)
EXTENDS Integers, FiniteSets

CONSTANTS
  Hires,       \* bound: rentals of the item, numbered as they are created
  MaxPost,     \* bound: events of the locker under way
  PickupBounds \* bounds of a behaviour: how often the locker is reset
               \* (resets), the cell is opened (visits), a call to the locker
               \* fails or loses its answer (faults); overlap: handlers may
               \* run between the steps of others

ASSUME PickupAssumption ==
  /\ Hires \in Nat \ {0} /\ MaxPost \in Nat
  /\ PickupBounds \subseteq
       [resets : Nat, visits : Nat, faults : Nat, overlap : BOOLEAN]

VARIABLES
  hire,     \* Rental.status; "none" before it is created
  bike,     \* InventoryUnit.status
  inCell,   \* InventoryUnit.locker_cell_id is the cell
  box,      \* LockerCell.status
  opened,   \* LockerCell.last_opened_at: the newest rental at that time
  pinReset, \* RentalEvent pickup_pin_reset of a rental: its outcome
  call,     \* a request between its reads and its writes
  sweep,    \* the tick of the worker, likewise
  code,     \* the rental whose code the keypad accepts
  full,     \* the cell is "occupied" for the locker
  ajar,     \* the door is open
  post,     \* events of the locker under way
  left      \* what is left of the behaviour's bounds

hireRows == <<hire, bike, inCell, box, opened, pinReset>>
atLocker == <<code, full, ajar, post>>
pickupVars == <<hire, bike, inCell, box, opened, pinReset, call, sweep, code,
                full, ajar, post, left>>

Never == -1
NoCode == 0           \* none, or the operator's 0000
Secret == Hires + 1   \* a code no client was shown
Uncollected == {"ready", "opened"}

NoCall == [op |-> "none", r |-> 0, saw |-> "none", newest |-> 0]
Asleep == [op |-> "none", free |-> FALSE, open |-> FALSE, newest |-> 0,
           restore |-> 0, known |-> "none"]

PickupInit ==
  /\ hire = [r \in 1..Hires |-> "none"]
  /\ bike = "AVAILABLE" /\ inCell = TRUE /\ box = "OCCUPIED"
  /\ opened = Never
  /\ pinReset = [r \in 1..Hires |-> "none"]
  /\ call = NoCall /\ sweep = Asleep
  /\ code = NoCode /\ full = TRUE /\ ajar = FALSE /\ post = {}
  /\ left \in PickupBounds

-----------------------------------------------------------------------------
LatestHire == Cardinality({r \in 1..Hires : hire[r] # "none"})
Alone == left.overlap \/ (call = NoCall /\ sweep = Asleep)

(* A call to the locker: carried out or not, and answered or not.           *)
LockerCall(done, heard) ==
  /\ heard => done
  /\ IF heard THEN UNCHANGED left
     ELSE left.faults > 0 /\ left' = [left EXCEPT !.faults = @ - 1]

(* set-cell: the cell is occupied and has this code.                        *)
WriteCode(c, done) ==
  /\ code' = IF done THEN c ELSE code
  /\ full' = (full \/ done)

Report(kind) ==
  \E named \in {0, LatestHire} :
    post' = IF Cardinality(post) < MaxPost
            THEN post \cup {[kind |-> kind, r |-> named]} ELSE post

-----------------------------------------------------------------------------
(* The next rental gets the item and its code (Handover).                   *)
HandOverNext ==
  LET r == LatestHire + 1
  IN /\ Alone /\ r <= Hires /\ bike = "AVAILABLE" /\ inCell
     /\ hire' = [hire EXCEPT ![r] = "ready"]
     /\ bike' = "RESERVED" /\ box' = "RESERVED"
     /\ WriteCode(r, TRUE)
     /\ UNCHANGED <<inCell, opened, pinReset, call, sweep, ajar, post, left>>

(* open_pickup_cell *)
AskToOpen(r) ==
  /\ Alone /\ call = NoCall
  /\ hire[r] \in Uncollected /\ inCell /\ left.visits > 0
  /\ left' = [left EXCEPT !.visits = @ - 1]
  /\ call' = [op |-> "open", r |-> r, saw |-> hire[r], newest |-> LatestHire]
  /\ UNCHANGED <<hireRows, sweep, atLocker>>

(* test_open_cell, by the operator: the row of the cell is written as by a   *)
(* client's opening.                                                        *)
AskToTest ==
  /\ Alone /\ call = NoCall /\ left.visits > 0
  /\ left' = [left EXCEPT !.visits = @ - 1]
  /\ call' = [NoCall EXCEPT !.op = "test", !.newest = LatestHire]
  /\ UNCHANGED <<hireRows, sweep, atLocker>>

(* admin_trigger_open_cell: the door may open without being seen in time.    *)
DoorAnswered(done, heard) ==
  /\ call.op \in {"open", "test"}
  /\ LockerCall(done, heard)
  /\ IF done THEN ajar' = TRUE /\ Report("open") ELSE UNCHANGED <<ajar, post>>
  /\ IF heard
     THEN /\ box' = "OPENED" /\ opened' = call.newest
          /\ hire' = IF call.saw = "ready" THEN [hire EXCEPT ![call.r] = "opened"]
                     ELSE hire
     ELSE UNCHANGED <<box, opened, hire>>
  /\ call' = NoCall
  /\ UNCHANGED <<bike, inCell, pinReset, sweep, code, full>>

(* The item counts as collected: by the client's word, by the locker's, or   *)
(* fifteen minutes after the cell was opened.                               *)
Collected(r) ==
  /\ hire' = [hire EXCEPT ![r] = "active"]
  /\ bike' = "RENTED" /\ inCell' = FALSE /\ box' = "VACANT"
  /\ UNCHANGED <<opened, pinReset>>

(* confirm_pickup: the code is written again before it is shown.            *)
AskToCollect(r) ==
  /\ Alone /\ call = NoCall
  /\ hire[r] \in Uncollected /\ inCell
  /\ call' = [NoCall EXCEPT !.op = "collect", !.r = r]
  /\ UNCHANGED <<hireRows, sweep, atLocker, left>>

CollectAnswered(done, heard) ==
  /\ call.op = "collect"
  /\ LockerCall(done, heard)
  /\ WriteCode(call.r, done)
  /\ IF heard THEN Collected(call.r) ELSE UNCHANGED hireRows
  /\ call' = NoCall
  /\ UNCHANGED <<sweep, ajar, post>>

CollectedByTimeout(r) ==
  /\ Alone /\ hire[r] = "opened"
  /\ Collected(r)
  /\ UNCHANGED <<call, sweep, atLocker, left>>

-----------------------------------------------------------------------------
(* cancel_rental of the operator, cancel_rental_before_pickup of the client, *)
(* expire_stale_pickup_rentals; then reset_pin_after_pickup_cancel.         *)
GiveUp(r) ==
  /\ Alone /\ call = NoCall
  /\ hire[r] = "ready"
  /\ hire' = [hire EXCEPT ![r] = "cancelled"]
  /\ bike' = IF bike \in {"RESERVED", "RENTED"} THEN "AVAILABLE" ELSE bike
  /\ box' = IF inCell /\ box \in {"RESERVED", "OPENED"} THEN "OCCUPIED" ELSE box
  /\ call' = [NoCall EXCEPT !.op = "reset", !.r = r]
  /\ UNCHANGED <<inCell, opened, pinReset, sweep, atLocker, left>>

OtherWaits == \E s \in 1..Hires : s # call.r /\ hire[s] \in Uncollected

(* _replace_pin: the item has left, or the next client's code is in place.   *)
ResetSkipped ==
  /\ call.op = "reset" /\ (~inCell \/ OtherWaits)
  /\ pinReset' = [pinReset EXCEPT ![call.r] = "skipped"]
  /\ call' = NoCall
  /\ UNCHANGED <<hire, bike, inCell, box, opened, sweep, atLocker, left>>

ResetCalls ==
  /\ call.op = "reset" /\ inCell /\ ~OtherWaits
  /\ call' = [call EXCEPT !.op = "replace"]
  /\ UNCHANGED <<hireRows, sweep, atLocker, left>>

(* Nothing tries again.                                                     *)
ResetAnswered(done, heard) ==
  /\ call.op = "replace"
  /\ LockerCall(done, heard)
  /\ WriteCode(Secret, done)
  /\ pinReset' = [pinReset EXCEPT ![call.r] = IF heard THEN "replaced" ELSE "failed"]
  /\ call' = NoCall
  /\ UNCHANGED <<hire, bike, inCell, box, opened, sweep, ajar, post>>

-----------------------------------------------------------------------------
(* process_esi_webhook_payload; of the events that name a rental,            *)
(* _mark_pickup_opened and _mark_pickup_completed.                          *)
BoxAfter(e) ==
  CASE e.kind = "open" -> "OPENED"
    [] e.kind = "vacant" -> "VACANT"
    [] e.kind = "occupied" -> IF inCell \/ e.r # 0 THEN "OCCUPIED" ELSE "VACANT"
    [] e.kind = "closed" -> box

Collects(e) == e.kind \in {"vacant", "closed"} /\ e.r # 0 /\ hire[e.r] \in Uncollected

DoorEvent(e) ==
  /\ Alone /\ e \in post
  /\ post' = post \ {e}
  /\ \/ Collects(e) /\ Collected(e.r)
     \/ /\ ~Collects(e)
        /\ box' = BoxAfter(e)
        /\ opened' = IF e.kind = "open" THEN LatestHire ELSE opened
        /\ hire' = [r \in 1..Hires |-> IF e.kind = "open" /\ r = e.r /\ hire[r] = "ready"
                                       THEN "opened" ELSE hire[r]]
        /\ UNCHANGED <<bike, inCell, pinReset>>
  /\ UNCHANGED <<call, sweep, code, full, ajar, left>>

-----------------------------------------------------------------------------
(* reconcile_esi_and_returns: the snapshot of the locker ...                *)
SweepAsks ==
  /\ Alone /\ sweep = Asleep
  /\ sweep' = [Asleep EXCEPT !.op = "asked", !.free = ~full /\ ~ajar,
                             !.open = ajar, !.newest = LatestHire]
  /\ UNCHANGED <<hireRows, call, atLocker, left>>

(* Mutant: a cell that was ever opened counts as emptied.                   *)
RestorableNeverOpened ==
  {r \in 1..Hires : sweep.free /\ inCell /\ hire[r] \in Uncollected /\ opened = Never}

(* _restore_forgotten_pickup_pins: the rental that waits for its client in a *)
(* cell the locker calls free, if nobody opened the cell since it began.    *)
Restorable ==
  {r \in 1..Hires : sweep.free /\ inCell /\ hire[r] \in Uncollected /\ opened < r}

(* ... the rows ...                                                         *)
SweepReads ==
  /\ sweep.op = "asked"
  /\ \E r \in IF Restorable = {} THEN {0} ELSE Restorable :
       sweep' = [sweep EXCEPT !.op = "read", !.known = box, !.restore = r]
  /\ UNCHANGED <<hireRows, call, atLocker, left>>

(* ... and the code, if it is missing; the row is written if the sweep's     *)
(* value differs from the one it read.                                      *)
SweepWrites(done, heard) ==
  LET restored == sweep.restore # 0 /\ heard
      wanted == IF restored THEN "RESERVED"
                ELSE IF sweep.open THEN "OPENED"
                ELSE IF sweep.free THEN "VACANT" ELSE "OCCUPIED"
  IN /\ sweep.op = "read"
     /\ LockerCall(done, heard)
     /\ sweep.restore = 0 => heard
     /\ WriteCode(sweep.restore, done /\ sweep.restore # 0)
     /\ box' = IF wanted # sweep.known THEN wanted ELSE box
     /\ opened' = IF sweep.open THEN sweep.newest ELSE opened
     /\ sweep' = Asleep
     /\ UNCHANGED <<hire, bike, inCell, pinReset, call, ajar, post>>

-----------------------------------------------------------------------------
(* The locker and whoever knows a code (external). *)

OpenByCode ==
  /\ Alone /\ code \in 1..Hires /\ ~ajar /\ left.visits > 0
  /\ left' = [left EXCEPT !.visits = @ - 1]
  /\ ajar' = TRUE /\ Report("open")
  /\ UNCHANGED <<hireRows, call, sweep, code, full>>

DoorFallsShut ==
  /\ Alone /\ ajar
  /\ ajar' = FALSE
  /\ \E kind \in {"vacant", "occupied", "closed"} : Report(kind)
  /\ UNCHANGED <<hireRows, call, sweep, code, full, left>>

LockerForgets ==
  /\ Alone /\ full /\ left.resets > 0
  /\ left' = [left EXCEPT !.resets = @ - 1]
  /\ code' = NoCode /\ full' = FALSE
  /\ UNCHANGED <<hireRows, call, sweep, ajar, post>>

EventIsLost(e) ==
  /\ e \in post
  /\ post' = post \ {e}
  /\ UNCHANGED <<hireRows, call, sweep, code, full, ajar, left>>

-----------------------------------------------------------------------------
Answered(done, heard) ==
  \/ DoorAnswered(done, heard) \/ CollectAnswered(done, heard)
  \/ ResetAnswered(done, heard)

PickupNext ==
  \/ HandOverNext \/ AskToTest \/ ResetSkipped \/ ResetCalls
  \/ \E r \in 1..Hires : \/ AskToOpen(r) \/ AskToCollect(r)
                         \/ CollectedByTimeout(r) \/ GiveUp(r)
  \/ \E done, heard \in BOOLEAN : Answered(done, heard) \/ SweepWrites(done, heard)
  \/ SweepAsks \/ SweepReads
  \/ \E e \in post : DoorEvent(e) \/ EventIsLost(e)
  \/ OpenByCode \/ DoorFallsShut \/ LockerForgets

(* The worker ticks for ever, a started step ends, and the locker answers    *)
(* (a behaviour has finitely many faults).                                  *)
PickupFairness ==
  /\ SF_pickupVars(SweepAsks)
  /\ WF_pickupVars(SweepReads)
  /\ WF_pickupVars(\E done, heard \in BOOLEAN : SweepWrites(done, heard))
  /\ WF_pickupVars(ResetSkipped \/ ResetCalls)
  /\ WF_pickupVars(\E done, heard \in BOOLEAN : Answered(done, heard))

PickupSpec == PickupInit /\ [][PickupNext]_pickupVars /\ PickupFairness

-----------------------------------------------------------------------------
(* Every row, and what the locker knows, has its type.                      *)
PickupTypeOK ==
  /\ hire \in [1..Hires -> {"none", "ready", "opened", "active", "cancelled"}]
  /\ bike \in {"AVAILABLE", "RESERVED", "RENTED"} /\ inCell \in BOOLEAN
  /\ box \in {"VACANT", "RESERVED", "OPENED", "OCCUPIED"}
  /\ opened \in {Never} \cup 0..Hires
  /\ pinReset \in [1..Hires -> {"none", "skipped", "replaced", "failed"}]
  /\ code \in 0..Secret /\ full \in BOOLEAN /\ ajar \in BOOLEAN
  /\ Cardinality(post) <= MaxPost

(* A rental waits in a cell nobody has opened since it began, and the keypad *)
(* does not accept its code.                                                *)
Stranded ==
  \E r \in 1..Hires : hire[r] = "ready" /\ opened < r /\ code # r

(* With handlers one at a time, the code of a cancelled rental, once the      *)
(* reset has been recorded as done or as not needed, does not come back by   *)
(* any tick, event or later rental (reset_pin_after_pickup_cancel).         *)
ForgottenCode ==
  \A r \in 1..Hires :
    pinReset[r] \in {"replaced", "skipped"} /\ ~left.overlap => code # r

(* The keypad follows the rental: also, a client who waits gets the code      *)
(* back whatever the locker forgets and however often a call fails           *)
(* (_restore_forgotten_pickup_pins).                                        *)
CodeFollowsRental == []<>(Stranded => left.overlap) /\ []ForgottenCode
=============================================================================
