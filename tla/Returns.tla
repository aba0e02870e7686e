------------------------------- MODULE Returns -------------------------------
(***************************************************************************)
(* A rental from "the client has the item" to "the operator has checked    *)
(* it": the choice of a cell, the return code on the keypad of the locker, *)
(* the events of the door, the client's own confirmation, the deadline, and *)
(* the operator who places, moves, takes and closes by hand.               *)
(*                                                                         *)
(* Next to the rows of the database the model keeps what the locker knows  *)
(* (code and state of a cell, its door) and where the item really is.  The *)
(* locker, its events and the client's hands are external: they are        *)
(* modelled by what src/ expects of them.                                  *)
(***************************************************************************)
EXTENDS Integers, FiniteSets, Sequences

CONSTANTS
  Rentals, Units,
  Cells,        \* cells of one locker, numbered in the order of their labels
  UnitOf,       \* UnitOf[r]: Rental.inventory_unit_id
  HomeOf,       \* HomeOf[u]: the cell the unit was taken out of first
  Out,          \* rentals that are ACTIVE when the model starts
  MaxReturns,   \* bound: return requests
  Budgets       \* bounds of a behaviour: how many returns are started
                \* (returns), how often a door is opened with a code
                \* (visits), the locker is reset (resets), the operator acts
                \* (acts); shared: others may write while the worker's tick,
                \* and operators and the tick while a started return, is
                \* between its reads and its writes; slow: an event may
                \* arrive first after the next return into its cell

ASSUME ReturnsAssumption ==
  /\ Cells \subseteq Nat \ {0} /\ Cells # {} /\ IsFiniteSet(Cells)
  /\ Rentals \cap Units = {}   \* keys of two tables
  /\ UnitOf \in [Rentals -> Units] /\ HomeOf \in [Units -> Cells]
  /\ Out \subseteq Rentals /\ MaxReturns \in Nat
  /\ Budgets \subseteq [returns : 0..MaxReturns, visits : Nat,
                        resets : Nat, acts : Nat, shared : BOOLEAN, slow : BOOLEAN]
  /\ \A r, s \in Out : UnitOf[r] = UnitOf[s] => r = s

VARIABLES
  rental,   \* Rental.status; "none" before the client has the item
  unit,     \* InventoryUnit.status
  at,       \* InventoryUnit.locker_cell_id, NoCell for NULL
  taken,    \* from_cell_id of the unit's movements to RENTED, oldest first
  since,    \* requests older than the last of them
  cell,     \* LockerCell.status
  reqs,     \* ReturnRequest rows, oldest first
  starts,   \* returns between the choice of a cell and the answer of the locker
  session,  \* what a tick of the worker carries on
  keypad,   \* the request whose code the cell's keypad accepts, 0: none
  assigned, \* the cell is "occupied" for the locker
  door,     \* the request whose code opened the door, 0: closed
  item,     \* where the item is
  mail,     \* events of the locker under way
  logged,   \* esi_event_log: ids of events already processed
  events,   \* events of the locker so far
  budget    \* what is left of the behaviour's bounds

rows == <<rental, unit, at, taken, since, cell, reqs>>
locker == <<keypad, assigned>>
hands == <<door, item>>
returnVars == <<rental, unit, at, taken, since, cell, reqs, starts, session,
                keypad, assigned, door, item, mail, logged, events, budget>>

NoCell == 0
Present == {"AVAILABLE", "RETURN_PENDING", "AWAITING", "MAINTENANCE"}
ActiveReturn == {"CREATED"}  \* nothing sets LOCKER_OPENED or AWAITING_CLOSE
Quiet == [op |-> "none", late |-> {}, seen |-> [c \in Cells |-> "unread"],
          shut |-> {}]

ReturnsInit ==
  /\ rental = [r \in Rentals |-> IF r \in Out THEN "active" ELSE "none"]
  /\ unit = [u \in Units |-> IF \E r \in Out : UnitOf[r] = u THEN "RENTED"
                             ELSE "AVAILABLE"]
  /\ at = [u \in Units |-> NoCell]
  /\ taken = [u \in Units |-> IF unit[u] = "RENTED" THEN <<HomeOf[u]>> ELSE <<>>]
  /\ since = [u \in Units |-> 0]
  /\ cell = [c \in Cells |-> "VACANT"]
  /\ reqs = <<>>
  /\ starts = {} /\ session = Quiet
  /\ keypad = [c \in Cells |-> 0]
  /\ assigned = [c \in Cells |-> FALSE]
  /\ door = [c \in Cells |-> 0]
  /\ item = [u \in Units |-> IF unit[u] = "RENTED" THEN "client" ELSE "office"]
  /\ mail = {} /\ logged = {}
  /\ events = 0 /\ budget \in Budgets

-----------------------------------------------------------------------------
Live(q) == reqs[q].status \in ActiveReturn
LiveOn(c) == {q \in DOMAIN reqs : reqs[q].cell = c /\ Live(q)}
LiveOf(r) == {q \in DOMAIN reqs : reqs[q].r = r /\ Live(q)}
Newest(Q) == CHOOSE q \in Q : \A p \in Q : p <= q

(* Another unit is recorded in the cell.  RENTED ones do not count.         *)
TakenByOther(c, u) ==
  \E v \in Units \ {u} : at[v] = c /\ unit[v] \in Present
InCell(c) == {u \in Units : at[u] = c}

(* Mutant: the cell of someone else's return is not excluded.               *)
HomeCellShared(u) ==
  {c \in Cells :
     /\ taken[u] # <<>> /\ c = taken[u][Len(taken[u])]
     /\ ~TakenByOther(c, u)
     /\ cell[c] = "VACANT" \/ \A q \in DOMAIN reqs : reqs[q].cell = c => q <= since[u]}

(* _find_home_return_cell: the cell the item was last taken out of.  A       *)
(* status other than VACANT is only believed to be stale if no return was   *)
(* made into the cell since.                                                *)
HomeCell(u) ==
  {c \in Cells :
     /\ taken[u] # <<>> /\ c = taken[u][Len(taken[u])]
     /\ ~TakenByOther(c, u) /\ LiveOn(c) = {}
     /\ cell[c] = "VACANT" \/ \A q \in DOMAIN reqs : reqs[q].cell = c => q <= since[u]}

VacantCells == {c \in Cells : cell[c] = "VACANT" /\ LiveOn(c) = {}
                              /\ \A u \in InCell(c) : unit[u] \notin Present}

(* _find_legacy_return_cell: any cell the item was ever taken out of,        *)
(* whatever its status.                                                     *)
LegacyCells(u) == {c \in {taken[u][i] : i \in DOMAIN taken[u]} :
                     ~TakenByOther(c, u) /\ LiveOn(c) = {}}
LastTakenFrom(u, C) ==
  LET i == CHOOSE i \in DOMAIN taken[u] :
             /\ taken[u][i] \in C
             /\ \A j \in DOMAIN taken[u] : taken[u][j] \in C => j <= i
  IN taken[u][i]

(* Home first, then the first empty one, then a cell of old.                *)
ReturnCell(u) ==
  IF HomeCell(u) # {} THEN CHOOSE c \in HomeCell(u) : TRUE
  ELSE IF VacantCells # {} THEN CHOOSE c \in VacantCells : \A d \in VacantCells : c <= d
  ELSE IF LegacyCells(u) # {} THEN LastTakenFrom(u, LegacyCells(u))
  ELSE NoCell

-----------------------------------------------------------------------------
(* start_rental_return: a cell is chosen by queries that lock nothing; others *)
(* may be started, of the same rental too, while the locker is asked.       *)
StartReturn(r) ==
  /\ rental[r] = "active" /\ LiveOf(r) = {}
  /\ budget.returns > 0
  /\ ReturnCell(UnitOf[r]) # NoCell
  /\ starts' = starts \cup {[n |-> budget.returns, r |-> r, chosen |-> Len(reqs),
                             cell |-> ReturnCell(UnitOf[r])]}
  /\ budget' = [budget EXCEPT !.returns = @ - 1]
  /\ UNCHANGED <<rows, session, locker, hands, mail, logged, events>>

(* The locker has the code: request, rental, unit and cell are written,     *)
(* none of them read again.  chosen: the requests there were when the cell  *)
(* was chosen.  Of two returns into one cell either may have sent its code  *)
(* to the locker last.                                                      *)
ReturnStarted(s) ==
  /\ s \in starts /\ Len(reqs) < MaxReturns
  /\ rental' = [rental EXCEPT ![s.r] = "returning"]
  /\ unit' = [unit EXCEPT ![UnitOf[s.r]] = "RETURN_PENDING"]
  /\ cell' = [cell EXCEPT ![s.cell] = "RESERVED"]
  /\ reqs' = Append(reqs, [r |-> s.r, cell |-> s.cell, status |-> "CREATED",
                           late |-> FALSE, opened |-> FALSE, by |-> 0,
                           chosen |-> s.chosen])
  /\ \/ keypad' = [keypad EXCEPT ![s.cell] = Len(reqs) + 1]
     \/ LiveOn(s.cell) # {} /\ keypad' = keypad
  /\ assigned' = [assigned EXCEPT ![s.cell] = TRUE]
  /\ starts' = starts \ {s}
  /\ UNCHANGED <<at, taken, since, session, hands, mail, logged, events, budget>>

(* The locker did not take the code: no request.                            *)
ReturnRefused(s) ==
  /\ s \in starts
  /\ starts' = starts \ {s}
  /\ UNCHANGED <<rows, session, locker, hands, mail, logged, events, budget>>

-----------------------------------------------------------------------------
(* complete_return_request, by the door that was opened for request visit,   *)
(* or by the client (0).  The column locker_cell_id is unique: with another  *)
(* unit recorded in the cell the commit fails and nothing changes.          *)
CanComplete(q) == InCell(reqs[q].cell) \subseteq {UnitOf[reqs[q].r]}

Complete(q, visit) ==
  LET r == reqs[q].r
  IN /\ CanComplete(q)
     /\ reqs' = [reqs EXCEPT ![q].status = "COMPLETED", ![q].by = visit]
     /\ rental' = [rental EXCEPT ![r] = "completed"]
     /\ unit' = [unit EXCEPT ![UnitOf[r]] = "AWAITING"]
     /\ at' = [at EXCEPT ![UnitOf[r]] = reqs[q].cell]
     /\ cell' = [cell EXCEPT ![reqs[q].cell] = "OCCUPIED"]
     /\ UNCHANGED <<taken, since>>

(* confirm_return: the client says the item is in, whatever the locker says.  *)
ConfirmReturn(r) ==
  /\ rental[r] = "returning" /\ LiveOf(r) # {}
  /\ Complete(Newest(LiveOf(r)), 0)
  /\ UNCHANGED <<starts, session, locker, hands, mail, logged, events, budget>>

(* process_esi_webhook_payload, for an event that names no rental.           *)
(* Mutant: the name of the event is taken for a status.                     *)
StatusAsNamed(e) == e.kind

StatusAfter(e) ==
  CASE e.kind = "open" -> "OPENED"
    [] e.kind = "occupied" -> IF InCell(e.cell) # {} THEN "OCCUPIED" ELSE "VACANT"
    [] e.kind = "vacant" -> "VACANT"
    [] e.kind = "closed" -> cell[e.cell]

InTime(e) ==
  budget.slow \/ \A q \in DOMAIN reqs : q > e.visit => reqs[q].cell # e.cell

(* Mutant: the same event is processed again.                               *)
WebhookAgain(e) ==
  /\ e \in mail
  /\ e.id \in logged \/ InTime(e)
  /\ logged' = logged \cup {e.id}
  /\ IF e.kind \in {"occupied", "closed"} /\ LiveOn(e.cell) # {}
     THEN Complete(Newest(LiveOn(e.cell)), e.visit)
     ELSE /\ cell' = [cell EXCEPT ![e.cell] = StatusAfter(e)]
          /\ reqs' = [q \in DOMAIN reqs |->
                        IF e.kind = "open" /\ reqs[q].cell = e.cell
                        THEN [reqs[q] EXCEPT !.opened = TRUE] ELSE reqs[q]]
          /\ UNCHANGED <<rental, unit, at, taken, since>>
  /\ mail' \in {mail, mail \ {e}}
  /\ UNCHANGED <<starts, session, locker, hands, events, budget>>

Webhook(e) ==
  /\ e \in mail
  /\ e.id \notin logged /\ InTime(e)
  /\ logged' = logged \cup {e.id}
  /\ IF e.kind \in {"occupied", "closed"} /\ LiveOn(e.cell) # {}
     THEN Complete(Newest(LiveOn(e.cell)), e.visit)
     ELSE /\ cell' = [cell EXCEPT ![e.cell] = StatusAfter(e)]
          /\ reqs' = [q \in DOMAIN reqs |->
                        IF e.kind = "open" /\ reqs[q].cell = e.cell
                        THEN [reqs[q] EXCEPT !.opened = TRUE] ELSE reqs[q]]
          /\ UNCHANGED <<rental, unit, at, taken, since>>
  /\ mail' \in {mail, mail \ {e}}  \* the locker may send it again
  /\ UNCHANGED <<starts, session, locker, hands, events, budget>>

-----------------------------------------------------------------------------
(* reconcile_esi_and_returns *)

DeadlinePasses(q) ==
  /\ q \in DOMAIN reqs /\ Live(q) /\ ~reqs[q].late
  /\ reqs' = [reqs EXCEPT ![q].late = TRUE]
  /\ UNCHANGED <<rental, unit, at, taken, since, cell, starts, session, locker, hands,
                 mail, logged, events, budget>>

(* The tick reads the requests, their rentals and their cells, decides who   *)
(* is late, and asks the locker for its state.                              *)
TickReads ==
  LET late == {q \in DOMAIN reqs : Live(q) /\ reqs[q].late}
  IN /\ session = Quiet /\ (budget.shared \/ starts = {})
     /\ session' = [Quiet EXCEPT
          !.op = "tick", !.late = late,
          !.shut = {reqs[q].r : q \in {p \in late : rental[reqs[p].r] = "returning"}}
                   \cup {UnitOf[reqs[q].r] :
                           q \in {p \in late : unit[UnitOf[reqs[p].r]] # "RETURN_PENDING"}},
          !.seen = [c \in Cells |-> IF \E q \in late : reqs[q].cell = c
                                    THEN cell[c] ELSE "unread"]]
     /\ UNCHANGED <<rows, starts, locker, hands, mail, logged, events, budget>>

Snapshot(c) == IF door[c] # 0 THEN "OPENED"
               ELSE IF assigned[c] THEN "OCCUPIED" ELSE "VACANT"

(* What the tick wants to write for a cell it knows as it was.              *)
AfterDeadlines(c, known) ==
  IF known \in {"RESERVED", "OPENED"} /\ \E q \in session.late : reqs[q].cell = c
  THEN "VACANT" ELSE known

(* Live returns whose code the locker has forgotten                          *)
(* (_restore_forgotten_return_pins).                                        *)
Forgotten(c) ==
  {q \in LiveOn(c) \ session.late :
     Snapshot(c) = "VACANT" /\ ~reqs[q].late /\ ~reqs[q].opened}

(* Mutant: the late request fails, its rental does not.                     *)
TickForgetsRental(answered) ==
  /\ session.op = "tick"
  /\ reqs' = [q \in DOMAIN reqs |->
                IF q \in session.late THEN [reqs[q] EXCEPT !.status = "FAILED"]
                ELSE reqs[q]]
  /\ session' = Quiet
  /\ UNCHANGED <<rental, unit, at, taken, since, cell, starts, locker, hands, mail,
                 logged, events, budget>>

(* ... and writes: a column is written if the tick's value differs from the  *)
(* one it read.  Without an answer of the locker only deadlines count.      *)
TickWrites(answered) ==
  /\ session.op = "tick"
  /\ LET Restored(c) == answered /\ Forgotten(c) # {}
         Known(c) == IF session.seen[c] = "unread" THEN cell[c] ELSE session.seen[c]
         Wanted(c) == IF Restored(c) THEN "RESERVED"
                      ELSE IF answered THEN Snapshot(c)
                      ELSE AfterDeadlines(c, Known(c))
     IN /\ reqs' = [q \in DOMAIN reqs |->
                      [reqs[q] EXCEPT
                        !.status = IF q \in session.late THEN "FAILED" ELSE @,
                        !.opened = @ \/ (answered /\ door[reqs[q].cell] # 0)]]
        /\ rental' = [r \in Rentals |-> IF r \in session.shut THEN "incident" ELSE rental[r]]
        /\ unit' = [u \in Units |-> IF u \in session.shut THEN "RETURN_PENDING" ELSE unit[u]]
        /\ cell' = [c \in Cells |-> IF Wanted(c) # Known(c) THEN Wanted(c) ELSE cell[c]]
        /\ keypad' \in {k \in [Cells -> 0..MaxReturns] : \A c \in Cells :
                            IF Restored(c) THEN k[c] \in Forgotten(c) ELSE k[c] = keypad[c]}
        /\ assigned' = [c \in Cells |-> assigned[c] \/ Restored(c)]
  /\ session' = Quiet
  /\ UNCHANGED <<at, taken, since, starts, hands, mail, logged, events, budget>>

-----------------------------------------------------------------------------
(* The client and the locker (external). *)

Send(c, kind, q) ==
  /\ mail' = mail \cup {[id |-> events, cell |-> c, kind |-> kind, visit |-> q]}
  /\ events' = events + 1

OpenWithCode(q) ==
  LET c == reqs[q].cell
  IN /\ q \in DOMAIN reqs /\ keypad[c] = q /\ door[c] = 0
     /\ budget.visits > 0
     /\ budget' = [budget EXCEPT !.visits = @ - 1]
     /\ door' = [door EXCEPT ![c] = q]
     /\ Send(c, "open", q)
     /\ UNCHANGED <<rows, starts, session, locker, item, logged>>

(* The door falls shut behind the item, or behind nothing.                  *)
CloseDoor(c, put) ==
  LET q == door[c]
      u == UnitOf[reqs[q].r]
  IN /\ q # 0
     /\ put => item[u] = "client"
     /\ item' = [item EXCEPT ![u] = IF put THEN "inside" ELSE @]
     /\ door' = [door EXCEPT ![c] = 0]
     /\ \E kind \in (IF put THEN {"occupied", "closed"} ELSE {"vacant", "closed"}) :
          Send(c, kind, q)
     /\ UNCHANGED <<rows, starts, session, locker, logged, budget>>

EventLost(e) ==
  /\ e \in mail
  /\ mail' = mail \ {e}
  /\ UNCHANGED <<rows, starts, session, locker, hands, logged, events, budget>>

(* A reset of the locker: the cell is free and has no code.                 *)
LockerReset(c) ==
  /\ budget.resets > 0 /\ assigned[c]
  /\ budget' = [budget EXCEPT !.resets = @ - 1]
  /\ keypad' = [keypad EXCEPT ![c] = 0]
  /\ assigned' = [assigned EXCEPT ![c] = FALSE]
  /\ UNCHANGED <<rows, starts, session, hands, mail, logged,
                 events>>

(* Reservation, hand-over and pick-up of the next client (Handover).        *)
NextClient(r) ==
  LET u == UnitOf[r]
  IN /\ rental[r] = "none" /\ unit[u] = "AVAILABLE" /\ at[u] # NoCell
     /\ rental' = [rental EXCEPT ![r] = "active"]
     /\ unit' = [unit EXCEPT ![u] = "RENTED"]
     /\ taken' = [taken EXCEPT ![u] = Append(@, at[u])]
     /\ since' = [since EXCEPT ![u] = Len(reqs)]
     /\ cell' = [cell EXCEPT ![at[u]] = "VACANT"]
     /\ at' = [at EXCEPT ![u] = NoCell]
     /\ item' = [item EXCEPT ![u] = "client"]
     /\ keypad' = [keypad EXCEPT ![at[u]] = 0]
     /\ assigned' = [assigned EXCEPT ![at[u]] = TRUE]
     /\ UNCHANGED <<reqs, starts, session, door, mail, logged, events, budget>>

-----------------------------------------------------------------------------
(* The operator. *)

Act == budget.acts > 0 /\ budget' = [budget EXCEPT !.acts = @ - 1]

(* Mutant: unfinished rentals of the unit stay unfinished.                  *)
ConfirmReadyOnly(u) ==
  /\ unit[u] = "AWAITING" /\ at[u] # NoCell
  /\ unit' = [unit EXCEPT ![u] = "AVAILABLE"]
  /\ UNCHANGED <<rental, at, taken, since, cell, reqs, starts, session, locker, hands,
                 mail, logged, events, budget>>

(* confirm_inventory_ready: the item is fine; every unfinished rental of the *)
(* unit is completed.                                                       *)
ConfirmReady(u) ==
  /\ unit[u] = "AWAITING" /\ at[u] # NoCell
  /\ unit' = [unit EXCEPT ![u] = "AVAILABLE"]
  /\ rental' = [r \in Rentals |->
                  IF UnitOf[r] = u /\ rental[r] # "none" THEN "completed" ELSE rental[r]]
  /\ UNCHANGED <<at, taken, since, cell, reqs, starts, session, locker, hands, mail,
                 logged, events, budget>>

(* force_complete_rental: the return of the rental is left as it is.        *)
ForceComplete(r) ==
  LET u == UnitOf[r]
  IN /\ Act
     /\ rental[r] \in {"active", "returning", "incident"}
     /\ rental' = [rental EXCEPT ![r] = "completed"]
     /\ unit' = [unit EXCEPT ![u] = IF @ \in {"RENTED", "RETURN_PENDING"}
                                    THEN "AVAILABLE" ELSE @]
     /\ cell' = [c \in Cells |-> IF at[u] = c /\ cell[c] = "RESERVED"
                                 THEN "OCCUPIED" ELSE cell[c]]
     /\ UNCHANGED <<at, taken, since, reqs, starts, session, locker, hands, mail, logged,
                 events>>

(* set-cell as the operator's handlers use it: an occupied cell gets the     *)
(* code 0000, a free one none.  Most carry on without the locker.           *)
SetCell(c, occupied, answered) ==
  /\ keypad' = IF answered THEN [keypad EXCEPT ![c] = 0] ELSE keypad
  /\ assigned' = IF answered THEN [assigned EXCEPT ![c] = occupied] ELSE assigned

(* place_product_in_cell, with a unit that is nowhere.                       *)
Place(u, c, answered) ==
  /\ Act
  /\ cell[c] \notin {"OCCUPIED", "RESERVED"} /\ InCell(c) = {}
  /\ unit[u] = "AVAILABLE" /\ at[u] = NoCell
  /\ SetCell(c, TRUE, answered)
  /\ at' = [at EXCEPT ![u] = c]
  /\ cell' = [cell EXCEPT ![c] = "OCCUPIED"]
  /\ item' = [item EXCEPT ![u] = IF @ = "office" THEN "inside" ELSE @]
  /\ UNCHANGED <<rental, unit, taken, since, reqs, starts, session, door, mail, logged,
                 events>>

(* take_cell_for_service: nothing brings the unit back from MAINTENANCE.    *)
TakeForService(u, answered) ==
  /\ Act
  /\ at[u] # NoCell /\ unit[u] \in Present
  /\ SetCell(at[u], FALSE, answered)
  /\ unit' = [unit EXCEPT ![u] = "MAINTENANCE"]
  /\ cell' = [cell EXCEPT ![at[u]] = "VACANT"]
  /\ at' = [at EXCEPT ![u] = NoCell]
  /\ item' = [item EXCEPT ![u] = IF @ = "inside" THEN "office" ELSE @]
  /\ UNCHANGED <<rental, taken, since, reqs, starts, session, door, mail, logged,
                 events>>

(* admin_assign_inventory_unit: the status of the cell is not looked at.    *)
Assign(u, c) ==
  /\ Act
  /\ unit[u] = "AVAILABLE" /\ InCell(c) = {}
  /\ keypad' = [d \in Cells |-> IF d \in {c, at[u]} THEN 0 ELSE keypad[d]]
  /\ assigned' = [d \in Cells |-> IF d = c THEN TRUE
                                  ELSE IF d = at[u] THEN FALSE ELSE assigned[d]]
  /\ cell' = [d \in Cells |-> IF d = c THEN "OCCUPIED"
                              ELSE IF d = at[u] THEN "VACANT" ELSE cell[d]]
  /\ at' = [at EXCEPT ![u] = c]
  /\ item' = [item EXCEPT ![u] = IF @ = "office" THEN "inside" ELSE @]
  /\ UNCHANGED <<rental, unit, taken, since, reqs, starts, session, door, mail, logged,
                 events>>

(* admin_unassign_inventory_unit *)
Unassign(u) ==
  /\ Act
  /\ at[u] # NoCell /\ unit[u] = "AVAILABLE"
  /\ SetCell(at[u], FALSE, TRUE)
  /\ cell' = [cell EXCEPT ![at[u]] = "VACANT"]
  /\ at' = [at EXCEPT ![u] = NoCell]
  /\ item' = [item EXCEPT ![u] = IF @ = "inside" THEN "office" ELSE @]
  /\ UNCHANGED <<rental, unit, taken, since, reqs, starts, session, door, mail, logged,
                 events>>

-----------------------------------------------------------------------------
ClientStep ==
  \/ \E r \in Rentals : StartReturn(r) \/ ConfirmReturn(r) \/ NextClient(r)
  \/ \E s \in starts : ReturnStarted(s) \/ ReturnRefused(s)

LockerStep ==
  \/ \E q \in DOMAIN reqs : OpenWithCode(q) \/ DeadlinePasses(q)
  \/ \E c \in Cells : LockerReset(c) \/ \E put \in BOOLEAN : CloseDoor(c, put)
  \/ \E e \in mail : EventLost(e)

Tick == TickReads \/ \E answered \in BOOLEAN : TickWrites(answered)

OperatorStep ==
  \/ \E u \in Units : ConfirmReady(u) \/ Unassign(u)
  \/ \E r \in Rentals : ForceComplete(r)
  \/ \E u \in Units, c \in Cells : Assign(u, c)
  \/ \E u \in Units, answered \in BOOLEAN :
       TakeForService(u, answered) \/ \E c \in Cells : Place(u, c, answered)

ReturnsNext ==
  \/ LockerStep \/ Tick
  \/ /\ budget.shared \/ session.op # "tick"
     /\ ClientStep \/ \E e \in mail : Webhook(e)
  \/ /\ budget.shared \/ (session.op = "none" /\ starts = {})
     /\ OperatorStep

(* The worker ticks, and is not kept from it by requests that come one after *)
(* another; a started request is answered; time goes on.                    *)
ReturnsFairness ==
  /\ SF_returnVars(TickReads)
  /\ WF_returnVars(\E answered \in BOOLEAN : TickWrites(answered))
  /\ WF_returnVars(\E s \in starts : ReturnStarted(s) \/ ReturnRefused(s))
  /\ \A q \in 1..MaxReturns : WF_returnVars(DeadlinePasses(q))

ReturnsSpec ==
  ReturnsInit /\ [][ReturnsNext]_returnVars /\ ReturnsFairness

-----------------------------------------------------------------------------
(* Every row, and what the locker knows, has its type.                      *)
ReturnsTypeOK ==
  /\ rental \in [Rentals -> {"none", "active", "returning", "incident", "completed"}]
  /\ unit \in [Units -> {"RENTED"} \cup Present]
  /\ at \in [Units -> Cells \cup {NoCell}]
  /\ cell \in [Cells -> {"VACANT", "RESERVED", "OPENED", "OCCUPIED"}]
  /\ \A q \in DOMAIN reqs : reqs[q].cell \in Cells /\ reqs[q].r \in Rentals
  /\ keypad \in [Cells -> 0..MaxReturns] /\ door \in [Cells -> 0..MaxReturns]
  /\ assigned \in [Cells -> BOOLEAN]
  /\ item \in [Units -> {"client", "inside", "office"}]

(* The cell of return q was chosen before return p, made into it, was written. *)
Beside(p, q) == p < q /\ reqs[q].chosen < p

(* However the locker, its snapshots and the operator change the status of a *)
(* cell: it is never promised to two returns, so that a code overwrites      *)
(* another client's, unless the second was started before the first had its *)
(* row - then it may be, as nothing is locked between the choice of a cell  *)
(* and the row (_find_home_return_cell, start_rental_return).                *)
OneReturnPerCell ==
  \A c \in Cells : \A p, q \in LiveOn(c) : p < q => Beside(p, q)

(* With no one writing during a tick, and no operator while the locker is     *)
(* asked for a return, a rental that runs, or is being returned, never has   *)
(* its unit on offer to the next client, whatever is left of an earlier      *)
(* return of the unit (confirm_inventory_ready, force_complete_rental,       *)
(* fail_return_request).                                                    *)
LiveRentalKeepsUnit ==
  ~budget.shared => \A r \in Rentals :
    rental[r] \in {"active", "returning"} => unit[UnitOf[r]] # "AVAILABLE"

(* With events that first arrive before the next return into their cell, a   *)
(* return the locker completes is completed by its own door, or by that of a *)
(* return started beside it and given the same cell: an event that is        *)
(* delivered again, however late, closes nobody else's return               *)
(* (process_esi_webhook_payload, esi_event_log).                            *)
OwnDoor ==
  ~budget.slow => \A q \in DOMAIN reqs :
    reqs[q].by \in {0, q} \/ Beside(q, reqs[q].by)

(* Every return ends, completed, or as an incident after its deadline: with  *)
(* finitely many of them, there is always a later moment when none is under *)
(* way (reconcile_esi_and_returns).                                         *)
ReturnEnds == []<>(\A r \in Rentals : rental[r] # "returning")

(* A cell that is given to a client for a return, and was not promised to     *)
(* another meanwhile, holds nobody else's item (the docstring of             *)
(* _find_home_return_cell).                                                 *)
NoForeignItem ==
  \A q \in DOMAIN reqs : Live(q) =>
    ~\E p \in DOMAIN reqs : /\ p < q /\ reqs[p].cell = reqs[q].cell /\ ~Beside(p, q)
                            /\ reqs[p].status = "FAILED"
                            /\ UnitOf[reqs[p].r] # UnitOf[reqs[q].r]
                            /\ item[UnitOf[reqs[p].r]] = "inside"
=============================================================================
