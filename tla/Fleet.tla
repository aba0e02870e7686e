-------------------------------- MODULE Fleet --------------------------------
(***************************************************************************)
(* The lockers, their cells and the items in them, as operators and the     *)
(* scripts of a deploy change them, beside the reservations and rentals      *)
(* that refer to them.  A deploy writes the lockers, cells and items of the *)
(* bundle over the rows it finds (apply_catalog_bundle.py), then empties and *)
(* deletes the lockers listed in migrate_lockers_to_real.py.               *)
(*                                                                         *)
(* A deletion reads what hangs on a locker and deletes in statements of the *)
(* same transaction; other handlers commit in between.  The foreign keys    *)
(* have no ON DELETE: a row that something refers to is not deleted.        *)
(***************************************************************************)
EXTENDS FiniteSets, Naturals

CONSTANTS
  Points, Boxes, Items,   \* ids of rows: lockers, cells, units
  NoId,                  \* an id that is not used; the NULL of a column
  FleetBudgets            \* bounds of a behaviour, and the state of the rental
                          \* that the second locker has from earlier

Serials == {"nevsky", "west", "center", "fake", "machine"}
PointRows ==
  [provider : {"esi", "seed"}, serial : Serials, status : {"ONLINE", "OFFLINE"}]
BoxRows == [point : Points, label : {"A1", "B1", "C1"}]
ItemRows ==
  [box : Boxes \cup {NoId}, status : {"AVAILABLE", "RESERVED", "RENTED"},
   tag : {"tagged", "plain"}]
BundleKey == <<"seed", "nevsky">>
EmptyTargets == {<<"seed", "west">>}
DeleteTargets == {<<"esi", "fake">>, <<"seed", "center">>}
ASSUME FleetAssumption ==
  /\ NoId \notin Points \cup Boxes \cup Items \cup PointRows \cup BoxRows \cup ItemRows
  /\ \E p, q \in Points : p # q
  /\ \E a, b, c \in Boxes : a # b /\ a # c /\ b # c
  /\ \E i, j, k \in Items : i # j /\ i # k /\ j # k
  /\ FleetBudgets \subseteq
       [acts : Nat, hires : Nat, deploys : Nat, sweeps : Nat, second : Serials,
        past : {"none", "ready", "out", "done"}]

VARIABLES
  points,   \* locker_locations
  boxes,    \* locker_cells
  stock,    \* inventory_units
  hires,    \* a reservation and its rental, with the lockers they refer to
  moves,    \* inventory_movements
  sweep,    \* a deletion that has read and not yet deleted
  fleetBudget

fleetVars == <<points, boxes, stock, hires, moves, sweep, fleetBudget>>

Point(provider, serial, status) ==
  [provider |-> provider, serial |-> serial, status |-> status]
Box(p, label) == [point |-> p, label |-> label]
Item(b, status, tag) == [box |-> b, status |-> status, tag |-> tag]
Hire(i, at, state) == [item |-> i, at |-> at, state |-> state]
Move(i, from, to, pickup) ==
  [item |-> i, from |-> from, to |-> to, pickup |-> pickup]
NoSweep == [script |-> FALSE, gone |-> {}, boxes |-> {}, items |-> {}]
Key(p) == <<points[p].provider, points[p].serial>>
Made(rows) == {x \in DOMAIN rows : rows[x] # NoId}
Fresh(rows) == CHOOSE x \in DOMAIN rows : rows[x] = NoId
Three(S) == CHOOSE t \in S \X S \X S : t[1] # t[2] /\ t[1] # t[3] /\ t[2] # t[3]
BoxesOf(p) == {b \in Made(boxes) : boxes[b].point = p}
Inside(B) == {i \in Made(stock) : stock[i].box \in B}
Unfinished == {h \in hires : h.state # "done"}

(* One locker is the bundle's, with its two items in it; in the second one    *)
(* somebody has already rented.                                             *)
FleetInit ==
  LET p == CHOOSE x \in Points : TRUE  q == CHOOSE x \in Points : x # p
      a == Three(Boxes)[1]  b == Three(Boxes)[2]  c == Three(Boxes)[3]
      i == Three(Items)[1]  j == Three(Items)[2]  k == Three(Items)[3]
  IN
    /\ fleetBudget \in FleetBudgets
    /\ LET s == fleetBudget.second  was == fleetBudget.past
           kind == IF s \in {"machine", "fake"} THEN "esi" ELSE "seed" IN
       /\ points = [x \in Points |->
            CASE x = p -> Point("seed", "nevsky", "OFFLINE")
              [] x = q -> Point(kind, s, IF kind = "esi" THEN "ONLINE" ELSE "OFFLINE")
              [] OTHER -> NoId]
       /\ boxes = [x \in Boxes |-> CASE x = a -> Box(p, "A1") [] x = b -> Box(p, "B1")
                                     [] x = c -> Box(q, "A1") [] OTHER -> NoId]
       /\ stock = [x \in Items |->
            CASE x = i -> Item(a, "AVAILABLE", "tagged")
              [] x = j -> Item(b, "AVAILABLE", "plain")
              [] x = k -> Item(IF was = "out" THEN NoId ELSE c,
                               CASE was = "ready" -> "RESERVED" [] was = "out" -> "RENTED"
                                 [] OTHER -> "AVAILABLE", "plain")
              [] OTHER -> NoId]
       /\ hires = IF was = "none" THEN {} ELSE {Hire(k, {q}, was)}
       /\ moves = IF was \in {"out", "done"} THEN {Move(k, c, NoId, TRUE)} ELSE {}
       /\ sweep = NoSweep

FleetSpends(what) ==
  /\ fleetBudget[what] > 0
  /\ fleetBudget' = [fleetBudget EXCEPT ![what] = @ - 1]

-----------------------------------------------------------------------------
(* Lockers and cells in the admin panel                                     *)

(* _ensure_online_only_with_esi, _ensure_no_external_duplicate              *)
MayBe(row, p) ==
  /\ row.status = "ONLINE" => row.provider = "esi"
  /\ \A q \in Made(points) \ {p} : Key(q) # <<row.provider, row.serial>>

(* create_admin_locker                                                      *)
CreatePoint(row) ==
  /\ Made(points) # Points /\ MayBe(row, NoId) /\ FleetSpends("acts")
  /\ points' = [points EXCEPT ![Fresh(points)] = row]
  /\ UNCHANGED <<boxes, stock, hires, moves, sweep>>

(* update_admin_locker: any of the three fields, whatever hangs on it.       *)
UpdatePoint(p, row) ==
  /\ points[p] \notin {NoId, row} /\ MayBe(row, p) /\ FleetSpends("acts")
  /\ points' = [points EXCEPT ![p] = row]
  /\ UNCHANGED <<boxes, stock, hires, moves, sweep>>

(* admin_create_locker_cell                                                 *)
CreateBox(p) ==
  /\ Made(boxes) # Boxes /\ points[p] # NoId /\ FleetSpends("acts")
  /\ boxes' = [boxes EXCEPT ![Fresh(boxes)] = Box(p, "C1")]
  /\ UNCHANGED <<points, stock, hires, moves, sweep>>

(* admin_update_locker_cell: the label the bundle finds it by.              *)
RenameBox(b) ==
  /\ boxes[b] # NoId /\ boxes[b].label # "C1" /\ FleetSpends("acts")
  /\ boxes' = [boxes EXCEPT ![b].label = "C1"]
  /\ UNCHANGED <<points, stock, hires, moves, sweep>>

(* admin_assign_inventory_unit, place_product_in_cell with a unit in no cell *)
PutItem(i, b) ==
  /\ stock[i] # NoId /\ boxes[b] # NoId /\ stock[i].status = "AVAILABLE"
  /\ Inside({b}) = {} /\ FleetSpends("acts")
  /\ stock' = [stock EXCEPT ![i].box = b]
  /\ moves' = moves \cup {Move(i, stock[i].box, b, FALSE)}
  /\ UNCHANGED <<points, boxes, hires, sweep>>

(* admin_unassign_inventory_unit                                            *)
TakeItem(i) ==
  /\ stock[i] # NoId /\ stock[i].box # NoId /\ stock[i].status = "AVAILABLE"
  /\ FleetSpends("acts")
  /\ stock' = [stock EXCEPT ![i].box = NoId]
  /\ moves' = moves \cup {Move(i, stock[i].box, NoId, FALSE)}
  /\ UNCHANGED <<points, boxes, hires, sweep>>

(* A machine answers a tick, or reports an event: its locker is switched on.  *)
(* The event looks for the serial alone.                                    *)
MachineHeard ==
  /\ \E p \in Made(points) :
       /\ points[p].serial = "machine" /\ points[p].status = "OFFLINE"
       /\ points' = [points EXCEPT ![p].status = "ONLINE"]
  /\ UNCHANGED <<boxes, stock, hires, moves, sweep, fleetBudget>>

-----------------------------------------------------------------------------
(* Reservations and rentals; Handover and Returns have them in full.        *)

(* locker_can_take_bookings                                                 *)
IsBookable(p) ==
  points[p] # NoId /\ points[p].status = "ONLINE" /\ points[p].provider = "esi"

(* create_reservation                                                       *)
Book(i, p) ==
  /\ IsBookable(p) /\ i \in Inside(BoxesOf(p)) /\ FleetSpends("hires")
  /\ \A h \in Unfinished : h.item # i
  /\ hires' = hires \cup {Hire(i, {p}, "booked")}
  /\ stock' = [stock EXCEPT ![i].status = "RESERVED"]
  /\ UNCHANGED <<points, boxes, moves, sweep>>

Becomes(h, g) == hires' = (hires \ {h}) \cup {g}

(* confirm_reservation; the item must lie in the locker of the reservation.  *)
Confirm(h) ==
  /\ h.state = "booked"
  /\ \A p \in h.at : IsBookable(p) /\ h.item \in Inside(BoxesOf(p))
  /\ stock[h.item].status \in {"AVAILABLE", "RESERVED"}
  /\ Becomes(h, Hire(h.item, h.at, "ready"))
  /\ stock' = [stock EXCEPT ![h.item].status = "RESERVED"]
  /\ UNCHANGED <<points, boxes, moves, sweep, fleetBudget>>

(* confirm_pickup.  Minutes pass between a payment and a pickup, and a        *)
(* deletion takes milliseconds: the pickup is not inside it.                *)
PickUp(h) ==
  LET b == stock[h.item].box IN
  /\ h.state = "ready" /\ sweep = NoSweep
  /\ \A p \in h.at : h.item \in Inside(BoxesOf(p))
  /\ Becomes(h, Hire(h.item, h.at, "out"))
  /\ stock' = [stock EXCEPT ![h.item].status = "RENTED", ![h.item].box = NoId]
  /\ moves' = moves \cup {Move(h.item, b, NoId, TRUE)}
  /\ UNCHANGED <<points, boxes, sweep, fleetBudget>>

(* cancel_my_reservation, cancel_my_rental                                  *)
CancelHire(h) ==
  /\ h.state \in {"booked", "ready"} /\ Becomes(h, Hire(h.item, h.at, "done"))
  /\ stock' = [stock EXCEPT
       ![h.item].status = IF @ = "RESERVED" THEN "AVAILABLE" ELSE @]
  /\ UNCHANGED <<points, boxes, moves, sweep, fleetBudget>>

(* start_rental_return and the operator's check: in this or another locker   *)
(* of the city that is switched on.                                         *)
GiveBack(h, b) ==
  /\ h.state = "out" /\ boxes[b] # NoId /\ Inside({b}) \ {h.item} = {}
  /\ points[boxes[b].point].status = "ONLINE"
  /\ Becomes(h, Hire(h.item, h.at \cup {boxes[b].point}, "done"))
  /\ stock' = [stock EXCEPT ![h.item].status = "AVAILABLE", ![h.item].box = b]
  /\ moves' = moves \cup {Move(h.item, stock[h.item].box, b, FALSE)}
  /\ UNCHANGED <<points, boxes, sweep, fleetBudget>>

-----------------------------------------------------------------------------
(* Deletions: _perform_admin_locker_delete; _run, where one locker that may   *)
(* not be touched undoes the whole transaction.                             *)

Touching(m, B) == m.from \in B \/ m.to \in B

(* Mutant: only the units in the locker are asked for, not its own rentals.  *)
MayPurgeItems(p) == \A h \in hires : h.item \notin Inside(BoxesOf(p))

(* The guard of _purge_locker_contents.                                     *)
MayPurge(p) == \A h \in hires : p \notin h.at /\ h.item \notin Inside(BoxesOf(p))

(* The guards of _perform_admin_locker_delete.                              *)
MayDelete(p) ==
  /\ \A h \in hires : p \notin h.at
  /\ Inside(BoxesOf(p)) = {} /\ \A m \in moves : ~Touching(m, BoxesOf(p))

DeleteReads(p) ==
  /\ sweep = NoSweep /\ points[p] # NoId /\ MayDelete(p) /\ FleetSpends("acts")
  /\ sweep' = [NoSweep EXCEPT !.gone = {p}, !.boxes = BoxesOf(p)]
  /\ UNCHANGED <<points, boxes, stock, hires, moves>>

MigrateReads ==
  LET emptied == {p \in Made(points) : Key(p) \in EmptyTargets}
      gone == {p \in Made(points) : Key(p) \in DeleteTargets}
      B == UNION {BoxesOf(p) : p \in emptied \cup gone}
  IN
  /\ sweep = NoSweep /\ emptied \cup gone # {} /\ FleetSpends("sweeps")
  /\ \A p \in emptied \cup gone : BoxesOf(p) # {} \/ p \in gone => MayPurge(p)
  /\ sweep' = [script |-> TRUE, gone |-> gone, boxes |-> B, items |-> Inside(B)]
  /\ UNCHANGED <<points, boxes, stock, hires, moves>>

(* The DELETEs and the commit; refused if a row that stays refers to one that  *)
(* goes.  The script takes the movements of its cells and units with it.     *)
Doomed ==
  IF sweep.script THEN sweep.boxes
  ELSE {b \in Made(boxes) : sweep.boxes # {} /\ boxes[b].point \in sweep.gone}
KeptMoves ==
  IF sweep.script
    THEN {m \in moves : ~Touching(m, Doomed) /\ m.item \notin sweep.items} ELSE moves
Unreferenced ==
  /\ \A h \in hires : h.item \notin sweep.items /\ h.at \cap sweep.gone = {}
  /\ Inside(Doomed) \subseteq sweep.items
  /\ \A m \in KeptMoves : ~Touching(m, Doomed)
  /\ \A p \in sweep.gone : BoxesOf(p) \subseteq Doomed
SweepCommits ==
  /\ sweep # NoSweep /\ Unreferenced
  /\ points' = [p \in Points |-> IF p \in sweep.gone THEN NoId ELSE points[p]]
  /\ boxes' = [b \in Boxes |-> IF b \in Doomed THEN NoId ELSE boxes[b]]
  /\ stock' = [i \in Items |-> IF i \in sweep.items THEN NoId ELSE stock[i]]
  /\ moves' = KeptMoves /\ sweep' = NoSweep
  /\ UNCHANGED <<hires, fleetBudget>>
SweepFails ==
  /\ sweep # NoSweep /\ sweep' = NoSweep
  /\ UNCHANGED <<points, boxes, stock, hires, moves, fleetBudget>>

-----------------------------------------------------------------------------
(* The lockers, cells and units of apply_bundle, with --force               *)

(* _upsert_cell: b is the row of the label in p, or a new one.              *)
IsBoxFor(b, p, label) ==
  \/ boxes[b] = Box(p, label)
  \/ boxes[b] = NoId /\ \A c \in Made(boxes) : boxes[c] # Box(p, label)

(* _sync_inventory_units: by barcode or serial number, then by the cell.     *)
IsItemFor(i, rows, tag, b) ==
  LET tagged == {k \in Made(rows) : tag = "tagged" /\ rows[k].tag = tag}
      inCell == {k \in Made(rows) : rows[k].box = b}
  IN CASE tagged # {} -> i \in tagged
       [] tagged = {} /\ inCell # {} -> i \in inCell
       [] OTHER -> rows[i] = NoId /\ i = Fresh(rows)

DeployFleet(p, a, b, i, j) ==
  LET first == [stock EXCEPT ![i] = Item(a, "AVAILABLE", "tagged")]
      both == [first EXCEPT ![j] = Item(b, "AVAILABLE", "plain")]
  IN
  /\ FleetSpends("deploys")
  /\ IF \E q \in Made(points) : Key(q) = BundleKey
       THEN points[p] # NoId /\ Key(p) = BundleKey
       ELSE points[p] = NoId /\ p = Fresh(points)
  /\ IsBoxFor(a, p, "A1") /\ IsBoxFor(b, p, "B1") /\ a # b
  /\ IsItemFor(i, stock, "tagged", a)
  /\ \A k \in Made(first) \ {i} : first[k].box # a   \* locker_cell_id is unique
  /\ IsItemFor(j, first, "plain", b)
  /\ points' = [points EXCEPT ![p] = Point("seed", "nevsky", "OFFLINE")]
  /\ boxes' = [boxes EXCEPT ![a] = Box(p, "A1"), ![b] = Box(p, "B1")]
  /\ stock' = both
  /\ UNCHANGED <<hires, moves, sweep>>

FleetNext ==
  \/ MachineHeard \/ MigrateReads \/ SweepCommits \/ SweepFails
  \/ \E p \in Points, a, b \in Boxes, i, j \in Items : DeployFleet(p, a, b, i, j)
  \/ \E row \in PointRows : CreatePoint(row) \/ \E p \in Points : UpdatePoint(p, row)
  \/ \E p \in Points : CreateBox(p) \/ DeleteReads(p) \/ \E i \in Items : Book(i, p)
  \/ \E b \in Boxes : RenameBox(b) \/ (\E i \in Items : PutItem(i, b))
                        \/ \E h \in hires : GiveBack(h, b)
  \/ \E i \in Items : TakeItem(i)
  \/ \E h \in hires : Confirm(h) \/ PickUp(h) \/ CancelHire(h)
FleetSpec == FleetInit /\ [][FleetNext]_fleetVars

-----------------------------------------------------------------------------
(* Every variable has its type.                                             *)
FleetTypeOK ==
  /\ \A p \in Made(points) : points[p] \in PointRows
  /\ \A b \in Made(boxes) : boxes[b] \in BoxRows /\ points[boxes[b].point] # NoId
  /\ \A i \in Made(stock) : stock[i] \in ItemRows
  /\ \A b \in Made(boxes) : Cardinality(Inside({b})) <= 1

(* No deletion by an operator or by the scripts of a deploy takes away what    *)
(* a reservation or a rental rests on: its item and its lockers are there,   *)
(* and for an item that is out so are the cell it was taken from and the     *)
(* movement that says so, by which the return finds it (the docstring of     *)
(* _purge_locker_contents, written after the deletion of 2026-10-23).       *)
HiresKeepPlace ==
  \A h \in hires :
    /\ stock[h.item] # NoId /\ \A p \in h.at : points[p] # NoId
    /\ h.state = "out" =>
         \E m \in moves : /\ m.item = h.item /\ m.pickup /\ boxes[m.from] # NoId
                          /\ boxes[m.from].point \in h.at

(* An item that is out is not put on offer before it comes back.  It holds    *)
(* but for an item of the bundle that operators moved and somebody rented:  *)
(* the next deploy puts it back into its first cell.                       *)
RentedStaysOut == \A h \in hires : h.state = "out" => stock[h.item].status = "RENTED"
=============================================================================
