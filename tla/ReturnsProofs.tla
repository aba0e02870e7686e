---------------------------- MODULE ReturnsProofs ----------------------------
(***************************************************************************)
(* Proofs about Returns and Pickup for any rentals, units, cells and bounds.  *)
(*                                                                         *)
(* A cell is promised once because a live request is the newest on its cell *)
(* (Accepts), but for requests whose cell was chosen before the live one had *)
(* its row: what a started return did not see is all that may be live on    *)
(* its cell (Chosen).  An event then closes the request of its own visit, or *)
(* one beside it: the visit is on the same cell (Sent), and the live request *)
(* of that cell is the newest one.  That a unit is not on offer under a live *)
(* rental needs more: no two unfinished rentals of one unit, none of a unit *)
(* on offer, and what a tick or a started return read is still so (Held).   *)
(*                                                                         *)
(* The code of a cancelled rental is gone because the item waits for one     *)
(* client at most: nobody waits when the reset writes its code, and whoever  *)
(* writes a code later writes that of a client who waits (InHand).          *)
(***************************************************************************)
EXTENDS Returns, Pickup, FiniteSetTheorems, WellFoundedInduction, TLAPS

Statuses == {"none", "active", "returning", "incident", "completed"}
Unfinished == {"active", "returning", "incident"}
CellStates == {"VACANT", "RESERVED", "OPENED", "OCCUPIED"}
Req == [r : Rentals, cell : Cells, status : {"CREATED", "COMPLETED", "FAILED"},
        late : BOOLEAN, opened : BOOLEAN, by : Nat, chosen : Nat]
Bounds == [returns : 0..MaxReturns, visits : Nat, resets : Nat, acts : Nat,
           shared : BOOLEAN, slow : BOOLEAN]

RowTypes ==
  /\ rental \in [Rentals -> Statuses]
  /\ unit \in [Units -> {"RENTED"} \cup Present]
  /\ at \in [Units -> Cells \cup {NoCell}]
  /\ taken \in [Units -> Seq(Cells)]
  /\ cell \in [Cells -> CellStates]
  /\ reqs \in Seq(Req) /\ Len(reqs) <= MaxReturns
LockerTypes ==
  /\ keypad \in [Cells -> 0..MaxReturns] /\ assigned \in [Cells -> BOOLEAN]
  /\ door \in [Cells -> 0..MaxReturns]
  /\ item \in [Units -> {"client", "inside", "office"}]
  /\ budget \in Bounds

(* Return q is older than return v, which was started before q had its row.  *)
Overlap(rq, q, v) == v \in DOMAIN rq /\ q < v /\ rq[v].chosen < q

(* A live request is the newest on its cell, but for those beside it.       *)
Accepts(rq) ==
  \A q \in DOMAIN rq : rq[q].status = "CREATED" =>
    \A p \in DOMAIN rq : rq[p].cell = rq[q].cell => p <= q \/ Overlap(rq, q, p)

(* The requests a started return did not see, and no others, may be live on  *)
(* its cell.                                                                *)
Chosen(st, rq) ==
  \A s \in st :
    /\ s.r \in Rentals /\ s.cell \in Cells /\ s.chosen \in 0..Len(rq)
    /\ \A q \in DOMAIN rq :
         rq[q].status = "CREATED" /\ rq[q].cell = s.cell => s.chosen < q

(* What a tick carries on between its steps.                                *)
Carries(s) == s.op = "tick" => s.seen \in [Cells -> CellStates \cup {"unread"}]

Opened(d, rq) ==
  \A c \in Cells : d[c] # 0 => d[c] \in DOMAIN rq /\ rq[d[c]].cell = c
Sent(m, rq) ==
  \A e \in m : /\ e.kind \in {"open", "occupied", "vacant", "closed"}
               /\ e.cell \in Cells
               /\ e.visit \in DOMAIN rq /\ rq[e.visit].cell = e.cell
ByOwnDoor(b, rq) ==
  ~b.slow => \A q \in DOMAIN rq : rq[q].by \in {0, q} \/ Overlap(rq, q, rq[q].by)

(* Nobody has written behind a tick or a started return.                    *)
Held(b, rt, un, st, s) ==
  ~b.shared =>
    /\ \A r, t \in Rentals :
         rt[r] \in Unfinished /\ rt[t] \in Unfinished /\ UnitOf[r] = UnitOf[t] => r = t
    /\ \A r \in Rentals : rt[r] \in Unfinished => un[UnitOf[r]] # "AVAILABLE"
    /\ \A x \in st :
         /\ un[UnitOf[x.r]] # "AVAILABLE"
         /\ \A t \in Rentals : rt[t] \in Unfinished /\ UnitOf[t] = UnitOf[x.r] => t = x.r
         /\ \A y \in st : UnitOf[y.r] = UnitOf[x.r] => y.r = x.r
    /\ s.op = "tick" => \A r \in Rentals : r \in s.shut => rt[r] = "returning"

Requested ==
  /\ RowTypes /\ LockerTypes
  /\ Accepts(reqs) /\ Chosen(starts, reqs) /\ Carries(session)
  /\ Opened(door, reqs) /\ Sent(mail, reqs) /\ ByOwnDoor(budget, reqs)
Custody == Requested /\ Held(budget, rental, unit, starts, session)

-----------------------------------------------------------------------------
(* Sets and sequences *)

LEMMA SmallestExists ==
  ASSUME NEW S \in SUBSET Nat, S # {}
  PROVE  \E c \in S : \A d \in S : c <= d
<1>1. \E c \in S : \A d \in S : ~(<<d, c>> \in OpToRel(<, Nat))
  BY NatLessThanWellFounded, WFMin
<1>2. PICK c \in S : \A d \in S : ~(<<d, c>> \in OpToRel(<, Nat))
  BY <1>1
<1>3. ASSUME NEW d \in S PROVE c <= d
  <2>1. ~(d < c)
    BY <1>2 DEF OpToRel
  <2>2. QED
    BY <2>1
<1>4. QED
  BY <1>3

LEMMA LargestExists ==
  ASSUME NEW n \in Nat, NEW S \in SUBSET (1..n), S # {}
  PROVE  \E i \in S : \A j \in S : j <= i
<1> DEFINE T == {n - i : i \in S}
<1>1. T \in SUBSET Nat /\ T # {}
  <2>1. \A i \in S : n - i \in Nat
    OBVIOUS
  <2>2. QED
    BY <2>1
<1>2. PICK k \in T : \A d \in T : k <= d
  BY <1>1, SmallestExists
<1>3. PICK i \in S : k = n - i
  OBVIOUS
<1>4. \A j \in S : n - i <= n - j
  BY <1>2, <1>3
<1>5. QED
  BY <1>4

LEMMA IsSeq ==
  ASSUME NEW S, NEW n \in Nat, NEW f \in [1..n -> S]
  PROVE  f \in Seq(S) /\ Len(f) = n
  OBVIOUS

-----------------------------------------------------------------------------
(* The requests *)

(* The rows stay; none is live again.                                       *)
Keeps(new, old) ==
  /\ new \in Seq(Req) /\ Len(new) = Len(old)
  /\ \A q \in DOMAIN old :
       /\ new[q].r = old[q].r /\ new[q].cell = old[q].cell
       /\ new[q].chosen = old[q].chosen
       /\ new[q].status = "CREATED" => old[q].status = "CREATED"

LEMMA KeepsFacts ==
  ASSUME NEW old \in Seq(Req), NEW new, Keeps(new, old)
  PROVE  /\ DOMAIN new = DOMAIN old
         /\ Accepts(old) => Accepts(new)
         /\ \A st : Chosen(st, old) => Chosen(st, new)
         /\ \A q, v : Overlap(old, q, v) => Overlap(new, q, v)
         /\ \A d : Opened(d, old) => Opened(d, new)
         /\ \A m : Sent(m, old) => Sent(m, new)
<1>1. DOMAIN new = DOMAIN old
  BY DEF Keeps
<1>2. \A q, v : Overlap(old, q, v) => Overlap(new, q, v)
  BY <1>1 DEF Keeps, Overlap
<1>3. Accepts(old) => Accepts(new)
  BY <1>1, <1>2 DEF Keeps, Accepts
<1>4. ASSUME NEW st, Chosen(st, old) PROVE Chosen(st, new)
  BY <1>1, <1>4 DEF Keeps, Chosen
<1>5. ASSUME NEW d, Opened(d, old) PROVE Opened(d, new)
  BY <1>1, <1>5 DEF Keeps, Opened
<1>6. ASSUME NEW m, Sent(m, old) PROVE Sent(m, new)
  BY <1>1, <1>6 DEF Keeps, Sent
<1>7. QED
  BY <1>1, <1>2, <1>3, <1>4, <1>5, <1>6

LEMMA NewestIs ==
  ASSUME NEW n \in Nat, NEW Q \in SUBSET (1..n), Q # {}
  PROVE  Newest(Q) \in Q
<1>1. PICK q \in Q : \A p \in Q : p <= q
  BY LargestExists
<1>2. QED
  BY <1>1 DEF Newest

(* A cell that is chosen for a return is promised to nobody.                *)
LEMMA ChosenIsFree ==
  ASSUME RowTypes, NEW u \in Units, ReturnCell(u) # NoCell
  PROVE  ReturnCell(u) \in Cells /\ LiveOn(ReturnCell(u)) = {}
<1>1. ASSUME NEW C, NEW c \in C, C \subseteq {d \in Cells : LiveOn(d) = {}}
      PROVE c \in Cells /\ LiveOn(c) = {}
  BY <1>1
<1>2. CASE HomeCell(u) # {}
  <2>1. ReturnCell(u) \in HomeCell(u)
    BY <1>2 DEF ReturnCell
  <2>2. HomeCell(u) \subseteq {d \in Cells : LiveOn(d) = {}}
    BY DEF HomeCell
  <2>3. QED
    BY <1>1, <2>1, <2>2
<1>3. CASE HomeCell(u) = {} /\ VacantCells # {}
  <2>1. VacantCells \subseteq {d \in Cells : LiveOn(d) = {}}
    BY DEF VacantCells
  <2>2. VacantCells \in SUBSET Nat
    BY <2>1, ReturnsAssumption
  <2>3. \E c \in VacantCells : \A d \in VacantCells : c <= d
    BY <1>3, <2>2, SmallestExists
  <2>4. ReturnCell(u) \in VacantCells
    BY <1>3, <2>3 DEF ReturnCell
  <2>5. QED
    BY <1>1, <2>1, <2>4
<1>4. CASE HomeCell(u) = {} /\ VacantCells = {} /\ LegacyCells(u) # {}
  <2> DEFINE C == LegacyCells(u)
             I == {i \in DOMAIN taken[u] : taken[u][i] \in C}
  <2>1. taken[u] \in Seq(Cells)
    BY DEF RowTypes
  <2>2. C \subseteq {d \in Cells : LiveOn(d) = {}}
    BY <2>1 DEF LegacyCells
  <2>3. I \in SUBSET (1..Len(taken[u])) /\ I # {} /\ Len(taken[u]) \in Nat
    BY <1>4, <2>1 DEF LegacyCells
  <2>4. PICK i \in I : \A j \in I : j <= i
    BY <2>3, LargestExists
  <2>5. \E k \in DOMAIN taken[u] :
          taken[u][k] \in C /\ \A j \in DOMAIN taken[u] : taken[u][j] \in C => j <= k
    BY <2>4
  <2>6. LastTakenFrom(u, C) \in C
    BY <2>5 DEF LastTakenFrom
  <2>7. ReturnCell(u) = LastTakenFrom(u, C)
    BY <1>4 DEF ReturnCell
  <2>8. QED
    BY <1>1, <2>2, <2>6, <2>7
<1>5. QED
  BY <1>2, <1>3, <1>4 DEF ReturnCell

LEMMA NewestLive ==
  ASSUME RowTypes
  PROVE  /\ \A c : LiveOn(c) # {} => Newest(LiveOn(c)) \in LiveOn(c)
         /\ \A r : LiveOf(r) # {} => Newest(LiveOf(r)) \in LiveOf(r)
<1>1. Len(reqs) \in Nat /\ DOMAIN reqs = 1..Len(reqs)
  BY DEF RowTypes
<1>2. \A c : LiveOn(c) \in SUBSET (1..Len(reqs))
  BY <1>1 DEF LiveOn
<1>3. \A r : LiveOf(r) \in SUBSET (1..Len(reqs))
  BY <1>1 DEF LiveOf
<1>4. QED
  BY <1>1, <1>2, <1>3, NewestIs

LEMMA ClosedIs ==
  ASSUME NEW old \in Req, NEW v
  PROVE  [old EXCEPT !.status = "COMPLETED", !.by = v]
           = [r |-> old.r, cell |-> old.cell, status |-> "COMPLETED",
              late |-> old.late, opened |-> old.opened, by |-> v,
              chosen |-> old.chosen]
<1> DEFINE new == [old EXCEPT !.status = "COMPLETED", !.by = v]
<1>1. new \in [r : {old.r}, cell : {old.cell}, status : {"COMPLETED"},
               late : {old.late}, opened : {old.opened}, by : {v},
               chosen : {old.chosen}]
  BY DEF Req
<1> HIDE DEF new
<1>2. new = [r |-> old.r, cell |-> old.cell, status |-> "COMPLETED",
             late |-> old.late, opened |-> old.opened, by |-> v,
             chosen |-> old.chosen]
  BY <1>1
<1>3. QED
  BY <1>2 DEF new

LEMMA CompleteTypes ==
  ASSUME RowTypes, NEW q \in DOMAIN reqs, NEW v \in Nat, Complete(q, v)
  PROVE  /\ RowTypes' /\ Keeps(reqs', reqs)
         /\ reqs'[q].by = v
         /\ \A p \in DOMAIN reqs \ {q} : reqs'[p] = reqs[p]
<1> DEFINE old == reqs[q]
           new == [r |-> old.r, cell |-> old.cell, status |-> "COMPLETED",
                   late |-> old.late, opened |-> old.opened, by |-> v,
                   chosen |-> old.chosen]
<1>1. old \in Req
  BY DEF RowTypes
<1>2. new \in Req
  BY <1>1 DEF Req
<1>3. reqs' = [reqs EXCEPT ![q] = new]
  <2>1. new = [old EXCEPT !.status = "COMPLETED", !.by = v]
    BY <1>1, ClosedIs
  <2>2. reqs' = [reqs EXCEPT ![q].status = "COMPLETED", ![q].by = v]
    BY DEF Complete
  <2> HIDE DEF new
  <2>3. QED
    BY <2>1, <2>2
<1>4. reqs' \in Seq(Req) /\ Len(reqs') = Len(reqs) /\ reqs'[q] = new
  <2> HIDE DEF new
  <2>1. QED
    BY <1>2, <1>3 DEF RowTypes
<1>5. \A p \in DOMAIN reqs \ {q} : reqs'[p] = reqs[p]
  BY <1>3
<1>6. Keeps(reqs', reqs)
  BY <1>4, <1>5 DEF Keeps
<1>7. old.r \in Rentals /\ old.cell \in Cells /\ UnitOf[old.r] \in Units
  BY <1>1, ReturnsAssumption DEF Req
<1>8. /\ rental' = [rental EXCEPT ![old.r] = "completed"]
      /\ unit' = [unit EXCEPT ![UnitOf[old.r]] = "AWAITING"]
      /\ at' = [at EXCEPT ![UnitOf[old.r]] = old.cell]
      /\ cell' = [cell EXCEPT ![old.cell] = "OCCUPIED"]
      /\ taken' = taken
  BY DEF Complete
<1>9. RowTypes'
  <2>1. rental' \in [Rentals -> Statuses]
    BY <1>7, <1>8 DEF RowTypes, Statuses
  <2>2. unit' \in [Units -> {"RENTED"} \cup Present]
    BY <1>7, <1>8 DEF RowTypes, Present
  <2>3. at' \in [Units -> Cells \cup {NoCell}] /\ cell' \in [Cells -> CellStates]
    BY <1>7, <1>8 DEF RowTypes, CellStates
  <2>4. QED
    BY <1>4, <1>8, <2>1, <2>2, <2>3 DEF RowTypes
<1>10. QED
  BY <1>4, <1>5, <1>6, <1>9

(* The unit of a return that completes waits for the operator.              *)
LEMMA CompleteHeld ==
  ASSUME RowTypes, Held(budget, rental, unit, starts, session),
         Chosen(starts, reqs), budget' = budget, starts' = starts,
         session' = session, budget.shared \/ session.op # "tick",
         NEW q \in DOMAIN reqs, Live(q), NEW v \in Nat, Complete(q, v)
  PROVE  Held(budget', rental', unit', starts', session')
<1>1. SUFFICES ASSUME ~budget.shared
               PROVE  Held(budget, rental', unit', starts, session)
  BY DEF Held
<1> DEFINE r == reqs[q].r
<1>2. r \in Rentals /\ UnitOf \in [Rentals -> Units]
  <2>1. reqs[q] \in Req
    BY DEF RowTypes
  <2>2. QED
    BY <2>1, ReturnsAssumption DEF Req
<1>3. /\ rental' = [rental EXCEPT ![r] = "completed"]
      /\ unit' = [unit EXCEPT ![UnitOf[r]] = "AWAITING"]
  BY DEF Complete
<1>4. \A t \in Rentals : /\ rental'[t] = IF t = r THEN "completed" ELSE rental[t]
                         /\ unit'[UnitOf[t]] # "AVAILABLE" \/ unit'[UnitOf[t]] = unit[UnitOf[t]]
  BY <1>2, <1>3 DEF RowTypes
<1>5. \A x \in starts : x.r \in Rentals
  BY DEF Chosen
<1>6. QED
  BY <1>1, <1>4, <1>5 DEF Held, Unfinished

-----------------------------------------------------------------------------
(* The steps.  A step that makes no request is looked at for what it changes *)
(* of the requests, and for what it changes of the rentals and units.       *)

SameLimits ==
  budget' \in Bounds /\ budget'.shared = budget.shared /\ budget'.slow = budget.slow

LEMMA Spends ==
  ASSUME budget \in Bounds,
         \/ budget.acts > 0 /\ budget' = [budget EXCEPT !.acts = @ - 1]
         \/ budget.visits > 0 /\ budget' = [budget EXCEPT !.visits = @ - 1]
         \/ budget.resets > 0 /\ budget' = [budget EXCEPT !.resets = @ - 1]
         \/ budget.returns > 0 /\ budget' = [budget EXCEPT !.returns = @ - 1]
         \/ budget' = budget
  PROVE  SameLimits
<1>1. ASSUME budget.acts > 0, budget' = [budget EXCEPT !.acts = @ - 1] PROVE SameLimits
  BY <1>1 DEF Bounds, SameLimits
<1>2. ASSUME budget.visits > 0, budget' = [budget EXCEPT !.visits = @ - 1] PROVE SameLimits
  BY <1>2 DEF Bounds, SameLimits
<1>3. ASSUME budget.resets > 0, budget' = [budget EXCEPT !.resets = @ - 1] PROVE SameLimits
  BY <1>3 DEF Bounds, SameLimits
<1>4. ASSUME budget.returns > 0, budget' = [budget EXCEPT !.returns = @ - 1] PROVE SameLimits
  <2>1. budget.returns \in 0..MaxReturns /\ MaxReturns \in Nat
    BY ReturnsAssumption DEF Bounds
  <2>2. budget.returns - 1 \in 0..MaxReturns
    BY <1>4, <2>1
  <2>3. QED
    BY <1>4, <2>2 DEF Bounds, SameLimits
<1>5. QED
  BY <1>1, <1>2, <1>3, <1>4 DEF SameLimits

LEMMA KeptRequests ==
  ASSUME Requested, RowTypes', LockerTypes', Keeps(reqs', reqs),
         starts' \subseteq starts \/ Chosen(starts', reqs'),
         session' = session \/ Carries(session'),
         door' = door \/ Opened(door', reqs'),
         mail' \subseteq mail \/ Sent(mail', reqs'),
         ByOwnDoor(budget', reqs')
  PROVE  Requested'
<1>1. reqs \in Seq(Req)
  BY DEF Requested, RowTypes
<1>2. Accepts(reqs')
  BY <1>1, KeepsFacts DEF Requested
<1>3. Carries(session') /\ Chosen(starts', reqs')
  <2>1. Chosen(starts, reqs')
    BY <1>1, KeepsFacts DEF Requested
  <2>2. Chosen(starts', reqs')
    BY <2>1 DEF Chosen
  <2>3. QED
    BY <2>2 DEF Requested, Carries
<1>4. Opened(door', reqs')
  BY <1>1, KeepsFacts DEF Requested
<1>5. Sent(mail', reqs')
  <2>1. Sent(mail, reqs')
    BY <1>1, KeepsFacts DEF Requested
  <2>2. QED
    BY <2>1 DEF Sent
<1>6. QED
  BY <1>2, <1>3, <1>4, <1>5 DEF Requested

LEMMA SameRequests ==
  ASSUME Requested, RowTypes', LockerTypes', reqs' = reqs, SameLimits,
         starts' \subseteq starts \/ Chosen(starts', reqs'),
         session' = session \/ Carries(session'),
         door' = door \/ Opened(door', reqs'),
         mail' \subseteq mail \/ Sent(mail', reqs')
  PROVE  Requested'
<1>1. Keeps(reqs', reqs)
  BY DEF Keeps, Requested, RowTypes
<1>2. ByOwnDoor(budget', reqs')
  BY DEF Requested, SameLimits, ByOwnDoor
<1>3. QED
  BY <1>1, <1>2, KeptRequests

LEMMA StartReturnCustody ==
  ASSUME Custody, NEW r \in Rentals, StartReturn(r)
  PROVE  Custody'
<1> DEFINE c == ReturnCell(UnitOf[r])
           x == [n |-> budget.returns, r |-> r, chosen |-> Len(reqs), cell |-> c]
<1>1. /\ starts' = starts \cup {x} /\ rental[r] = "active" /\ c # NoCell
      /\ budget.returns > 0 /\ budget' = [budget EXCEPT !.returns = @ - 1]
      /\ UNCHANGED <<rental, unit, at, taken, cell, reqs, session, keypad, assigned,
                     door, item, mail>>
  BY DEF StartReturn, rows, locker, hands
<1>2. Requested /\ RowTypes /\ LockerTypes
  BY DEF Custody, Requested
<1>3. c \in Cells /\ LiveOn(c) = {}
  BY <1>1, <1>2, ChosenIsFree, ReturnsAssumption
<1>4. x.r = r /\ x.cell = c /\ x.chosen = Len(reqs) /\ Len(reqs) \in Nat
  BY <1>2 DEF RowTypes
<1> HIDE DEF x, c
<1>5. Chosen(starts', reqs)
  <2>1. \A q \in DOMAIN reqs : reqs[q].status = "CREATED" => reqs[q].cell # c
    BY <1>3 DEF LiveOn, Live, ActiveReturn
  <2>2. QED
    BY <1>1, <1>2, <1>3, <1>4, <2>1 DEF Chosen, Requested
<1>6. SameLimits
  BY <1>1, <1>2, Spends DEF LockerTypes
<1>7. RowTypes' /\ LockerTypes'
  BY <1>1, <1>2, <1>6 DEF RowTypes, LockerTypes, SameLimits
<1>8. Requested'
  BY <1>1, <1>2, <1>5, <1>6, <1>7, SameRequests
<1>9. Held(budget, rental, unit, starts', session)
  BY <1>1, <1>4 DEF Custody, Held, Unfinished
<1>10. QED
  BY <1>1, <1>6, <1>8, <1>9 DEF Custody, SameLimits, Held

LEMMA ReturnRefusedCustody ==
  ASSUME Custody, NEW s, ReturnRefused(s)
  PROVE  Custody'
<1>1. /\ starts' \subseteq starts
      /\ UNCHANGED <<rental, unit, at, taken, cell, reqs, session, keypad, assigned,
                     door, item, mail, budget>>
  BY DEF ReturnRefused, rows, locker, hands
<1>2. Requested /\ RowTypes /\ LockerTypes
  BY DEF Custody, Requested
<1>3. RowTypes' /\ LockerTypes' /\ SameLimits
  BY <1>1, <1>2 DEF RowTypes, LockerTypes, SameLimits
<1>4. Requested'
  BY <1>1, <1>2, <1>3, SameRequests
<1>5. Held(budget, rental, unit, starts', session)
  BY <1>1 DEF Custody, Held
<1>6. QED
  BY <1>1, <1>4, <1>5 DEF Custody

(* The new request is the newest of all.  Those that are live on its cell    *)
(* were not there when the cell was chosen.                                 *)
LEMMA ReturnStartedCustody ==
  ASSUME Custody, NEW s, ReturnStarted(s)
  PROVE  Custody'
<1> DEFINE r == s.r
           c == s.cell
           n == Len(reqs) + 1
           new == [r |-> r, cell |-> c, status |-> "CREATED",
                   late |-> FALSE, opened |-> FALSE, by |-> 0, chosen |-> s.chosen]
<1>1. /\ s \in starts /\ Len(reqs) < MaxReturns /\ starts' \subseteq starts
      /\ rental' = [rental EXCEPT ![r] = "returning"]
      /\ unit' = [unit EXCEPT ![UnitOf[r]] = "RETURN_PENDING"]
      /\ cell' = [cell EXCEPT ![c] = "RESERVED"]
      /\ reqs' = Append(reqs, new)
      /\ keypad' = [keypad EXCEPT ![c] = n] \/ keypad' = keypad
      /\ assigned' = [assigned EXCEPT ![c] = TRUE]
      /\ UNCHANGED <<at, taken, session, door, item, mail, budget>>
  BY DEF ReturnStarted, hands
<1>2. Requested /\ RowTypes /\ LockerTypes
  BY DEF Custody, Requested
<1>3. /\ r \in Rentals /\ c \in Cells /\ s.chosen \in 0..Len(reqs)
      /\ \A q \in DOMAIN reqs :
           reqs[q].status = "CREATED" /\ reqs[q].cell = c => s.chosen < q
  BY <1>1, <1>2 DEF Requested, Chosen
<1>4. new \in Req /\ UnitOf[r] \in Units /\ n \in 1..MaxReturns
  BY <1>1, <1>2, <1>3, ReturnsAssumption DEF Req, RowTypes
<1>5. new.r = r /\ new.cell = c /\ new.status = "CREATED" /\ new.by = 0
      /\ new.chosen = s.chosen
  OBVIOUS
<1> HIDE DEF new
<1>6. /\ reqs' \in Seq(Req) /\ Len(reqs') = n /\ DOMAIN reqs' = 1..n
      /\ DOMAIN reqs = 1..(n - 1)
      /\ \A q \in DOMAIN reqs : q \in DOMAIN reqs' /\ reqs'[q] = reqs[q] /\ q < n
      /\ reqs'[n] = new
  BY <1>1, <1>2, <1>4 DEF RowTypes
<1>7. RowTypes' /\ LockerTypes'
  <2>1. rental' \in [Rentals -> Statuses] /\ cell' \in [Cells -> CellStates]
    BY <1>1, <1>2, <1>3 DEF RowTypes, Statuses, CellStates
  <2>2. unit' \in [Units -> {"RENTED"} \cup Present]
    BY <1>1, <1>2, <1>4 DEF RowTypes, Present
  <2>3. keypad' \in [Cells -> 0..MaxReturns] /\ assigned' \in [Cells -> BOOLEAN]
    <3>1. n \in 0..MaxReturns
      BY <1>4, ReturnsAssumption
    <3>2. [keypad EXCEPT ![c] = n] \in [Cells -> 0..MaxReturns]
      BY <1>2, <3>1 DEF LockerTypes
    <3>3. keypad' \in [Cells -> 0..MaxReturns]
      BY <1>1, <1>2, <3>2 DEF LockerTypes
    <3>4. QED
      BY <1>1, <1>2, <3>3 DEF LockerTypes
  <2>4. QED
    BY <1>1, <1>2, <1>4, <1>6, <2>1, <2>2, <2>3 DEF RowTypes, LockerTypes
<1>8. Accepts(reqs')
  <2>1. SUFFICES ASSUME NEW q \in 1..n, reqs'[q].status = "CREATED", NEW p \in 1..n,
                        reqs'[p].cell = reqs'[q].cell
                 PROVE  p <= q \/ Overlap(reqs', q, p)
    BY <1>6 DEF Accepts
  <2>2. CASE q = n
    BY <1>4, <2>2
  <2>3. CASE q # n /\ p = n
    <3>1. q \in DOMAIN reqs /\ reqs[q].status = "CREATED" /\ reqs[q].cell = c
      BY <1>5, <1>6, <2>1, <2>3
    <3>2. s.chosen < q
      BY <1>3, <3>1
    <3>3. QED
      BY <1>5, <1>6, <2>3, <3>1, <3>2 DEF Overlap
  <2>4. CASE q # n /\ p # n
    <3>1. q \in DOMAIN reqs /\ p \in DOMAIN reqs
      BY <1>6, <2>4
    <3>2. p <= q \/ Overlap(reqs, q, p)
      BY <1>2, <1>6, <2>1, <3>1 DEF Requested, Accepts
    <3>3. QED
      BY <1>6, <3>1, <3>2 DEF Overlap
  <2>5. QED
    BY <2>2, <2>3, <2>4
<1>9. Opened(door, reqs') /\ Sent(mail, reqs') /\ ByOwnDoor(budget, reqs')
  BY <1>2, <1>5, <1>6 DEF Requested, Opened, Sent, ByOwnDoor, Overlap
<1>10. Chosen(starts', reqs')
  <2>1. SUFFICES ASSUME NEW x \in starts
                 PROVE  /\ x.r \in Rentals /\ x.cell \in Cells /\ x.chosen \in 0..n
                        /\ \A q \in 1..n :
                             reqs'[q].status = "CREATED" /\ reqs'[q].cell = x.cell => x.chosen < q
    BY <1>1, <1>6 DEF Chosen
  <2>2. /\ x.r \in Rentals /\ x.cell \in Cells /\ x.chosen \in 0..Len(reqs)
        /\ \A q \in DOMAIN reqs :
             reqs[q].status = "CREATED" /\ reqs[q].cell = x.cell => x.chosen < q
    BY <1>2 DEF Requested, Chosen
  <2>3. Len(reqs) \in Nat
    BY <1>2 DEF RowTypes
  <2>4. x.chosen \in 0..n /\ x.chosen < n
    BY <2>2, <2>3
  <2>5. QED
    BY <1>6, <2>2, <2>4
<1>11. Held(budget, rental', unit', starts', session)
  <2>1. SUFFICES ASSUME ~budget.shared
                 PROVE  Held(budget, rental', unit', starts, session)
    BY <1>1 DEF Held
  <2>2. /\ unit[UnitOf[r]] # "AVAILABLE"
        /\ \A t \in Rentals : rental[t] \in Unfinished /\ UnitOf[t] = UnitOf[r] => t = r
    BY <1>1, <2>1 DEF Custody, Held
  <2>3. \A t \in Rentals :
          /\ rental'[t] = IF t = r THEN "returning" ELSE rental[t]
          /\ unit'[UnitOf[t]] # "AVAILABLE" \/ unit'[UnitOf[t]] = unit[UnitOf[t]]
    BY <1>1, <1>2, <1>3, <1>4, ReturnsAssumption DEF RowTypes
  <2>4. \A t, v \in Rentals :
          rental'[t] \in Unfinished /\ rental'[v] \in Unfinished /\ UnitOf[t] = UnitOf[v] => t = v
    BY <2>1, <2>2, <2>3 DEF Custody, Held
  <2>5. \A t \in Rentals : rental'[t] \in Unfinished => unit'[UnitOf[t]] # "AVAILABLE"
    BY <2>1, <2>2, <2>3 DEF Custody, Held
  <2>6. ASSUME NEW x \in starts
        PROVE  /\ unit'[UnitOf[x.r]] # "AVAILABLE"
               /\ \A t \in Rentals :
                    rental'[t] \in Unfinished /\ UnitOf[t] = UnitOf[x.r] => t = x.r
               /\ \A y \in starts : UnitOf[y.r] = UnitOf[x.r] => y.r = x.r
    <3>1. x.r \in Rentals
      BY <1>2 DEF Requested, Chosen
    <3>2. /\ unit[UnitOf[x.r]] # "AVAILABLE"
          /\ \A t \in Rentals : rental[t] \in Unfinished /\ UnitOf[t] = UnitOf[x.r] => t = x.r
          /\ \A y \in starts : UnitOf[y.r] = UnitOf[x.r] => y.r = x.r
      BY <2>1 DEF Custody, Held
    <3>3. UnitOf[r] = UnitOf[x.r] => r = x.r
      BY <1>1, <3>2
    <3>4. QED
      BY <2>3, <3>1, <3>2, <3>3
  <2>7. session.op = "tick" => \A t \in Rentals : t \in session.shut => rental'[t] = "returning"
    BY <2>1, <2>3 DEF Custody, Held
  <2>8. QED
    BY <2>4, <2>5, <2>6, <2>7 DEF Held
<1>12. QED
  BY <1>1, <1>2, <1>7, <1>8, <1>9, <1>10, <1>11 DEF Custody, Requested

LEMMA ConfirmReturnCustody ==
  ASSUME Custody, budget.shared \/ session.op # "tick", NEW r \in Rentals, ConfirmReturn(r)
  PROVE  Custody'
<1> DEFINE q == Newest(LiveOf(r))
<1>1. /\ LiveOf(r) # {} /\ Complete(q, 0)
      /\ UNCHANGED <<starts, session, keypad, assigned, door, item, mail, budget>>
  BY DEF ConfirmReturn, locker, hands
<1>2. Requested /\ RowTypes /\ LockerTypes
  BY DEF Custody, Requested
<1>3. q \in DOMAIN reqs /\ Live(q)
  BY <1>1, <1>2, NewestLive DEF Requested, LiveOf
<1> HIDE DEF q
<1>4. /\ RowTypes' /\ Keeps(reqs', reqs) /\ reqs'[q].by = 0
      /\ \A p \in DOMAIN reqs \ {q} : reqs'[p] = reqs[p]
  BY <1>1, <1>2, <1>3, CompleteTypes
<1>5. ByOwnDoor(budget, reqs')
  <2>1. /\ DOMAIN reqs' = DOMAIN reqs
        /\ \A p, v : Overlap(reqs, p, v) => Overlap(reqs', p, v)
    BY <1>2, <1>4, KeepsFacts DEF RowTypes
  <2>2. QED
    BY <1>2, <1>4, <2>1 DEF Requested, ByOwnDoor
<1>6. Requested'
  BY <1>1, <1>2, <1>4, <1>5, KeptRequests DEF LockerTypes
<1>7. Held(budget', rental', unit', starts', session')
  BY <1>1, <1>2, <1>3, CompleteHeld DEF Custody, Requested
<1>8. QED
  BY <1>6, <1>7 DEF Custody

(* The live request of the cell is the newest on it; the visit is on the     *)
(* cell too, and in time: it is no older.                                   *)
LEMMA WebhookCustody ==
  ASSUME Custody, budget.shared \/ session.op # "tick", NEW e \in mail, Webhook(e)
  PROVE  Custody'
<1>1. /\ InTime(e) /\ mail' \subseteq mail
      /\ UNCHANGED <<starts, session, keypad, assigned, door, item, budget>>
  BY DEF Webhook, locker, hands
<1>2. Requested /\ RowTypes /\ LockerTypes
  BY DEF Custody, Requested
<1>3. /\ e.kind \in {"open", "occupied", "vacant", "closed"}
      /\ e.cell \in Cells /\ e.visit \in DOMAIN reqs /\ reqs[e.visit].cell = e.cell
  BY <1>2 DEF Requested, Sent
<1>4. CASE e.kind \in {"occupied", "closed"} /\ LiveOn(e.cell) # {}
  <2> DEFINE q == Newest(LiveOn(e.cell))
  <2>1. Complete(q, e.visit)
    BY <1>4 DEF Webhook
  <2>2. q \in DOMAIN reqs /\ Live(q) /\ reqs[q].cell = e.cell
    BY <1>2, <1>4, NewestLive DEF Requested, LiveOn
  <2> HIDE DEF q
  <2>3. e.visit \in Nat /\ q \in Nat
    BY <1>2, <1>3, <2>2 DEF RowTypes
  <2>4. e.visit <= q \/ Overlap(reqs, q, e.visit)
    BY <1>2, <1>3, <2>2 DEF Requested, Accepts, Live, ActiveReturn
  <2>5. ~budget.slow => ~(q > e.visit)
    BY <1>1, <2>2 DEF InTime
  <2>6. /\ RowTypes' /\ Keeps(reqs', reqs) /\ reqs'[q].by = e.visit
        /\ \A p \in DOMAIN reqs \ {q} : reqs'[p] = reqs[p]
    BY <1>2, <2>1, <2>2, <2>3, CompleteTypes
  <2>7. ~budget.slow => e.visit = q \/ Overlap(reqs, q, e.visit)
    BY <2>3, <2>4, <2>5
  <2>8. ByOwnDoor(budget, reqs')
    <3>1. /\ DOMAIN reqs' = DOMAIN reqs
          /\ \A p, v : Overlap(reqs, p, v) => Overlap(reqs', p, v)
      BY <1>2, <2>6, KeepsFacts DEF RowTypes
    <3>2. QED
      BY <1>2, <2>6, <2>7, <3>1 DEF Requested, ByOwnDoor
  <2>9. Requested'
    BY <1>1, <1>2, <2>6, <2>8, KeptRequests DEF LockerTypes
  <2>10. Held(budget', rental', unit', starts', session')
    BY <1>1, <1>2, <2>1, <2>2, <2>3, CompleteHeld DEF Custody, Requested
  <2>11. QED
    BY <2>9, <2>10 DEF Custody
<1>5. CASE ~(e.kind \in {"occupied", "closed"} /\ LiveOn(e.cell) # {})
  <2> DEFINE touched(q) == e.kind = "open" /\ reqs[q].cell = e.cell
  <2>1. /\ cell' = [cell EXCEPT ![e.cell] = StatusAfter(e)]
        /\ reqs' = [q \in DOMAIN reqs |->
                      IF touched(q) THEN [reqs[q] EXCEPT !.opened = TRUE] ELSE reqs[q]]
        /\ UNCHANGED <<rental, unit, at, taken>>
    BY <1>5 DEF Webhook
  <2>2. StatusAfter(e) \in CellStates
    BY <1>2, <1>3 DEF StatusAfter, CellStates, RowTypes
  <2>3. \A q \in DOMAIN reqs :
          /\ reqs'[q] \in Req /\ reqs'[q].r = reqs[q].r /\ reqs'[q].cell = reqs[q].cell
          /\ reqs'[q].status = reqs[q].status /\ reqs'[q].by = reqs[q].by
          /\ reqs'[q].chosen = reqs[q].chosen
    <3>1. \A q \in DOMAIN reqs : reqs[q] \in Req
      BY <1>2 DEF RowTypes
    <3>2. QED
      BY <2>1, <3>1 DEF Req
  <2> HIDE DEF touched
  <2>4. reqs' \in Seq(Req) /\ Len(reqs') = Len(reqs)
    <3>1. reqs' \in [1..Len(reqs) -> Req] /\ Len(reqs) \in Nat
      BY <1>2, <2>1, <2>3 DEF RowTypes
    <3>2. QED
      BY <3>1, IsSeq
  <2>5. Keeps(reqs', reqs) /\ ByOwnDoor(budget, reqs')
    BY <1>2, <2>1, <2>3, <2>4 DEF Keeps, Requested, ByOwnDoor, Overlap
  <2>6. RowTypes'
    BY <1>2, <1>3, <2>1, <2>2, <2>4 DEF RowTypes
  <2>7. Requested'
    BY <1>1, <1>2, <2>5, <2>6, KeptRequests DEF LockerTypes
  <2>8. QED
    BY <1>1, <2>1, <2>7 DEF Custody
<1>6. QED
  BY <1>4, <1>5

-----------------------------------------------------------------------------
(* The locker and the client's hands *)

LEMMA DeadlinePassesCustody ==
  ASSUME Custody, NEW q, DeadlinePasses(q)
  PROVE  Custody'
<1>1. /\ q \in DOMAIN reqs /\ reqs' = [reqs EXCEPT ![q].late = TRUE]
      /\ UNCHANGED <<rental, unit, at, taken, cell, starts, session, keypad, assigned, door,
                     item, mail, budget>>
  BY DEF DeadlinePasses, locker, hands
<1>2. Requested /\ RowTypes /\ LockerTypes
  BY DEF Custody, Requested
<1>3. \A p \in DOMAIN reqs :
        /\ reqs'[p] \in Req /\ reqs'[p].r = reqs[p].r /\ reqs'[p].cell = reqs[p].cell
        /\ reqs'[p].status = reqs[p].status /\ reqs'[p].by = reqs[p].by
        /\ reqs'[p].chosen = reqs[p].chosen
  <2>1. \A p \in DOMAIN reqs : reqs[p] \in Req
    BY <1>2 DEF RowTypes
  <2>2. QED
    BY <1>1, <2>1 DEF Req
<1>4. reqs' \in Seq(Req) /\ Len(reqs') = Len(reqs)
  <2> DEFINE x == [reqs[q] EXCEPT !.late = TRUE]
  <2>1. reqs' = [reqs EXCEPT ![q] = x]
    BY <1>1
  <2> HIDE DEF x
  <2>2. x \in Req
    BY <1>1, <1>3, <2>1
  <2>3. reqs \in Seq(Req) /\ q \in DOMAIN reqs
    BY <1>1, <1>2 DEF RowTypes
  <2>4. QED
    BY <2>1, <2>2, <2>3
<1>5. Keeps(reqs', reqs) /\ ByOwnDoor(budget, reqs')
  BY <1>1, <1>2, <1>3, <1>4 DEF Keeps, Requested, ByOwnDoor, Overlap
<1>6. RowTypes' /\ LockerTypes'
  BY <1>1, <1>2, <1>4 DEF RowTypes, LockerTypes
<1>7. Requested'
  BY <1>1, <1>2, <1>5, <1>6, KeptRequests
<1>8. QED
  BY <1>1, <1>7 DEF Custody

LEMMA OpenWithCodeCustody ==
  ASSUME Custody, NEW q, OpenWithCode(q)
  PROVE  Custody'
<1> DEFINE c == reqs[q].cell
           e == [id |-> events, cell |-> c, kind |-> "open", visit |-> q]
<1>1. /\ q \in DOMAIN reqs /\ budget.visits > 0
      /\ budget' = [budget EXCEPT !.visits = @ - 1]
      /\ door' = [door EXCEPT ![c] = q] /\ mail' = mail \cup {e}
      /\ UNCHANGED <<rental, unit, at, taken, cell, reqs, starts, session, keypad, assigned, item>>
  <2>1. q \in DOMAIN reqs /\ budget.visits > 0 /\ door' = [door EXCEPT ![c] = q]
    BY DEF OpenWithCode
  <2>2. budget' = [budget EXCEPT !.visits = @ - 1] /\ mail' = mail \cup {e}
    BY DEF OpenWithCode, Send
  <2>3. UNCHANGED <<rental, unit, at, taken, cell, reqs, starts, session, keypad, assigned, item>>
    BY DEF OpenWithCode, rows, locker
  <2>4. QED
    BY <2>1, <2>2, <2>3
<1>2. Requested /\ RowTypes /\ LockerTypes
  BY DEF Custody, Requested
<1>3. c \in Cells /\ q \in 1..MaxReturns
  <2>1. reqs[q] \in Req
    BY <1>1, <1>2 DEF RowTypes
  <2>2. q \in 1..Len(reqs) /\ Len(reqs) \in Nat /\ Len(reqs) <= MaxReturns
    BY <1>1, <1>2 DEF RowTypes
  <2>3. c \in Cells
    BY <2>1 DEF Req
  <2>4. QED
    BY <2>2, <2>3, ReturnsAssumption
<1>4. SameLimits
  BY <1>1, <1>2, Spends DEF LockerTypes
<1>5. RowTypes' /\ LockerTypes'
  BY <1>1, <1>2, <1>3, <1>4 DEF RowTypes, LockerTypes, SameLimits
<1>6. Opened(door', reqs)
  BY <1>1, <1>2, <1>3 DEF Opened, Requested, LockerTypes
<1>7. Sent(mail', reqs)
  BY <1>1, <1>2, <1>3 DEF Sent, Requested
<1>8. Requested'
  BY <1>1, <1>2, <1>4, <1>5, <1>6, <1>7, SameRequests
<1>9. QED
  BY <1>1, <1>4, <1>8 DEF Custody, SameLimits, Held

LEMMA CloseDoorCustody ==
  ASSUME Custody, NEW c \in Cells, NEW put \in BOOLEAN, CloseDoor(c, put)
  PROVE  Custody'
<1> DEFINE q == door[c]
           u == UnitOf[reqs[q].r]
<1>1. /\ q # 0 /\ door' = [door EXCEPT ![c] = 0]
      /\ item' = [item EXCEPT ![u] = IF put THEN "inside" ELSE @]
      /\ UNCHANGED <<rental, unit, at, taken, cell, reqs, starts, session, keypad, assigned, budget>>
  BY DEF CloseDoor, rows, locker
<1>2. PICK kind \in {"occupied", "vacant", "closed"} :
        mail' = mail \cup {[id |-> events, cell |-> c, kind |-> kind, visit |-> q]}
  BY DEF CloseDoor, Send
<1>3. Requested /\ RowTypes /\ LockerTypes
  BY DEF Custody, Requested
<1>4. q \in DOMAIN reqs /\ reqs[q].cell = c
  BY <1>1, <1>3 DEF Requested, Opened
<1>5. u \in Units
  <2>1. reqs[q] \in Req
    BY <1>3, <1>4 DEF RowTypes
  <2>2. QED
    BY <2>1, ReturnsAssumption DEF Req
<1>6. RowTypes' /\ LockerTypes' /\ SameLimits
  <2>1. item' \in [Units -> {"client", "inside", "office"}]
    BY <1>1, <1>3, <1>5 DEF LockerTypes
  <2>2. door' \in [Cells -> 0..MaxReturns]
    BY <1>1, <1>3, ReturnsAssumption DEF LockerTypes
  <2>3. QED
    BY <1>1, <1>3, <2>1, <2>2 DEF RowTypes, LockerTypes, SameLimits
<1>7. Opened(door', reqs)
  BY <1>1, <1>3 DEF Opened, Requested, LockerTypes
<1>8. Sent(mail', reqs)
  BY <1>2, <1>3, <1>4 DEF Sent, Requested
<1>9. Requested'
  BY <1>1, <1>3, <1>6, <1>7, <1>8, SameRequests
<1>10. QED
  BY <1>1, <1>9 DEF Custody

LEMMA EventLostCustody ==
  ASSUME Custody, NEW e, EventLost(e)
  PROVE  Custody'
<1>1. /\ mail' \subseteq mail
      /\ UNCHANGED <<rental, unit, at, taken, cell, reqs, starts, session, keypad, assigned,
                     door, item, budget>>
  BY DEF EventLost, rows, locker, hands
<1>2. Requested /\ RowTypes /\ LockerTypes
  BY DEF Custody, Requested
<1>3. RowTypes' /\ LockerTypes' /\ SameLimits
  BY <1>1, <1>2 DEF RowTypes, LockerTypes, SameLimits
<1>4. Requested'
  BY <1>1, <1>2, <1>3, SameRequests
<1>5. QED
  BY <1>1, <1>4 DEF Custody

LEMMA LockerResetCustody ==
  ASSUME Custody, NEW c \in Cells, LockerReset(c)
  PROVE  Custody'
<1>1. /\ budget.resets > 0 /\ budget' = [budget EXCEPT !.resets = @ - 1]
      /\ keypad' = [keypad EXCEPT ![c] = 0] /\ assigned' = [assigned EXCEPT ![c] = FALSE]
      /\ UNCHANGED <<rental, unit, at, taken, cell, reqs, starts, session, door, item, mail>>
  BY DEF LockerReset, rows, hands
<1>2. Requested /\ RowTypes /\ LockerTypes
  BY DEF Custody, Requested
<1>3. SameLimits
  BY <1>1, <1>2, Spends DEF LockerTypes
<1>4. RowTypes' /\ LockerTypes'
  BY <1>1, <1>2, <1>3, ReturnsAssumption DEF RowTypes, LockerTypes, SameLimits
<1>5. Requested'
  BY <1>1, <1>2, <1>3, <1>4, SameRequests
<1>6. QED
  BY <1>1, <1>3, <1>5 DEF Custody, SameLimits, Held

-----------------------------------------------------------------------------
(* The worker's tick *)

LEMMA TickReadsCustody ==
  ASSUME Custody, TickReads
  PROVE  Custody'
<1> DEFINE late == {q \in DOMAIN reqs : Live(q) /\ reqs[q].late}
           back == {reqs[q].r : q \in {p \in late : rental[reqs[p].r] = "returning"}}
           lost == {UnitOf[reqs[q].r] :
                      q \in {p \in late : unit[UnitOf[reqs[p].r]] # "RETURN_PENDING"}}
           seen == [c \in Cells |-> IF \E q \in late : reqs[q].cell = c
                                    THEN cell[c] ELSE "unread"]
           s == [Quiet EXCEPT !.op = "tick", !.late = late, !.shut = back \cup lost,
                              !.seen = seen]
<1>1. /\ session' = s
      /\ UNCHANGED <<rental, unit, at, taken, cell, reqs, starts, keypad, assigned, door,
                     item, mail, budget>>
  BY DEF TickReads, rows, locker, hands
<1>2. Requested /\ RowTypes /\ LockerTypes
  BY DEF Custody, Requested
<1>3. s.op = "tick" /\ s.seen = seen /\ s.shut = back \cup lost
  BY DEF Quiet
<1>4. seen \in [Cells -> CellStates \cup {"unread"}]
  BY <1>2 DEF RowTypes
<1>5. \A q \in DOMAIN reqs : UnitOf[reqs[q].r] \in Units
  <2>1. \A q \in DOMAIN reqs : reqs[q] \in Req
    BY <1>2 DEF RowTypes
  <2>2. QED
    BY <2>1, ReturnsAssumption DEF Req
<1>6. \A t \in Rentals : t \in back \cup lost => rental[t] = "returning"
  BY <1>5, ReturnsAssumption
<1> HIDE DEF s, seen, back, lost
<1>7. Carries(s)
  BY <1>3, <1>4 DEF Carries
<1>8. RowTypes' /\ LockerTypes' /\ SameLimits
  BY <1>1, <1>2 DEF RowTypes, LockerTypes, SameLimits
<1>9. Requested'
  BY <1>1, <1>2, <1>7, <1>8, SameRequests
<1>10. Held(budget, rental, unit, starts, s)
  BY <1>3, <1>6 DEF Custody, Held
<1>11. QED
  BY <1>1, <1>9, <1>10 DEF Custody

LEMMA TickWritesCustody ==
  ASSUME Custody, NEW answered \in BOOLEAN, TickWrites(answered)
  PROVE  Custody'
<1> DEFINE Restored(c) == answered /\ Forgotten(c) # {}
           Known(c) == IF session.seen[c] = "unread" THEN cell[c] ELSE session.seen[c]
           Wanted(c) == IF Restored(c) THEN "RESERVED"
                        ELSE IF answered THEN Snapshot(c)
                        ELSE AfterDeadlines(c, Known(c))
           written(q) == [reqs[q] EXCEPT
                            !.status = IF q \in session.late THEN "FAILED" ELSE @,
                            !.opened = @ \/ (answered /\ door[reqs[q].cell] # 0)]
<1>1. /\ session.op = "tick" /\ session' = Quiet
      /\ reqs' = [q \in DOMAIN reqs |-> written(q)]
      /\ rental' = [r \in Rentals |-> IF r \in session.shut THEN "incident" ELSE rental[r]]
      /\ unit' = [u \in Units |-> IF u \in session.shut THEN "RETURN_PENDING" ELSE unit[u]]
      /\ cell' = [c \in Cells |-> IF Wanted(c) # Known(c) THEN Wanted(c) ELSE cell[c]]
      /\ keypad' \in [Cells -> 0..MaxReturns]
      /\ assigned' = [c \in Cells |-> assigned[c] \/ Restored(c)]
      /\ UNCHANGED <<at, taken, starts, door, item, mail, budget>>
  BY DEF TickWrites, hands
<1>2. Requested /\ RowTypes /\ LockerTypes
  BY DEF Custody, Requested
<1>3. session.seen \in [Cells -> CellStates \cup {"unread"}]
  BY <1>1, <1>2 DEF Requested, Carries
<1>4. \A q \in DOMAIN reqs :
        /\ written(q) \in Req /\ written(q).r = reqs[q].r /\ written(q).cell = reqs[q].cell
        /\ written(q).status = "CREATED" => reqs[q].status = "CREATED"
        /\ written(q).by = reqs[q].by /\ written(q).chosen = reqs[q].chosen
  <2>1. \A q \in DOMAIN reqs : reqs[q] \in Req
    BY <1>2 DEF RowTypes
  <2>2. QED
    BY <2>1 DEF Req
<1>5. \A c \in Cells : Known(c) \in CellStates /\ Wanted(c) \in CellStates
  BY <1>2, <1>3 DEF RowTypes, CellStates, Snapshot, AfterDeadlines
<1> HIDE DEF written, Known, Wanted, Restored
<1>6. reqs' \in Seq(Req) /\ Len(reqs') = Len(reqs) /\ DOMAIN reqs' = DOMAIN reqs
  <2>1. reqs' \in [1..Len(reqs) -> Req] /\ Len(reqs) \in Nat /\ DOMAIN reqs = 1..Len(reqs)
    BY <1>1, <1>2, <1>4 DEF RowTypes
  <2>2. QED
    BY <2>1, IsSeq
<1>7. Keeps(reqs', reqs) /\ ByOwnDoor(budget, reqs')
  <2>1. \A q \in DOMAIN reqs :
          /\ reqs'[q].r = reqs[q].r /\ reqs'[q].cell = reqs[q].cell
          /\ reqs'[q].chosen = reqs[q].chosen /\ reqs'[q].by = reqs[q].by
          /\ reqs'[q].status = "CREATED" => reqs[q].status = "CREATED"
    BY <1>1, <1>4
  <2>2. Keeps(reqs', reqs)
    BY <1>6, <2>1 DEF Keeps
  <2>3. ByOwnDoor(budget, reqs')
    BY <1>2, <1>6, <2>1 DEF Requested, ByOwnDoor, Overlap
  <2>4. QED
    BY <2>2, <2>3
<1>8. RowTypes' /\ LockerTypes'
  <2>1. rental' \in [Rentals -> Statuses] /\ cell' \in [Cells -> CellStates]
    BY <1>1, <1>2, <1>5 DEF RowTypes, Statuses
  <2>2. unit' \in [Units -> {"RENTED"} \cup Present]
    BY <1>1, <1>2 DEF RowTypes, Present
  <2>3. keypad' \in [Cells -> 0..MaxReturns]
    BY <1>1
  <2>4. assigned' \in [Cells -> BOOLEAN]
    BY <1>1, <1>2 DEF LockerTypes, Restored
  <2>5. QED
    BY <1>1, <1>2, <1>6, <2>1, <2>2, <2>3, <2>4 DEF RowTypes, LockerTypes
<1>9. Carries(Quiet)
  BY DEF Carries, Quiet
<1>10. Requested'
  BY <1>1, <1>2, <1>7, <1>8, <1>9, KeptRequests
<1>11. Held(budget, rental', unit', starts, Quiet)
  <2>1. SUFFICES ASSUME ~budget.shared
                 PROVE  Held(budget, rental', unit', starts, Quiet)
    BY DEF Held
  <2>2. \A t \in Rentals : t \in session.shut => rental[t] = "returning"
    BY <1>1, <2>1 DEF Custody, Held
  <2>3. \A t \in Rentals : rental'[t] \in Unfinished <=> rental[t] \in Unfinished
    BY <1>1, <2>2 DEF Unfinished
  <2>4. \A t \in Rentals :
          unit'[UnitOf[t]] # "AVAILABLE" \/ unit'[UnitOf[t]] = unit[UnitOf[t]]
    BY <1>1, ReturnsAssumption
  <2>5. QED
    <3>1. \A x \in starts : UnitOf[x.r] \in Units /\ x.r \in Rentals
      BY <1>2, ReturnsAssumption DEF Requested, Chosen
    <3>2. \A x \in starts :
            unit'[UnitOf[x.r]] # "AVAILABLE" \/ unit'[UnitOf[x.r]] = unit[UnitOf[x.r]]
      BY <2>4, <3>1
    <3>3. QED
      BY <2>1, <2>3, <2>4, <3>2 DEF Custody, Held, Quiet
<1>12. QED
  BY <1>1, <1>10, <1>11 DEF Custody

-----------------------------------------------------------------------------
(* The next client and the operator *)

(* A unit on offer has no unfinished rental.                                *)
LEMMA NextClientCustody ==
  ASSUME Custody, budget.shared \/ session.op # "tick", NEW r \in Rentals, NextClient(r)
  PROVE  Custody'
<1> DEFINE u == UnitOf[r]
           c == at[u]
<1>1. /\ rental[r] = "none" /\ unit[u] = "AVAILABLE" /\ c # NoCell
      /\ rental' = [rental EXCEPT ![r] = "active"]
      /\ unit' = [unit EXCEPT ![u] = "RENTED"]
      /\ taken' = [taken EXCEPT ![u] = Append(@, c)]
      /\ cell' = [cell EXCEPT ![c] = "VACANT"]
      /\ at' = [at EXCEPT ![u] = NoCell]
      /\ item' = [item EXCEPT ![u] = "client"]
      /\ keypad' = [keypad EXCEPT ![c] = 0] /\ assigned' = [assigned EXCEPT ![c] = TRUE]
      /\ UNCHANGED <<reqs, starts, session, door, mail, budget>>
  BY DEF NextClient
<1>2. Requested /\ RowTypes /\ LockerTypes
  BY DEF Custody, Requested
<1>3. u \in Units /\ c \in Cells
  BY <1>1, <1>2, ReturnsAssumption DEF RowTypes
<1>4. RowTypes' /\ LockerTypes' /\ SameLimits
  <2>1. Append(taken[u], c) \in Seq(Cells)
    BY <1>2, <1>3 DEF RowTypes
  <2>2. taken' \in [Units -> Seq(Cells)]
    BY <1>1, <1>2, <1>3, <2>1 DEF RowTypes
  <2>3. rental' \in [Rentals -> Statuses] /\ unit' \in [Units -> {"RENTED"} \cup Present]
    BY <1>1, <1>2, <1>3 DEF RowTypes, Statuses
  <2>4. cell' \in [Cells -> CellStates] /\ at' \in [Units -> Cells \cup {NoCell}]
    BY <1>1, <1>2, <1>3 DEF RowTypes, CellStates
  <2>5. LockerTypes'
    BY <1>1, <1>2, <1>3, ReturnsAssumption DEF LockerTypes
  <2>6. QED
    BY <1>1, <1>2, <2>2, <2>3, <2>4, <2>5 DEF RowTypes, LockerTypes, SameLimits
<1>5. Requested'
  BY <1>1, <1>2, <1>4, SameRequests
<1>6. Held(budget, rental', unit', starts, session)
  <2>1. SUFFICES ASSUME ~budget.shared
                 PROVE  Held(budget, rental', unit', starts, session)
    BY DEF Held
  <2>2. \A t \in Rentals : UnitOf[t] = u => rental[t] \notin Unfinished
    BY <1>1, <2>1 DEF Custody, Held
  <2>3. \A t \in Rentals :
          /\ rental'[t] = IF t = r THEN "active" ELSE rental[t]
          /\ unit'[UnitOf[t]] # "AVAILABLE" \/ unit'[UnitOf[t]] = unit[UnitOf[t]]
    BY <1>1, <1>2, <1>3, ReturnsAssumption DEF RowTypes
  <2>4. \A x \in starts : x.r \in Rentals /\ UnitOf[x.r] # u
    BY <1>1, <1>2, <2>1 DEF Custody, Held, Requested, Chosen
  <2>5. \A p, q \in Rentals :
          rental'[p] \in Unfinished /\ rental'[q] \in Unfinished /\ UnitOf[p] = UnitOf[q]
            => p = q
    BY <2>1, <2>2, <2>3 DEF Custody, Held
  <2>6. \A t \in Rentals : rental'[t] \in Unfinished => unit'[UnitOf[t]] # "AVAILABLE"
    <3>1. unit'[u] = "RENTED"
      BY <1>1, <1>2, <1>3 DEF RowTypes
    <3>2. QED
      BY <2>1, <2>3, <3>1 DEF Custody, Held
  <2>7. session.op # "tick"
    BY <2>1
  <2>8. \A x \in starts :
          /\ unit'[UnitOf[x.r]] # "AVAILABLE"
          /\ \A t \in Rentals : rental'[t] \in Unfinished /\ UnitOf[t] = UnitOf[x.r] => t = x.r
          /\ \A y \in starts : UnitOf[y.r] = UnitOf[x.r] => y.r = x.r
    BY <2>1, <2>3, <2>4 DEF Custody, Held
  <2>9. QED
    BY <2>5, <2>6, <2>7, <2>8 DEF Held
<1>7. QED
  BY <1>1, <1>5, <1>6 DEF Custody

(* The operator changes no request, and nothing a session carries.          *)
LEMMA OperatorCustody ==
  ASSUME Custody, RowTypes', LockerTypes', SameLimits,
         UNCHANGED <<rental, reqs, starts, session, door, mail>>,
         \A u \in Units : unit'[u] # "AVAILABLE" \/ unit'[u] = unit[u]
  PROVE  Custody'
<1>1. Requested'
  BY SameRequests DEF Custody
<1>2. /\ \A r \in Rentals : UnitOf[r] \in Units
      /\ \A x \in starts : UnitOf[x.r] \in Units
  BY ReturnsAssumption DEF Custody, Requested, Chosen
<1>3. QED
  BY <1>1, <1>2 DEF Custody, Held, SameLimits

LEMMA ConfirmReadyCustody ==
  ASSUME Custody, budget.shared \/ (session.op = "none" /\ starts = {}), NEW u \in Units, ConfirmReady(u)
  PROVE  Custody'
<1>1. /\ unit' = [unit EXCEPT ![u] = "AVAILABLE"]
      /\ rental' = [t \in Rentals |-> IF UnitOf[t] = u /\ rental[t] # "none"
                                      THEN "completed" ELSE rental[t]]
      /\ UNCHANGED <<at, taken, cell, reqs, starts, session, keypad, assigned, door, item,
                     mail, budget>>
  BY DEF ConfirmReady, locker, hands
<1>2. Requested /\ RowTypes /\ LockerTypes
  BY DEF Custody, Requested
<1>3. RowTypes' /\ LockerTypes' /\ SameLimits
  BY <1>1, <1>2 DEF RowTypes, LockerTypes, SameLimits, Statuses, Present
<1>4. Requested'
  BY <1>1, <1>2, <1>3, SameRequests
<1>5. \A t \in Rentals :
        /\ rental'[t] \in Unfinished => rental[t] \in Unfinished /\ UnitOf[t] # u
        /\ UnitOf[t] # u => unit'[UnitOf[t]] = unit[UnitOf[t]]
  BY <1>1, <1>2, ReturnsAssumption DEF Unfinished, RowTypes
<1>6. Held(budget, rental', unit', starts, session)
  <2>1. SUFFICES ASSUME ~budget.shared
                 PROVE  Held(budget, rental', unit', starts, session)
    BY DEF Held
  <2>2. session.op = "none" /\ starts = {}
    BY <2>1
  <2>3. QED
    BY <1>5, <2>1, <2>2 DEF Custody, Held
<1>7. QED
  BY <1>1, <1>4, <1>6 DEF Custody

(* The unit that is offered again had no other unfinished rental.           *)
LEMMA ForceCompleteCustody ==
  ASSUME Custody, budget.shared \/ (session.op = "none" /\ starts = {}), NEW r \in Rentals, ForceComplete(r)
  PROVE  Custody'
<1> DEFINE u == UnitOf[r]
<1>1. /\ budget.acts > 0 /\ budget' = [budget EXCEPT !.acts = @ - 1]
      /\ rental[r] \in Unfinished /\ rental' = [rental EXCEPT ![r] = "completed"]
      /\ unit' = [unit EXCEPT ![u] = IF @ \in {"RENTED", "RETURN_PENDING"}
                                     THEN "AVAILABLE" ELSE @]
      /\ cell' = [c \in Cells |-> IF at[u] = c /\ cell[c] = "RESERVED"
                                  THEN "OCCUPIED" ELSE cell[c]]
      /\ UNCHANGED <<at, taken, reqs, starts, session, keypad, assigned, door, item, mail>>
  BY DEF ForceComplete, Act, Unfinished, locker, hands
<1>2. Requested /\ RowTypes /\ LockerTypes
  BY DEF Custody, Requested
<1>3. u \in Units
  BY ReturnsAssumption
<1>4. SameLimits
  BY <1>1, <1>2, Spends DEF LockerTypes
<1>5. RowTypes' /\ LockerTypes'
  <2>1. rental' \in [Rentals -> Statuses] /\ cell' \in [Cells -> CellStates]
    BY <1>1, <1>2 DEF RowTypes, Statuses, CellStates
  <2>2. unit' \in [Units -> {"RENTED"} \cup Present]
    BY <1>1, <1>2, <1>3 DEF RowTypes, Present
  <2>3. QED
    BY <1>1, <1>2, <1>4, <2>1, <2>2 DEF RowTypes, LockerTypes, SameLimits
<1>6. Requested'
  BY <1>1, <1>2, <1>4, <1>5, SameRequests
<1>7. Held(budget, rental', unit', starts, session)
  <2>1. SUFFICES ASSUME ~budget.shared
                 PROVE  Held(budget, rental', unit', starts, session)
    BY DEF Held
  <2>2. \A t \in Rentals : UnitOf[t] = u /\ rental[t] \in Unfinished => t = r
    BY <1>1, <2>1 DEF Custody, Held
  <2>3. \A t \in Rentals :
          /\ rental'[t] \in Unfinished => rental[t] \in Unfinished /\ UnitOf[t] # u
          /\ UnitOf[t] # u => unit'[UnitOf[t]] = unit[UnitOf[t]]
    BY <1>1, <1>2, <1>3, <2>2, ReturnsAssumption DEF RowTypes, Unfinished
  <2>4. session.op = "none" /\ starts = {}
    BY <2>1
  <2>5. QED
    BY <2>1, <2>3, <2>4 DEF Custody, Held
<1>8. QED
  BY <1>1, <1>4, <1>6, <1>7 DEF Custody, SameLimits, Held

LEMMA SetCellTypes ==
  ASSUME LockerTypes, NEW c \in Cells, NEW occupied \in BOOLEAN, NEW answered \in BOOLEAN,
         SetCell(c, occupied, answered)
  PROVE  keypad' \in [Cells -> 0..MaxReturns] /\ assigned' \in [Cells -> BOOLEAN]
  BY ReturnsAssumption DEF LockerTypes, SetCell

(* A unit that is placed, taken or assigned: its status is not made           *)
(* AVAILABLE.                                                               *)
LEMMA PlaceCustody ==
  ASSUME Custody, NEW u \in Units, NEW c \in Cells, NEW answered \in BOOLEAN,
         Place(u, c, answered)
  PROVE  Custody'
<1>1. /\ budget.acts > 0 /\ budget' = [budget EXCEPT !.acts = @ - 1]
      /\ SetCell(c, TRUE, answered)
      /\ at' = [at EXCEPT ![u] = c] /\ cell' = [cell EXCEPT ![c] = "OCCUPIED"]
      /\ item' = [item EXCEPT ![u] = IF @ = "office" THEN "inside" ELSE @]
      /\ UNCHANGED <<rental, unit, taken, reqs, starts, session, door, mail>>
  BY DEF Place, Act
<1>2. RowTypes /\ LockerTypes
  BY DEF Custody, Requested
<1>3. SameLimits
  BY <1>1, <1>2, Spends DEF LockerTypes
<1>4. RowTypes' /\ LockerTypes'
  BY <1>1, <1>2, <1>3, SetCellTypes DEF RowTypes, LockerTypes, SameLimits, CellStates
<1>5. QED
  BY <1>1, <1>3, <1>4, OperatorCustody

LEMMA TakeForServiceCustody ==
  ASSUME Custody, NEW u \in Units, NEW answered \in BOOLEAN, TakeForService(u, answered)
  PROVE  Custody'
<1> DEFINE c == at[u]
<1>1. /\ budget.acts > 0 /\ budget' = [budget EXCEPT !.acts = @ - 1]
      /\ c # NoCell /\ SetCell(c, FALSE, answered)
      /\ unit' = [unit EXCEPT ![u] = "MAINTENANCE"]
      /\ cell' = [cell EXCEPT ![c] = "VACANT"] /\ at' = [at EXCEPT ![u] = NoCell]
      /\ item' = [item EXCEPT ![u] = IF @ = "inside" THEN "office" ELSE @]
      /\ UNCHANGED <<rental, taken, reqs, starts, session, door, mail>>
  BY DEF TakeForService, Act
<1>2. RowTypes /\ LockerTypes
  BY DEF Custody, Requested
<1>3. SameLimits /\ c \in Cells
  BY <1>1, <1>2, Spends DEF LockerTypes, RowTypes
<1>4. RowTypes' /\ LockerTypes'
  BY <1>1, <1>2, <1>3, SetCellTypes
     DEF RowTypes, LockerTypes, SameLimits, CellStates, Present
<1>5. \A v \in Units : unit'[v] # "AVAILABLE" \/ unit'[v] = unit[v]
  BY <1>1, <1>2 DEF RowTypes
<1>6. QED
  BY <1>1, <1>3, <1>4, <1>5, OperatorCustody

LEMMA AssignCustody ==
  ASSUME Custody, NEW u \in Units, NEW c \in Cells, Assign(u, c)
  PROVE  Custody'
<1>1. /\ budget.acts > 0 /\ budget' = [budget EXCEPT !.acts = @ - 1]
      /\ keypad' = [d \in Cells |-> IF d \in {c, at[u]} THEN 0 ELSE keypad[d]]
      /\ assigned' = [d \in Cells |-> IF d = c THEN TRUE
                                      ELSE IF d = at[u] THEN FALSE ELSE assigned[d]]
      /\ cell' = [d \in Cells |-> IF d = c THEN "OCCUPIED"
                                  ELSE IF d = at[u] THEN "VACANT" ELSE cell[d]]
      /\ at' = [at EXCEPT ![u] = c]
      /\ item' = [item EXCEPT ![u] = IF @ = "office" THEN "inside" ELSE @]
      /\ UNCHANGED <<rental, unit, taken, reqs, starts, session, door, mail>>
  BY DEF Assign, Act
<1>2. RowTypes /\ LockerTypes
  BY DEF Custody, Requested
<1>3. SameLimits
  BY <1>1, <1>2, Spends DEF LockerTypes
<1>4. RowTypes' /\ LockerTypes'
  <2>1. cell' \in [Cells -> CellStates] /\ at' \in [Units -> Cells \cup {NoCell}]
    BY <1>1, <1>2 DEF RowTypes, CellStates
  <2>2. keypad' \in [Cells -> 0..MaxReturns] /\ assigned' \in [Cells -> BOOLEAN]
    <3>1. 0 \in 0..MaxReturns
      BY ReturnsAssumption
    <3>2. keypad' \in [Cells -> 0..MaxReturns]
      BY <1>1, <1>2, <3>1 DEF LockerTypes
    <3>3. assigned' \in [Cells -> BOOLEAN]
      BY <1>1, <1>2 DEF LockerTypes
    <3>4. QED
      BY <3>2, <3>3
  <2>3. item' \in [Units -> {"client", "inside", "office"}]
    BY <1>1, <1>2 DEF LockerTypes
  <2>4. QED
    BY <1>1, <1>2, <1>3, <2>1, <2>2, <2>3 DEF RowTypes, LockerTypes, SameLimits
<1>5. QED
  BY <1>1, <1>3, <1>4, OperatorCustody

LEMMA UnassignCustody ==
  ASSUME Custody, NEW u \in Units, Unassign(u)
  PROVE  Custody'
<1> DEFINE c == at[u]
<1>1. /\ budget.acts > 0 /\ budget' = [budget EXCEPT !.acts = @ - 1]
      /\ c # NoCell /\ SetCell(c, FALSE, TRUE)
      /\ cell' = [cell EXCEPT ![c] = "VACANT"] /\ at' = [at EXCEPT ![u] = NoCell]
      /\ item' = [item EXCEPT ![u] = IF @ = "inside" THEN "office" ELSE @]
      /\ UNCHANGED <<rental, unit, taken, reqs, starts, session, door, mail>>
  BY DEF Unassign, Act
<1>2. RowTypes /\ LockerTypes
  BY DEF Custody, Requested
<1>3. SameLimits /\ c \in Cells
  BY <1>1, <1>2, Spends DEF LockerTypes, RowTypes
<1>4. RowTypes' /\ LockerTypes'
  BY <1>1, <1>2, <1>3, SetCellTypes DEF RowTypes, LockerTypes, SameLimits, CellStates
<1>5. QED
  BY <1>1, <1>3, <1>4, OperatorCustody

-----------------------------------------------------------------------------
LEMMA InitCustody ==
  ReturnsInit => Custody
<1> SUFFICES ASSUME ReturnsInit PROVE Custody
  OBVIOUS
<1>1. RowTypes
  <2>1. \A u \in Units : taken[u] \in Seq(Cells)
    BY ReturnsAssumption DEF ReturnsInit
  <2>2. taken \in [Units -> Seq(Cells)]
    BY <2>1 DEF ReturnsInit
  <2>3. reqs = <<>> /\ reqs \in Seq(Req) /\ Len(reqs) <= MaxReturns
    BY ReturnsAssumption DEF ReturnsInit
  <2>4. QED
    BY <2>2, <2>3 DEF ReturnsInit, RowTypes, Statuses, Present, CellStates
<1>2. LockerTypes
  BY ReturnsAssumption DEF ReturnsInit, LockerTypes, Bounds
<1>3. Accepts(reqs) /\ ByOwnDoor(budget, reqs)
  BY DEF ReturnsInit, Accepts, ByOwnDoor
<1>4. /\ Chosen(starts, reqs) /\ Carries(session)
      /\ Opened(door, reqs) /\ Sent(mail, reqs)
  BY DEF ReturnsInit, Chosen, Carries, Opened, Sent, Quiet
<1>5. Held(budget, rental, unit, starts, session)
  <2>1. \A r \in Rentals : rental[r] \in Unfinished => r \in Out
    BY DEF ReturnsInit, Unfinished
  <2>2. \A r \in Out : UnitOf[r] \in Units /\ unit[UnitOf[r]] = "RENTED"
    BY ReturnsAssumption DEF ReturnsInit
  <2>3. QED
    BY <2>1, <2>2, ReturnsAssumption DEF ReturnsInit, Held, Quiet
<1>6. QED
  BY <1>1, <1>2, <1>3, <1>4, <1>5 DEF Custody, Requested

LEMMA NextCustody ==
  ASSUME Custody, [ReturnsNext]_returnVars
  PROVE  Custody'
<1>1. CASE LockerStep
  BY <1>1, OpenWithCodeCustody, DeadlinePassesCustody, LockerResetCustody,
     CloseDoorCustody, EventLostCustody DEF LockerStep
<1>2. CASE Tick
  BY <1>2, TickReadsCustody, TickWritesCustody DEF Tick
<1>3. CASE (budget.shared \/ session.op # "tick") /\ ClientStep
  BY <1>3, StartReturnCustody, ConfirmReturnCustody, NextClientCustody,
     ReturnStartedCustody, ReturnRefusedCustody DEF ClientStep
<1>4. CASE (budget.shared \/ session.op # "tick") /\ \E e \in mail : Webhook(e)
  BY <1>4, WebhookCustody
<1>5. CASE (budget.shared \/ (session.op = "none" /\ starts = {})) /\ OperatorStep
  BY <1>5, ConfirmReadyCustody, ForceCompleteCustody, PlaceCustody,
     TakeForServiceCustody, AssignCustody, UnassignCustody DEF OperatorStep
<1>6. CASE UNCHANGED returnVars
  <2>1. UNCHANGED <<rental, unit, at, taken, cell, reqs, starts, session, keypad, assigned,
                    door, item, mail, budget>>
    BY <1>6 DEF returnVars
  <2>2. RowTypes' /\ LockerTypes'
    BY <2>1 DEF Custody, Requested, RowTypes, LockerTypes
  <2>3. QED
    BY <2>1, <2>2 DEF Custody, Requested
<1>7. QED
  BY <1>1, <1>2, <1>3, <1>4, <1>5, <1>6 DEF ReturnsNext

LEMMA CustodyHolds == ReturnsSpec => []Custody
<1>1. Custody /\ [ReturnsNext]_returnVars => Custody'
  BY NextCustody
<1>2. QED
  BY <1>1, InitCustody, PTL DEF ReturnsSpec

LEMMA CustodyIsTyped == Custody => ReturnsTypeOK /\ OneReturnPerCell
<1> SUFFICES ASSUME Custody PROVE ReturnsTypeOK /\ OneReturnPerCell
  OBVIOUS
<1>1. RowTypes /\ LockerTypes /\ Accepts(reqs)
  BY DEF Custody, Requested
<1>2. \A q \in DOMAIN reqs : reqs[q].cell \in Cells /\ reqs[q].r \in Rentals
  <2>1. \A q \in DOMAIN reqs : reqs[q] \in Req
    BY <1>1 DEF RowTypes
  <2> QED  BY <2>1 DEF Req
<1>3. ReturnsTypeOK
  BY <1>1, <1>2 DEF ReturnsTypeOK, RowTypes, LockerTypes, Statuses, CellStates
<1>4. OneReturnPerCell
  <2>1. \A q \in DOMAIN reqs : q \in Nat
    BY <1>1 DEF RowTypes
  <2>2. ASSUME NEW c \in Cells, NEW p \in LiveOn(c), NEW q \in LiveOn(c), p < q
        PROVE  Beside(p, q)
    <3>1. /\ p \in DOMAIN reqs /\ q \in DOMAIN reqs /\ reqs[p].status = "CREATED"
          /\ reqs[p].cell = c /\ reqs[q].cell = c
      BY DEF LiveOn, Live, ActiveReturn
    <3>2. q <= p \/ Overlap(reqs, p, q)
      BY <1>1, <3>1 DEF Accepts
    <3>3. QED
      BY <2>1, <2>2, <3>1, <3>2 DEF Overlap, Beside
  <2>3. QED
    BY <2>2 DEF OneReturnPerCell
<1> QED  BY <1>3, <1>4

LEMMA CustodyKeeps == Custody => OwnDoor /\ LiveRentalKeepsUnit
<1>1. Custody => OwnDoor
  BY DEF Custody, Requested, ByOwnDoor, OwnDoor, Overlap, Beside
<1>2. Custody => LiveRentalKeepsUnit
  BY DEF Custody, Held, Unfinished, LiveRentalKeepsUnit
<1> QED  BY <1>1, <1>2

(* Whatever the lockers answer and the operators do, with any number of       *)
(* rentals, units, cells and returns and any number of them started beside   *)
(* each other, a cell is promised to a second return only if its cell was    *)
(* chosen before the first one had its row (_find_home_return_cell,          *)
(* start_rental_return).                                                    *)
THEOREM CellPromisedOnce == ReturnsSpec => [](ReturnsTypeOK /\ OneReturnPerCell)
BY CustodyIsTyped, CustodyHolds, PTL

(* An event of the locker, however often and late it is delivered, completes *)
(* the return of its own visit, one that was given the same cell beside it,   *)
(* or none, as long as it first arrives before the next return into the cell *)
(* (process_esi_webhook_payload).                                            *)
THEOREM EventClosesItsVisit == ReturnsSpec => []OwnDoor
BY CustodyKeeps, CustodyHolds, PTL

(* Whatever is left of earlier returns of a unit, it is not offered to the    *)
(* next client under a rental that runs or is being returned, as long as no  *)
(* one writes behind the worker's tick and no operator behind a started      *)
(* return (confirm_inventory_ready, force_complete_rental).                  *)
THEOREM UnitStaysWithItsRental == ReturnsSpec => []LiveRentalKeepsUnit
BY CustodyKeeps, CustodyHolds, PTL

-----------------------------------------------------------------------------
(* The code of the keypad, from hand-over to collection (Pickup).            *)

HireStates == {"none", "ready", "opened", "active", "cancelled"}
PickupCalls == [op : {"none", "open", "test", "collect", "reset", "replace"}, r : 0..Hires,
                saw : HireStates, newest : 0..Hires]
Sweep(w) ==
  w \in [op : {"none", "asked", "read"}, free : {w.free}, open : {w.open},
         newest : {w.newest}, restore : 0..Hires, known : {w.known}]
PickupLeft == [resets : Nat, visits : Nat, faults : Nat, overlap : BOOLEAN]

PickupTypes ==
  /\ hire \in [1..Hires -> HireStates]
  /\ bike \in {"AVAILABLE", "RESERVED", "RENTED"} /\ inCell \in BOOLEAN
  /\ pinReset \in [1..Hires -> {"none", "skipped", "replaced", "failed"}]
  /\ call \in PickupCalls /\ Sweep(sweep)
  /\ call.op \in {"open", "collect", "reset", "replace"} => call.r # 0
  /\ code \in 0..Secret /\ left \in PickupLeft
  /\ \A e \in post : e.r \in 0..Hires
(* Rentals are created in the order of their numbers.                       *)
InOrder == \E n \in 0..Hires : \A r \in 1..Hires : hire[r] # "none" <=> r <= n
(* The item waits in its cell for one client at most.                       *)
OneWaits ==
  \A r \in 1..Hires : hire[r] \in Uncollected =>
    /\ bike = "RESERVED" /\ inCell
    /\ \A s \in 1..Hires : hire[s] \in Uncollected => s = r
(* What a request under way and the tick saw is still so.                   *)
StillWaits(c, w, h, in) ==
  /\ c = NoCall \/ w = Asleep
  /\ c.op \in {"open", "collect"} =>
       h[c.r] \in Uncollected /\ (c.op = "open" => h[c.r] = c.saw)
  /\ c.op = "test" => c.saw = "none"
  /\ c.op \in {"reset", "replace"} =>
       /\ h[c.r] = "cancelled" /\ in
       /\ \A s \in 1..Hires : h[s] \notin Uncollected
  /\ w.restore # 0 => h[w.restore] \in Uncollected
Erased ==
  \A r \in 1..Hires :
    /\ pinReset[r] # "none" => hire[r] = "cancelled"
    /\ pinReset[r] \in {"replaced", "skipped"} => code # r
InHand ==
  /\ PickupTypes
  /\ ~left.overlap => /\ InOrder /\ OneWaits /\ Erased
                      /\ StillWaits(call, sweep, hire, inCell)

LEMMA CallsAre ==
  /\ NoCall \in PickupCalls /\ Sweep(Asleep)
  /\ NoCall.op = "none" /\ NoCall.r = 0 /\ NoCall.saw = "none" /\ NoCall.newest = 0
  /\ Asleep.op = "none" /\ Asleep.restore = 0
BY PickupAssumption DEF NoCall, Asleep, PickupCalls, Sweep, HireStates

LEMMA LatestIs ==
  ASSUME PickupTypes
  PROVE  /\ LatestHire \in 0..Hires
         /\ InOrder => \A r \in 1..Hires : hire[r] # "none" <=> r <= LatestHire
<1> DEFINE H == {r \in 1..Hires : hire[r] # "none"}
<1>1. IsFiniteSet(1..Hires) /\ Cardinality(1..Hires) = Hires /\ H \subseteq 1..Hires
  BY PickupAssumption, FS_Interval
<1>2. LatestHire \in 0..Hires
  BY <1>1, PickupAssumption, FS_Subset, FS_CardinalityType DEF LatestHire
<1>3. ASSUME NEW n \in 0..Hires, \A r \in 1..Hires : hire[r] # "none" <=> r <= n
      PROVE  LatestHire = n
  <2>1. H = 1..n
    BY <1>3, PickupAssumption
  <2> HIDE DEF H
  <2>2. Cardinality(1..n) = n
    BY FS_Interval
  <2> QED  BY <2>1, <2>2 DEF H, LatestHire
<1> QED  BY <1>2, <1>3 DEF InOrder

LEMMA SameBounds ==
  ASSUME PickupTypes, NEW done, NEW heard, LockerCall(done, heard)
  PROVE  left' \in PickupLeft /\ left'.overlap = left.overlap
BY DEF PickupTypes, PickupLeft, LockerCall

LEMMA CodeWritten ==
  ASSUME PickupTypes, NEW c \in 0..Secret, NEW done, WriteCode(c, done)
  PROVE  code' \in {c, code} /\ code' \in 0..Secret
BY DEF PickupTypes, WriteCode

LEMMA Reported ==
  ASSUME PickupTypes, NEW kind, Report(kind)
  PROVE  \A e \in post' : e.r \in 0..Hires
<1>1. PICK named \in {0, LatestHire} :
        post' \in {post \cup {[kind |-> kind, r |-> named]}, post}
  BY DEF Report
<1>2. named \in 0..Hires
  BY LatestIs, PickupAssumption
<1> QED  BY <1>1, <1>2 DEF PickupTypes

LEMMA AliveIs ==
  ASSUME InHand, Alone, ~left.overlap
  PROVE  call = NoCall /\ sweep = Asleep
BY DEF Alone

(* Steps of the locker, its events and whoever stands at the door.           *)
LEMMA LockerMoves ==
  ASSUME InHand, UNCHANGED <<hireRows, call, sweep>>,
         left' \in PickupLeft, left'.overlap = left.overlap,
         code' \in {code, NoCode}, \A e \in post' : e.r \in 0..Hires
  PROVE  InHand'
<1>1. code' \in 0..Secret
  BY PickupAssumption DEF InHand, PickupTypes, NoCode, Secret
<1>2. PickupTypes'
  BY <1>1 DEF InHand, PickupTypes, hireRows
<1>3. InOrder => InOrder'
  BY DEF InOrder, hireRows
<1>4. OneWaits => OneWaits'
  BY DEF OneWaits, hireRows
<1>5. Erased => Erased'
  BY DEF Erased, hireRows, NoCode
<1>6. StillWaits(call, sweep, hire, inCell) => StillWaits(call', sweep', hire', inCell')
  BY DEF hireRows
<1> QED  BY <1>2, <1>3, <1>4, <1>5, <1>6 DEF InHand

(* A request or the tick begins, or reads: the rows stay.                    *)
LEMMA BeginsInHand ==
  ASSUME InHand, UNCHANGED <<hireRows, code, post>>,
         left' \in PickupLeft, left'.overlap = left.overlap,
         call' \in PickupCalls, Sweep(sweep'),
         call'.op \in {"open", "collect", "reset", "replace"} => call'.r # 0,
         ~left.overlap => StillWaits(call', sweep', hire, inCell)
  PROVE  InHand'
<1>1. PickupTypes'
  BY DEF InHand, PickupTypes, hireRows
<1>2. (InOrder => InOrder') /\ (OneWaits => OneWaits') /\ (Erased => Erased')
  BY DEF InOrder, OneWaits, Erased, hireRows
<1>3. StillWaits(call', sweep', hire, inCell) => StillWaits(call', sweep', hire', inCell')
  BY DEF hireRows
<1> QED  BY <1>1, <1>2, <1>3 DEF InHand

LEMMA HandOverInHand ==
  ASSUME InHand, HandOverNext
  PROVE  InHand'
<1> DEFINE r == LatestHire + 1
<1>1. /\ Alone /\ r <= Hires /\ bike = "AVAILABLE" /\ inCell
      /\ hire' = [hire EXCEPT ![r] = "ready"] /\ bike' = "RESERVED" /\ WriteCode(r, TRUE)
      /\ UNCHANGED <<inCell, pinReset, call, sweep, post, left>>
  BY DEF HandOverNext
<1>2. r \in 1..Hires /\ r \in Nat /\ r - 1 \in 0..Hires
  BY <1>1, LatestIs, PickupAssumption DEF InHand
<1>3. ASSUME InOrder PROVE \A s \in 1..Hires : hire[s] # "none" <=> s <= r - 1
  BY <1>2, <1>3, LatestIs DEF InHand
<1> HIDE DEF r
<1>4. code' = r /\ code' \in 0..Secret
  BY <1>1, <1>2, PickupAssumption DEF WriteCode, Secret
<1>5. hire' \in [1..Hires -> HireStates] /\ \A s \in 1..Hires : hire'[s] = IF s = r THEN "ready" ELSE hire[s]
  BY <1>1 DEF InHand, PickupTypes, HireStates
<1>6. PickupTypes'
  <2>1. PickupTypes
    BY DEF InHand
  <2>2. hire' \in [1..Hires -> HireStates]
    BY <1>5
  <2>3. bike' \in {"AVAILABLE", "RESERVED", "RENTED"} /\ inCell' \in BOOLEAN
    BY <1>1, <2>1 DEF PickupTypes
  <2>4. /\ pinReset' \in [1..Hires -> {"none", "skipped", "replaced", "failed"}]
        /\ call' \in PickupCalls /\ Sweep(sweep') /\ left' \in PickupLeft
        /\ call'.op \in {"open", "collect", "reset", "replace"} => call'.r # 0
        /\ \A e \in post' : e.r \in 0..Hires
    BY <1>1, <2>1 DEF PickupTypes
  <2> QED  BY <1>4, <2>2, <2>3, <2>4 DEF PickupTypes
<1>7. ASSUME InOrder, OneWaits, Erased, StillWaits(call, sweep, hire, inCell), ~left.overlap
      PROVE  InOrder' /\ OneWaits' /\ Erased' /\ StillWaits(call', sweep', hire', inCell')
  <2>1. InOrder'
    <3>1. \A s \in 1..Hires : hire'[s] # "none" <=> s <= r
      BY <1>2, <1>3, <1>5, <1>7
    <3>2. r \in 0..Hires
      BY <1>2
    <3> QED  BY <3>1, <3>2 DEF InOrder
  <2>2. \A s \in 1..Hires : hire[s] \notin Uncollected
    BY <1>1, <1>7 DEF OneWaits
  <2>3. OneWaits'
    BY <1>1, <1>5, <2>2 DEF OneWaits
  <2>4. hire[r] = "none"
    BY <1>2, <1>3, <1>7
  <2>5. pinReset[r] = "none"
    BY <1>2, <1>7, <2>4 DEF Erased
  <2>6. Erased'
    BY <1>1, <1>2, <1>4, <1>5, <1>7, <2>5 DEF Erased
  <2>7. StillWaits(call', sweep', hire', inCell')
    BY <1>1, <1>7, AliveIs, CallsAre DEF StillWaits
  <2> QED  BY <2>1, <2>3, <2>6, <2>7
<1> QED  BY <1>1, <1>6, <1>7 DEF InHand

(* A rental that waits goes on to opened, active or cancelled while nothing  *)
(* else runs, or at the end of its request.                                 *)
GoesOn(r, h, c) ==
  /\ \A s \in 1..Hires : s # r => h[s] = hire[s]
  /\ r # 0 => hire[r] \in Uncollected /\ h[r] \in HireStates \ {"none"}
  /\ c = code \/ (r # 0 /\ c = r)
LEMMA MovesInHand ==
  ASSUME InHand, PickupTypes', left'.overlap = left.overlap, pinReset' = pinReset,
         NEW r \in 0..Hires,
         ~left.overlap => /\ GoesOn(r, hire', code')
                          /\ r = 0 \/ hire'[r] \in Uncollected => UNCHANGED <<bike, inCell>>
                          /\ StillWaits(call', sweep', hire', inCell')
  PROVE  InHand'
<1> SUFFICES ASSUME ~left.overlap PROVE InOrder' /\ OneWaits' /\ Erased'
  BY DEF InHand
<1>1. InOrder'
  BY DEF InHand, InOrder, GoesOn, Uncollected
<1>2. OneWaits'
  BY DEF InHand, OneWaits, GoesOn, Uncollected
<1>3. Erased'
  BY DEF InHand, Erased, GoesOn, Uncollected
<1> QED  BY <1>1, <1>2, <1>3

LEMMA DoorAnsweredInHand ==
  ASSUME InHand, NEW done \in BOOLEAN, NEW heard \in BOOLEAN, DoorAnswered(done, heard)
  PROVE  InHand'
<1>1. /\ call.op \in {"open", "test"} /\ call' = NoCall /\ LockerCall(done, heard)
      /\ UNCHANGED <<bike, inCell, pinReset, sweep, code>>
      /\ \/ hire' = hire
         \/ call.saw = "ready" /\ hire' = [hire EXCEPT ![call.r] = "opened"]
      /\ post' = post \/ Report("open")
  BY DEF DoorAnswered
<1>2. left' \in PickupLeft /\ left'.overlap = left.overlap /\ \A e \in post' : e.r \in 0..Hires
  BY <1>1, SameBounds, Reported DEF InHand, PickupTypes
<1>3. call.r \in 0..Hires
  BY DEF InHand, PickupTypes, PickupCalls
<1>4. hire' \in [1..Hires -> HireStates] /\ \A s \in 1..Hires : s # call.r => hire'[s] = hire[s]
  BY <1>1 DEF InHand, PickupTypes, HireStates
<1>5. PickupTypes'
  BY <1>1, <1>2, <1>4, CallsAre DEF InHand, PickupTypes
<1>6. ASSUME ~left.overlap PROVE StillWaits(call', sweep', hire', inCell')
  <2>1. sweep = Asleep
    BY <1>1, <1>6, CallsAre DEF InHand, StillWaits
  <2> QED  BY <1>1, <2>1, CallsAre DEF StillWaits
<1>7. CASE hire' = hire
  <2>1. GoesOn(0, hire', code')
    BY <1>1, <1>7 DEF GoesOn
  <2>2. 0 \in 0..Hires
    BY PickupAssumption
  <2> QED  BY <1>1, <1>2, <1>5, <1>6, <2>1, <2>2, MovesInHand
<1>8. CASE call.saw = "ready" /\ hire' = [hire EXCEPT ![call.r] = "opened"]
  <2>1. ASSUME ~left.overlap
        PROVE  GoesOn(call.r, hire', code') /\ call.r # 0 /\ hire'[call.r] = "opened"
    <3>1. call.op = "open" /\ call.r \in 1..Hires /\ hire[call.r] = "ready"
      BY <1>1, <1>3, <1>8, <2>1 DEF InHand, PickupTypes, StillWaits
    <3>2. hire'[call.r] = "opened"
      BY <1>8, <3>1 DEF InHand, PickupTypes
    <3> QED  BY <1>1, <1>4, <3>1, <3>2 DEF GoesOn, Uncollected, HireStates
  <2> QED  BY <1>1, <1>2, <1>3, <1>5, <1>6, <2>1, MovesInHand
<1> QED  BY <1>1, <1>7, <1>8

LEMMA CollectedIs ==
  ASSUME PickupTypes, NEW r \in 0..Hires, Collected(r)
  PROVE  /\ hire' \in [1..Hires -> HireStates] /\ bike' = "RENTED" /\ inCell' = FALSE
         /\ pinReset' = pinReset
         /\ \A s \in 1..Hires : hire'[s] = IF s = r THEN "active" ELSE hire[s]
BY DEF PickupTypes, Collected, HireStates

(* The item counts as collected while nothing else runs.                    *)
LEMMA CollectInHand ==
  ASSUME InHand, NEW r \in 0..Hires, Collected(r), r # 0,
         ~left.overlap => hire[r] \in Uncollected /\ sweep = Asleep,
         call' = NoCall \/ (call' = call /\ (~left.overlap => call = NoCall)), UNCHANGED sweep,
         left' \in PickupLeft, left'.overlap = left.overlap,
         code' \in 0..Secret, code' \in {code, r}, \A e \in post' : e.r \in 0..Hires
  PROVE  InHand'
<1>1. /\ hire' \in [1..Hires -> HireStates] /\ bike' = "RENTED" /\ inCell' = FALSE
      /\ pinReset' = pinReset
      /\ \A s \in 1..Hires : hire'[s] = IF s = r THEN "active" ELSE hire[s]
  BY CollectedIs DEF InHand
<1>2. PickupTypes'
  BY <1>1, CallsAre DEF InHand, PickupTypes
<1>3. r \in 1..Hires
  OBVIOUS
<1>4. GoesOn(r, hire', code') \/ left.overlap
  BY <1>1, <1>3 DEF GoesOn, HireStates
<1>5. ~left.overlap => StillWaits(call', sweep', hire', inCell')
  BY CallsAre DEF StillWaits
<1>6. hire'[r] \notin Uncollected
  BY <1>1, <1>3 DEF Uncollected
<1> QED  BY <1>1, <1>2, <1>4, <1>5, <1>6, MovesInHand

LEMMA CollectAnsweredInHand ==
  ASSUME InHand, NEW done \in BOOLEAN, NEW heard \in BOOLEAN, CollectAnswered(done, heard)
  PROVE  InHand'
<1>1. /\ call.op = "collect" /\ call' = NoCall /\ LockerCall(done, heard)
      /\ WriteCode(call.r, done) /\ UNCHANGED <<sweep, post>>
      /\ Collected(call.r) \/ UNCHANGED hireRows
  BY DEF CollectAnswered
<1>2. left' \in PickupLeft /\ left'.overlap = left.overlap
  BY <1>1, SameBounds DEF InHand
<1>3. call.r \in 0..Hires /\ call.r # 0 /\ call.r \in 0..Secret
  BY <1>1, PickupAssumption DEF InHand, PickupTypes, PickupCalls, Secret
<1>4. code' \in {code, call.r} /\ code' \in 0..Secret
  BY <1>1, <1>3, CodeWritten DEF InHand
<1>5. ~left.overlap => hire[call.r] \in Uncollected /\ sweep = Asleep
  BY <1>1, CallsAre DEF InHand, StillWaits
<1>6. \A e \in post' : e.r \in 0..Hires
  BY <1>1 DEF InHand, PickupTypes
<1>7. CASE UNCHANGED hireRows
  <2>1. PickupTypes'
    BY <1>1, <1>2, <1>4, <1>7, CallsAre DEF InHand, PickupTypes, hireRows
  <2>2. ~left.overlap => GoesOn(call.r, hire', code')
    BY <1>3, <1>4, <1>5, <1>7 DEF GoesOn, hireRows, InHand, PickupTypes, Uncollected, HireStates
  <2>3. ~left.overlap => StillWaits(call', sweep', hire', inCell')
    BY <1>1, <1>5, CallsAre DEF StillWaits
  <2> QED  BY <1>2, <1>3, <1>7, <2>1, <2>2, <2>3, MovesInHand DEF hireRows
<1>8. CASE Collected(call.r)
  BY <1>1, <1>2, <1>3, <1>4, <1>5, <1>6, <1>8, CollectInHand
<1> QED  BY <1>1, <1>7, <1>8

LEMMA GiveUpInHand ==
  ASSUME InHand, NEW r \in 1..Hires, GiveUp(r)
  PROVE  InHand'
<1> DEFINE c == [NoCall EXCEPT !.op = "reset", !.r = r]
<1>1. /\ Alone /\ hire[r] = "ready" /\ hire' = [hire EXCEPT ![r] = "cancelled"]
      /\ bike' \in {"AVAILABLE", bike} /\ call' = c
      /\ UNCHANGED <<inCell, pinReset, sweep, code, post, left>>
  <2>1. call' = c
    BY DEF GiveUp
  <2>2. bike' \in {"AVAILABLE", bike}
    BY DEF GiveUp
  <2> QED  BY <2>1, <2>2 DEF GiveUp, atLocker
<1>2. c \in PickupCalls /\ c.op = "reset" /\ c.r = r
  <2>1. r \in 0..Hires /\ NoCall \in PickupCalls
    BY CallsAre
  <2> QED  BY <2>1 DEF PickupCalls
<1> HIDE DEF c
<1>3. /\ hire' \in [1..Hires -> HireStates]
      /\ \A s \in 1..Hires : hire'[s] = IF s = r THEN "cancelled" ELSE hire[s]
  BY <1>1 DEF InHand, PickupTypes, HireStates
<1>4. PickupTypes'
  BY <1>1, <1>2, <1>3 DEF InHand, PickupTypes
<1>5. GoesOn(r, hire', code')
  BY <1>1, <1>3 DEF GoesOn, Uncollected, HireStates
<1>6. ASSUME ~left.overlap PROVE StillWaits(call', sweep', hire', inCell')
  <2>1. sweep = Asleep
    BY <1>1, <1>6, AliveIs
  <2>2. inCell /\ \A s \in 1..Hires : hire[s] \in Uncollected => s = r
    BY <1>1, <1>6 DEF InHand, OneWaits, Uncollected
  <2>3. \A s \in 1..Hires : hire'[s] \notin Uncollected
    BY <1>3, <2>2 DEF Uncollected
  <2> QED  BY <1>1, <1>2, <1>3, <2>1, <2>2, <2>3, CallsAre DEF StillWaits
<1>7. hire'[r] \notin Uncollected /\ r # 0 /\ r \in 0..Hires
  BY <1>3 DEF Uncollected
<1> QED  BY <1>1, <1>4, <1>5, <1>6, <1>7, MovesInHand

(* The reset ends: nobody waits, and the keypad has a code nobody knows.      *)
LEMMA ResetInHand ==
  ASSUME InHand, ResetSkipped \/ \E done, heard \in BOOLEAN : ResetAnswered(done, heard)
  PROVE  InHand'
<1>1. /\ call.op \in {"reset", "replace"} /\ call' = NoCall
      /\ UNCHANGED <<hire, bike, inCell, sweep, post>>
  BY DEF ResetSkipped, ResetAnswered, atLocker
<1>2. call.r \in 1..Hires
  BY <1>1 DEF InHand, PickupTypes, PickupCalls
<1>3. PICK how \in {"skipped", "replaced", "failed"} :
        /\ pinReset' = [pinReset EXCEPT ![call.r] = how]
        /\ \/ how = "skipped" /\ (~inCell \/ OtherWaits) /\ UNCHANGED <<code, left>>
           \/ \E done, heard \in BOOLEAN :
                /\ LockerCall(done, heard) /\ WriteCode(Secret, done)
                /\ how = IF heard THEN "replaced" ELSE "failed"
  <2>1. CASE ResetSkipped
    BY <2>1 DEF ResetSkipped, atLocker
  <2>2. ASSUME NEW done \in BOOLEAN, NEW heard \in BOOLEAN, ResetAnswered(done, heard)
        PROVE  \E how \in {"replaced", "failed"} :
                 /\ pinReset' = [pinReset EXCEPT ![call.r] = how]
                 /\ LockerCall(done, heard) /\ WriteCode(Secret, done)
                 /\ how = IF heard THEN "replaced" ELSE "failed"
    BY <2>2 DEF ResetAnswered
  <2> QED  BY <2>1, <2>2
<1>4. Secret \in 0..Secret /\ \A r \in 1..Hires : r # Secret
  BY PickupAssumption DEF Secret
<1>5. /\ left' \in PickupLeft /\ left'.overlap = left.overlap
      /\ code' \in 0..Secret /\ code' \in {code, Secret}
      /\ how = "replaced" => code' = Secret
  <2>1. CASE UNCHANGED <<code, left>> /\ how = "skipped"
    BY <2>1 DEF InHand, PickupTypes
  <2>2. ASSUME NEW done \in BOOLEAN, NEW heard \in BOOLEAN,
               LockerCall(done, heard), WriteCode(Secret, done),
               how = IF heard THEN "replaced" ELSE "failed"
        PROVE  /\ left' \in PickupLeft /\ left'.overlap = left.overlap
               /\ code' \in 0..Secret /\ code' \in {code, Secret}
               /\ how = "replaced" => code' = Secret
    <3>1. how = "replaced" => done
      BY <2>2 DEF LockerCall
    <3>2. done => code' = Secret
      BY <2>2 DEF WriteCode
    <3> QED  BY <1>4, <2>2, <3>1, <3>2, SameBounds, CodeWritten DEF InHand
  <2> QED  BY <1>3, <2>1, <2>2
<1>6. PickupTypes'
  BY <1>1, <1>3, <1>5, CallsAre DEF InHand, PickupTypes
<1>7. ASSUME ~left.overlap
      PROVE  InOrder' /\ OneWaits' /\ Erased' /\ StillWaits(call', sweep', hire', inCell')
  <2>1. /\ sweep = Asleep /\ hire[call.r] = "cancelled" /\ inCell
        /\ \A s \in 1..Hires : hire[s] \notin Uncollected
    BY <1>1, <1>7, CallsAre DEF InHand, StillWaits
  <2>2. how # "skipped"
    BY <1>3, <1>4, <2>1 DEF OtherWaits, LockerCall
  <2>3. \A r \in 1..Hires : pinReset'[r] = IF r = call.r THEN how ELSE pinReset[r]
    BY <1>3 DEF InHand, PickupTypes
  <2>4. Erased'
    BY <1>1, <1>2, <1>4, <1>5, <1>7, <2>1, <2>2, <2>3 DEF InHand, Erased
  <2>5. InOrder' /\ OneWaits'
    BY <1>1, <1>7 DEF InHand, InOrder, OneWaits
  <2>6. StillWaits(call', sweep', hire', inCell')
    BY <1>1, <2>1, CallsAre DEF StillWaits
  <2> QED  BY <2>4, <2>5, <2>6
<1> QED  BY <1>5, <1>6, <1>7 DEF InHand

LEMMA Spent ==
  ASSUME PickupTypes, NEW what \in {"resets", "visits", "faults"}, left[what] > 0,
         left' = [left EXCEPT ![what] = @ - 1]
  PROVE  left' \in PickupLeft /\ left'.overlap = left.overlap
BY DEF PickupTypes, PickupLeft

LEMMA AskInHand ==
  ASSUME InHand, AskToTest \/ \E r \in 1..Hires : AskToOpen(r) \/ AskToCollect(r)
  PROVE  InHand'
<1>1. Alone /\ call = NoCall /\ UNCHANGED <<hireRows, sweep, code, post>>
  BY DEF AskToTest, AskToOpen, AskToCollect, atLocker
<1>2. left' \in PickupLeft /\ left'.overlap = left.overlap
  <2>1. left' = left \/ (left.visits > 0 /\ left' = [left EXCEPT !.visits = @ - 1])
    BY DEF AskToTest, AskToOpen, AskToCollect
  <2> QED  BY <2>1 DEF InHand, PickupTypes, PickupLeft
<1>3. LatestHire \in 0..Hires /\ NoCall \in PickupCalls
  BY CallsAre, LatestIs DEF InHand
<1>4. ~left.overlap => sweep = Asleep
  BY <1>1, AliveIs
<1>5. CASE AskToTest
  <2>1. call' = [NoCall EXCEPT !.op = "test", !.newest = LatestHire]
    BY <1>5 DEF AskToTest
  <2>2. call' \in PickupCalls /\ call'.op = "test" /\ call'.saw = "none"
    BY <1>3, <2>1, CallsAre DEF PickupCalls
  <2>3. ~left.overlap => StillWaits(call', sweep', hire, inCell)
    BY <1>1, <1>4, <2>2, CallsAre DEF StillWaits
  <2> QED  BY <1>1, <1>2, <2>2, <2>3, BeginsInHand DEF InHand, PickupTypes
<1>6. ASSUME NEW r \in 1..Hires, AskToOpen(r) PROVE InHand'
  <2>1. /\ hire[r] \in Uncollected
        /\ call' = [op |-> "open", r |-> r, saw |-> hire[r], newest |-> LatestHire]
    BY <1>6 DEF AskToOpen
  <2>2. /\ call' \in PickupCalls /\ call'.op = "open" /\ call'.saw = hire[r] /\ call'.r = r
    BY <1>3, <2>1 DEF PickupCalls, HireStates, Uncollected
  <2>3. ~left.overlap => StillWaits(call', sweep', hire, inCell)
    BY <1>1, <1>4, <2>1, <2>2, CallsAre DEF StillWaits
  <2> QED  BY <1>1, <1>2, <2>2, <2>3, BeginsInHand DEF InHand, PickupTypes
<1>7. ASSUME NEW r \in 1..Hires, AskToCollect(r) PROVE InHand'
  <2>1. hire[r] \in Uncollected /\ call' = [NoCall EXCEPT !.op = "collect", !.r = r]
    BY <1>7 DEF AskToCollect
  <2>2. call' \in PickupCalls /\ call'.op = "collect" /\ call'.r = r
    <3>1. r \in 0..Hires
      OBVIOUS
    <3> QED  BY <1>3, <2>1, <3>1 DEF PickupCalls
  <2>3. ~left.overlap => StillWaits(call', sweep', hire, inCell)
    BY <1>1, <1>4, <2>1, <2>2, CallsAre DEF StillWaits
  <2> QED  BY <1>1, <1>2, <2>2, <2>3, BeginsInHand DEF InHand, PickupTypes
<1> QED  BY <1>5, <1>6, <1>7

LEMMA ResetCallsInHand ==
  ASSUME InHand, ResetCalls
  PROVE  InHand'
<1>1. /\ call.op = "reset" /\ call' = [call EXCEPT !.op = "replace"]
      /\ UNCHANGED <<hireRows, sweep, code, post, left>>
  BY DEF ResetCalls, atLocker
<1>2. /\ call' \in PickupCalls /\ call'.op = "replace" /\ call'.r = call.r /\ call.r # 0
  BY <1>1 DEF InHand, PickupTypes, PickupCalls
<1>3. ASSUME ~left.overlap PROVE StillWaits(call', sweep', hire, inCell)
  <2>1. StillWaits(call, sweep, hire, inCell)
    BY <1>3 DEF InHand
  <2>2. call # NoCall
    BY <1>1, CallsAre
  <2> QED  BY <1>1, <1>2, <2>1, <2>2 DEF StillWaits
<1> QED  BY <1>1, <1>2, <1>3, BeginsInHand DEF InHand, PickupTypes

(* The tick.                                                                *)
LEMMA SweepBeginsInHand ==
  ASSUME InHand, SweepAsks \/ SweepReads
  PROVE  InHand'
<1>1. UNCHANGED <<hireRows, call, code, post, left>>
  BY DEF SweepAsks, SweepReads, atLocker
<1>2. LatestHire \in 0..Hires /\ Sweep(Asleep) /\ Sweep(sweep)
  BY CallsAre, LatestIs DEF InHand, PickupTypes
<1>3. CASE SweepAsks
  <2>1. /\ Alone
        /\ sweep' = [Asleep EXCEPT !.op = "asked", !.free = (~full /\ ~ajar),
                                   !.open = ajar, !.newest = LatestHire]
    BY <1>3 DEF SweepAsks
  <2>2. sweep'.restore = 0 /\ Sweep(sweep')
    BY <1>2, <2>1, CallsAre DEF Sweep
  <2>3. ~left.overlap => StillWaits(call', sweep', hire, inCell)
    BY <1>1, <2>1, <2>2, AliveIs, CallsAre DEF StillWaits
  <2> QED  BY <1>1, <2>2, <2>3, BeginsInHand DEF InHand, PickupTypes
<1>4. CASE SweepReads
  <2>1. PICK r \in IF Restorable = {} THEN {0} ELSE Restorable :
          sweep' = [sweep EXCEPT !.op = "read", !.known = box, !.restore = r]
    BY <1>4 DEF SweepReads
  <2>2. r \in 0..Hires /\ (r # 0 => hire[r] \in Uncollected)
    BY <2>1, PickupAssumption DEF Restorable
  <2>3. sweep'.restore = r /\ Sweep(sweep')
    BY <1>2, <2>1, <2>2 DEF Sweep
  <2>4. ASSUME ~left.overlap PROVE StillWaits(call', sweep', hire, inCell)
    <3>1. sweep # Asleep
      BY <1>4, CallsAre DEF SweepReads
    <3>2. call = NoCall
      BY <2>4, <3>1 DEF InHand, StillWaits
    <3> QED  BY <1>1, <2>2, <2>3, <3>2, CallsAre DEF StillWaits
  <2> QED  BY <1>1, <2>3, <2>4, BeginsInHand DEF InHand, PickupTypes
<1> QED  BY <1>3, <1>4

LEMMA SweepWritesInHand ==
  ASSUME InHand, NEW done \in BOOLEAN, NEW heard \in BOOLEAN, SweepWrites(done, heard)
  PROVE  InHand'
<1> DEFINE r == sweep.restore
<1>1. /\ sweep.op = "read" /\ LockerCall(done, heard) /\ sweep' = Asleep
      /\ WriteCode(r, done /\ r # 0)
      /\ UNCHANGED <<hire, bike, inCell, pinReset, call, post>>
  BY DEF SweepWrites
<1>2. left' \in PickupLeft /\ left'.overlap = left.overlap
  BY <1>1, SameBounds DEF InHand
<1>3. r \in 0..Hires /\ r \in 0..Secret
  BY PickupAssumption DEF InHand, PickupTypes, Sweep, Secret
<1>4. code' \in 0..Secret /\ (code' = code \/ (r # 0 /\ code' = r))
  BY <1>1, <1>3 DEF WriteCode, InHand, PickupTypes
<1>5. PickupTypes'
  BY <1>1, <1>2, <1>4, CallsAre DEF InHand, PickupTypes
<1>6. ASSUME ~left.overlap
      PROVE  /\ GoesOn(r, hire', code') /\ StillWaits(call', sweep', hire', inCell')
  <2>1. call = NoCall /\ (r # 0 => hire[r] \in Uncollected)
    BY <1>1, <1>6, CallsAre DEF InHand, StillWaits
  <2>2. GoesOn(r, hire', code')
    BY <1>1, <1>3, <1>4, <2>1 DEF GoesOn, Uncollected, HireStates
  <2> QED  BY <1>1, <2>1, <2>2, CallsAre DEF StillWaits
<1> QED  BY <1>1, <1>2, <1>3, <1>5, <1>6, MovesInHand

(* Events, and what takes effect while nothing else runs.                    *)
LEMMA TimeoutInHand ==
  ASSUME InHand, NEW r \in 1..Hires, CollectedByTimeout(r)
  PROVE  InHand'
<1>1. /\ Alone /\ hire[r] = "opened" /\ Collected(r)
      /\ UNCHANGED <<call, sweep, code, post, left>>
  BY DEF CollectedByTimeout, atLocker
<1>2. ~left.overlap => hire[r] \in Uncollected /\ sweep = Asleep /\ call = NoCall
  BY <1>1, AliveIs DEF Uncollected
<1>3. r \in 0..Hires /\ r # 0
  OBVIOUS
<1> QED  BY <1>1, <1>2, <1>3, CollectInHand DEF InHand, PickupTypes

LEMMA DoorEventInHand ==
  ASSUME InHand, NEW e \in post, DoorEvent(e)
  PROVE  InHand'
<1>1. /\ Alone /\ post' = post \ {e} /\ UNCHANGED <<call, sweep, code, left>>
      /\ e.r \in 0..Hires
  BY DEF DoorEvent, InHand, PickupTypes
<1>2. \A d \in post' : d.r \in 0..Hires
  BY <1>1 DEF InHand, PickupTypes
<1>3. ~left.overlap => call = NoCall /\ sweep = Asleep
  BY <1>1, AliveIs
<1>4. CASE Collects(e) /\ Collected(e.r)
  <2>1. e.r # 0 /\ hire[e.r] \in Uncollected
    BY <1>4 DEF Collects
  <2> QED  BY <1>1, <1>2, <1>3, <1>4, <2>1, CollectInHand DEF InHand, PickupTypes
<1>5. CASE ~Collects(e)
  <2> DEFINE Opens(s) == e.kind = "open" /\ s = e.r /\ hire[s] = "ready"
  <2>1. /\ hire' = [s \in 1..Hires |-> IF Opens(s) THEN "opened" ELSE hire[s]]
        /\ UNCHANGED <<bike, inCell, pinReset>>
    BY <1>5 DEF DoorEvent
  <2>2. \A s \in 1..Hires : Opens(s) => s = e.r /\ hire[s] = "ready"
    OBVIOUS
  <2> HIDE DEF Opens
  <2>3. /\ hire' \in [1..Hires -> HireStates]
        /\ \A s \in 1..Hires : hire'[s] = IF Opens(s) THEN "opened" ELSE hire[s]
    BY <2>1 DEF InHand, PickupTypes, HireStates
  <2>4. PickupTypes'
    <3>1. PickupTypes
      BY DEF InHand
    <3> QED  BY <1>1, <1>2, <2>1, <2>3, <3>1 DEF PickupTypes
  <2>5. ~left.overlap => StillWaits(call', sweep', hire', inCell')
    BY <1>1, <1>3, CallsAre DEF StillWaits
  <2>6. CASE \E s \in 1..Hires : Opens(s)
    <3>1. e.r \in 1..Hires /\ Opens(e.r) /\ hire[e.r] = "ready"
      BY <2>2, <2>6
    <3>2. GoesOn(e.r, hire', code') /\ e.r # 0
      BY <1>1, <2>2, <2>3, <3>1 DEF GoesOn, Uncollected, HireStates
    <3> QED  BY <1>1, <2>1, <2>4, <2>5, <3>2, MovesInHand
  <2>7. CASE ~\E s \in 1..Hires : Opens(s)
    <3>1. GoesOn(0, hire', code') /\ 0 \in 0..Hires
      BY <1>1, <2>3, <2>7, PickupAssumption DEF GoesOn
    <3> QED  BY <1>1, <2>1, <2>4, <2>5, <3>1, MovesInHand
  <2> QED  BY <2>6, <2>7
<1> QED  BY <1>4, <1>5 DEF DoorEvent

LEMMA AtLockerInHand ==
  ASSUME InHand,
         \/ OpenByCode \/ DoorFallsShut \/ LockerForgets \/ \E e \in post : EventIsLost(e)
  PROVE  InHand'
<1>1. UNCHANGED <<hireRows, call, sweep>> /\ code' \in {code, NoCode}
  BY DEF OpenByCode, DoorFallsShut, LockerForgets, EventIsLost
<1>2. left' \in PickupLeft /\ left'.overlap = left.overlap
  BY DEF OpenByCode, DoorFallsShut, LockerForgets, EventIsLost, InHand, PickupTypes, PickupLeft
<1>3. \A e \in post' : e.r \in 0..Hires
  <2>1. post' \subseteq post \/ \E kind : Report(kind)
    BY DEF OpenByCode, DoorFallsShut, LockerForgets, EventIsLost
  <2> QED  BY <2>1, Reported DEF InHand, PickupTypes
<1> QED  BY <1>1, <1>2, <1>3, LockerMoves

LEMMA InHandAtFirst == PickupInit => InHand
<1> SUFFICES ASSUME PickupInit PROVE InHand
  OBVIOUS
<1>1. /\ hire = [r \in 1..Hires |-> "none"] /\ bike = "AVAILABLE" /\ inCell = TRUE
      /\ pinReset = [r \in 1..Hires |-> "none"] /\ call = NoCall /\ sweep = Asleep
      /\ code = 0 /\ post = {} /\ left \in PickupBounds
  BY DEF PickupInit, NoCode
<1>2. 0 \in 0..Hires /\ 0 \in 0..Secret /\ left \in PickupLeft
  BY <1>1, PickupAssumption DEF Secret, PickupLeft
<1>3. PickupTypes
  BY <1>1, <1>2, CallsAre DEF PickupTypes, HireStates
<1>4. InOrder
  BY <1>1, <1>2 DEF InOrder
<1>5. OneWaits /\ Erased /\ StillWaits(call, sweep, hire, inCell)
  BY <1>1, CallsAre DEF OneWaits, Erased, StillWaits, Uncollected
<1> QED  BY <1>3, <1>4, <1>5 DEF InHand

LEMMA InHandStep == InHand /\ [PickupNext]_pickupVars => InHand'
<1> SUFFICES ASSUME InHand, [PickupNext]_pickupVars PROVE InHand'
  OBVIOUS
<1>1. CASE UNCHANGED pickupVars
  <2>1. UNCHANGED <<hireRows, call, sweep, code, post, left>>
    BY <1>1 DEF pickupVars, hireRows
  <2> QED  BY <2>1, LockerMoves DEF InHand, PickupTypes
<1>2. ASSUME NEW r \in 1..Hires,
             AskToOpen(r) \/ AskToCollect(r) \/ CollectedByTimeout(r) \/ GiveUp(r)
      PROVE  InHand'
  BY <1>2, AskInHand, TimeoutInHand, GiveUpInHand
<1>3. CASE HandOverNext \/ AskToTest \/ ResetSkipped \/ ResetCalls
  BY <1>3, HandOverInHand, AskInHand, ResetInHand, ResetCallsInHand
<1>4. ASSUME NEW done \in BOOLEAN, NEW heard \in BOOLEAN,
             Answered(done, heard) \/ SweepWrites(done, heard)
      PROVE  InHand'
  BY <1>4, DoorAnsweredInHand, CollectAnsweredInHand, ResetInHand, SweepWritesInHand
     DEF Answered
<1>5. CASE SweepAsks \/ SweepReads
  BY <1>5, SweepBeginsInHand
<1>6. ASSUME NEW e \in post, DoorEvent(e) \/ EventIsLost(e) PROVE InHand'
  BY <1>6, DoorEventInHand, AtLockerInHand
<1>7. CASE OpenByCode \/ DoorFallsShut \/ LockerForgets
  BY <1>7, AtLockerInHand
<1> QED  BY <1>1, <1>2, <1>3, <1>4, <1>5, <1>6, <1>7 DEF PickupNext

(* With handlers one at a time, the code of a cancelled rental does not come *)
(* back once the reset is recorded, for any number of rentals, resets,       *)
(* visits, failed calls and events under way.                               *)
THEOREM CancelledCodeIsGone == PickupSpec => []ForgottenCode
<1>1. InHand => ForgottenCode
  BY DEF InHand, Erased, ForgottenCode
<1> QED  BY <1>1, InHandAtFirst, InHandStep, PTL DEF PickupSpec

-----------------------------------------------------------------------------
(* What the locker reports, and what is written of it.                       *)
BoxStates == {"VACANT", "RESERVED", "OPENED", "OCCUPIED"}
DoorReports == [kind : {"open", "vacant", "occupied", "closed"}, r : 0..Hires]
Visited ==
  /\ box \in BoxStates /\ opened \in {Never} \cup 0..Hires
  /\ sweep.newest \in 0..Hires
  /\ full \in BOOLEAN /\ ajar \in BOOLEAN
  /\ post \subseteq DoorReports /\ IsFiniteSet(post) /\ Cardinality(post) <= MaxPost

LEMMA ReportVisited ==
  ASSUME InHand, Visited, NEW kind \in {"open", "vacant", "occupied", "closed"},
         Report(kind)
  PROVE  post' \subseteq DoorReports /\ IsFiniteSet(post') /\ Cardinality(post') <= MaxPost
<1>1. PICK named \in {0, LatestHire} :
        post' = IF Cardinality(post) < MaxPost
                THEN post \cup {[kind |-> kind, r |-> named]} ELSE post
  BY DEF Report
<1>2. named \in 0..Hires
  BY LatestIs, PickupAssumption DEF InHand
<1> DEFINE e == [kind |-> kind, r |-> named]
<1>3. e \in DoorReports
  BY <1>2 DEF DoorReports
<1>4. /\ post \subseteq DoorReports /\ IsFiniteSet(post) /\ Cardinality(post) <= MaxPost
      /\ MaxPost \in Nat
  BY PickupAssumption DEF Visited
<1> HIDE DEF e
<1>5. /\ IsFiniteSet(post \cup {e}) /\ Cardinality(post) \in Nat
      /\ Cardinality(post \cup {e}) = IF e \in post THEN Cardinality(post)
                                      ELSE Cardinality(post) + 1
  BY <1>4, FS_AddElement, FS_CardinalityType
<1>6. CASE Cardinality(post) < MaxPost
  <2>1. post' = post \cup {e}
    BY <1>1, <1>6 DEF e
  <2>2. Cardinality(post \cup {e}) <= MaxPost
    BY <1>4, <1>5, <1>6
  <2> QED  BY <1>3, <1>4, <1>5, <2>1, <2>2
<1>7. CASE ~(Cardinality(post) < MaxPost)
  BY <1>1, <1>4, <1>7
<1> QED  BY <1>6, <1>7

LEMMA PostShrinks ==
  ASSUME Visited, NEW e \in post
  PROVE  /\ post \ {e} \subseteq DoorReports /\ IsFiniteSet(post \ {e})
         /\ Cardinality(post \ {e}) <= MaxPost
<1>1. IsFiniteSet(post) /\ post \ {e} \in SUBSET post /\ post \subseteq DoorReports
  BY DEF Visited
<1>2. IsFiniteSet(post \ {e}) /\ Cardinality(post \ {e}) <= Cardinality(post)
  BY <1>1, FS_Subset
<1>3. Cardinality(post) \in Nat /\ Cardinality(post \ {e}) \in Nat
  BY <1>1, <1>2, FS_CardinalityType
<1>4. Cardinality(post) <= MaxPost /\ MaxPost \in Nat
  BY PickupAssumption DEF Visited
<1>5. Cardinality(post \ {e}) <= MaxPost
  BY <1>2, <1>3, <1>4
<1> QED  BY <1>1, <1>2, <1>5

(* Steps that leave the post alone.                                         *)
LEMMA QuietVisited ==
  ASSUME Visited, post' = post, box' \in BoxStates, opened' \in {Never} \cup 0..Hires,
         sweep'.newest \in 0..Hires, full' \in BOOLEAN, ajar' \in BOOLEAN
  PROVE  Visited'
BY DEF Visited

LEMMA VisitedStep == InHand /\ Visited /\ [PickupNext]_pickupVars => Visited'
<1> SUFFICES ASSUME InHand, Visited, [PickupNext]_pickupVars PROVE Visited'
  OBVIOUS
<1> USE DEF BoxStates, hireRows, atLocker
<1>1. /\ box \in BoxStates /\ opened \in {Never} \cup 0..Hires /\ sweep.newest \in 0..Hires
      /\ full \in BOOLEAN /\ ajar \in BOOLEAN /\ post \subseteq DoorReports
  BY DEF Visited
<1>2. PickupTypes /\ LatestHire \in 0..Hires /\ call.newest \in 0..Hires
      /\ Asleep.newest \in 0..Hires
  BY LatestIs, PickupAssumption DEF InHand, PickupTypes, PickupCalls, Asleep
<1>3. CASE UNCHANGED pickupVars
  BY <1>1, <1>3, QuietVisited DEF pickupVars
<1>4. ASSUME NEW r \in 1..Hires,
             AskToOpen(r) \/ AskToCollect(r) \/ CollectedByTimeout(r) \/ GiveUp(r)
      PROVE  Visited'
  BY <1>1, <1>4, QuietVisited DEF AskToOpen, AskToCollect, CollectedByTimeout, Collected, GiveUp
<1>5. CASE HandOverNext \/ AskToTest \/ ResetSkipped \/ ResetCalls
  BY <1>1, <1>5, QuietVisited DEF HandOverNext, WriteCode, AskToTest, ResetSkipped, ResetCalls
<1>6. ASSUME NEW done \in BOOLEAN, NEW heard \in BOOLEAN, CollectAnswered(done, heard)
      PROVE  Visited'
  BY <1>1, <1>6, QuietVisited DEF CollectAnswered, WriteCode, Collected
<1>7. ASSUME NEW done \in BOOLEAN, NEW heard \in BOOLEAN, ResetAnswered(done, heard)
      PROVE  Visited'
  BY <1>1, <1>7, QuietVisited DEF ResetAnswered, WriteCode
<1>8. ASSUME NEW done \in BOOLEAN, NEW heard \in BOOLEAN, DoorAnswered(done, heard)
      PROVE  Visited'
  <2>1. /\ box' \in BoxStates /\ opened' \in {Never} \cup 0..Hires /\ UNCHANGED <<sweep, full>>
        /\ ajar' \in BOOLEAN /\ (Report("open") \/ post' = post)
    BY <1>1, <1>2, <1>8 DEF DoorAnswered
  <2>2. post' \subseteq DoorReports /\ IsFiniteSet(post') /\ Cardinality(post') <= MaxPost
    BY <2>1, ReportVisited DEF Visited
  <2> QED  BY <1>1, <2>1, <2>2 DEF Visited
<1>9. ASSUME NEW done \in BOOLEAN, NEW heard \in BOOLEAN, SweepWrites(done, heard)
      PROVE  Visited'
  BY <1>1, <1>2, <1>9, QuietVisited DEF SweepWrites, WriteCode
<1>10. CASE SweepAsks
  <2>1. sweep'.newest = LatestHire
    BY <1>10 DEF SweepAsks, Asleep
  <2> QED  BY <1>1, <1>2, <1>10, <2>1, QuietVisited DEF SweepAsks
<1>11. CASE SweepReads
  <2>1. sweep'.newest = sweep.newest
    BY <1>2, <1>11 DEF SweepReads, PickupTypes, Sweep
  <2> QED  BY <1>1, <1>11, <2>1, QuietVisited DEF SweepReads
<1>12. ASSUME NEW e \in post, DoorEvent(e) PROVE Visited'
  <2>1. e \in DoorReports /\ post' = post \ {e} /\ UNCHANGED <<sweep, full, ajar>>
    BY <1>1, <1>12 DEF DoorEvent
  <2>2. box' \in BoxStates /\ opened' \in {Never} \cup 0..Hires
    <3>1. CASE Collected(e.r)
      BY <1>1, <3>1 DEF Collected
    <3>2. CASE ~Collected(e.r)
      <4>1. box' = BoxAfter(e) /\ opened' = IF e.kind = "open" THEN LatestHire ELSE opened
        BY <1>12, <3>2 DEF DoorEvent
      <4>2. BoxAfter(e) \in BoxStates
        BY <1>1, <2>1 DEF BoxAfter, DoorReports
      <4> QED  BY <1>1, <1>2, <4>1, <4>2
    <3> QED  BY <3>1, <3>2
  <2>3. post' \subseteq DoorReports /\ IsFiniteSet(post') /\ Cardinality(post') <= MaxPost
    BY <2>1, PostShrinks
  <2> QED  BY <1>1, <2>1, <2>2, <2>3 DEF Visited
<1>13. ASSUME NEW e \in post, EventIsLost(e) PROVE Visited'
  <2>1. post' = post \ {e} /\ UNCHANGED <<box, opened, sweep, full, ajar>>
    BY <1>13 DEF EventIsLost
  <2>2. post' \subseteq DoorReports /\ IsFiniteSet(post') /\ Cardinality(post') <= MaxPost
    BY <2>1, PostShrinks
  <2> QED  BY <1>1, <2>1, <2>2 DEF Visited
<1>14. CASE OpenByCode \/ DoorFallsShut
  <2>1. /\ \E kind \in {"open", "vacant", "occupied", "closed"} : Report(kind)
        /\ UNCHANGED <<box, opened, sweep, full>> /\ ajar' \in BOOLEAN
    BY <1>14 DEF OpenByCode, DoorFallsShut
  <2>2. post' \subseteq DoorReports /\ IsFiniteSet(post') /\ Cardinality(post') <= MaxPost
    BY <2>1, ReportVisited
  <2> QED  BY <1>1, <2>1, <2>2 DEF Visited
<1>15. CASE LockerForgets
  BY <1>1, <1>15, QuietVisited DEF LockerForgets
<1> QED  BY <1>3, <1>4, <1>5, <1>6, <1>7, <1>8, <1>9, <1>10, <1>11, <1>12, <1>13, <1>14,
            <1>15 DEF PickupNext, Answered

LEMMA VisitedAtFirst == PickupInit => Visited
<1> SUFFICES ASSUME PickupInit PROVE Visited
  OBVIOUS
<1>1. /\ box = "OCCUPIED" /\ opened = Never /\ sweep = Asleep /\ full = TRUE
      /\ ajar = FALSE /\ post = {}
  BY DEF PickupInit
<1>2. Asleep.newest = 0 /\ 0 \in 0..Hires /\ MaxPost \in Nat
  BY PickupAssumption DEF Asleep
<1>3. IsFiniteSet(post) /\ Cardinality(post) <= MaxPost
  BY <1>1, <1>2, FS_EmptySet
<1> QED  BY <1>1, <1>2, <1>3 DEF Visited, BoxStates

LEMMA PickupIsTyped == InHand /\ Visited => PickupTypeOK
BY DEF InHand, PickupTypes, HireStates, Visited, BoxStates, PickupTypeOK

(* Whatever requests, ticks, events and resets of the locker interleave, every *)
(* row of a pickup has its type and no more events are under way than fit.    *)
THEOREM PickupsAreTyped == PickupSpec => []PickupTypeOK
<1>1. InHand /\ Visited /\ [PickupNext]_pickupVars => (InHand /\ Visited)'
  BY InHandStep, VisitedStep
<1> QED  BY <1>1, InHandAtFirst, VisitedAtFirst, PickupIsTyped, PTL DEF PickupSpec
=============================================================================
