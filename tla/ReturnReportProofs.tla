------------------------- MODULE ReturnReportProofs -------------------------
(***************************************************************************)
(* Proofs about ReturnReport for any rentals, photos, notes and number of   *)
(* confirmations in flight.                                                 *)
(*                                                                         *)
(* The lock of the rental's row does it: of two confirmations of a rental   *)
(* one waits (OneEach), so what a confirmation has read of the report is     *)
(* still so when it commits (StillTrue), and the second one sees a return    *)
(* that is completed.  The door takes no lock and may complete the return    *)
(* once beside it.  That no photo proves two returns is not guarded by the   *)
(* lock; it holds while the client confirms one rental at a time (Fresh).    *)
(*                                                                         *)
(* The last theorem is about the three components of the custody of an item  *)
(* side by side, as MCReturns composes them.                                *)
(***************************************************************************)
EXTENDS MCReturns, ReturnsProofs

AllNotes == Notes \cup {NoNote}
ReportRow == [n : {1}, photos : SUBSET Photos, note : AllNotes]
Confirmation == [at : {"none", "checked"}, r : Returned, photos : SUBSET Photos,
                 note : AllNotes, saw : {"returning", "completed"},
                 report : {"none", "open"}]

ReportTypes ==
  /\ returnOf \in [Returned -> {"returning", "completed", "closed"}]
  /\ uploaded \in SUBSET Photos
  /\ reports \in [Returned -> SUBSET ReportRow]
  /\ \A r \in Returned : \A p \in reports[r] : p.photos \subseteq uploaded
  /\ tab \in [Tabs -> Confirmation]
  /\ \A h \in Tabs : tab[h].photos \subseteq uploaded
  /\ completions \in [Returned -> Nat]

OneEach ==
  \A g, h \in Tabs :
    tab[g].at = "checked" /\ tab[h].at = "checked" /\ tab[g].r = tab[h].r => g = h

Counted(r) ==
  /\ \A p, q \in reports[r] : p = q
  /\ returnOf[r] = "returning" => completions[r] = 0 /\ reports[r] = {}
  /\ completions[r] <= 2

StillTrue(s, rt, rp, n) ==
  s.at = "checked" =>
    /\ s.report = "none" <=> rp[s.r] = {}
    /\ s.saw = "returning" => rp[s.r] = {} /\ n[s.r] <= 1
    /\ s.saw # "returning" => rt[s.r] # "returning"
    /\ \A p \in rp[s.r] : p.photos = {}

Orderly ==
  /\ ReportTypes /\ OneEach
  /\ \A r \in Returned : Counted(r)
  /\ \A h \in Tabs : StillTrue(tab[h], returnOf, reports, completions)

(* The photos of a confirmation are in no report.                           *)
Fresh ==
  /\ \A g, h \in Tabs : tab[g].at = "checked" /\ tab[h].at = "checked" => g = h
  /\ \A h \in Tabs : tab[h].at = "checked" =>
       \A r \in Returned : \A p \in reports[r] : p.photos \cap tab[h].photos = {}
  /\ \A r, s \in Returned : r # s =>
       \A p \in reports[r], q \in reports[s] : p.photos \cap q.photos = {}
Told == Orderly /\ (OneReturn => Fresh)

LEMMA WaitingIs ==
  Waiting \in Confirmation /\ Waiting.at = "none" /\ Waiting.photos = {}
  BY ReportAssumption DEF Waiting, Confirmation, AllNotes

-----------------------------------------------------------------------------
(* What a confirmation writes: at most one report, with its photos.          *)
LEMMA Written ==
  ASSUME Told, NEW h \in Tabs, Commit(h)
  PROVE  \E X \in SUBSET ReportRow :
           /\ reports' = [reports EXCEPT ![tab[h].r] = X]
           /\ \A p, q \in X : p = q
           /\ \A p \in X : p.photos = tab[h].photos
<1> DEFINE s == tab[h]
           R == reports[s.r]
<1>1. /\ ReportTypes /\ StillTrue(s, returnOf, reports, completions)
      /\ Counted(s.r) /\ s.at = "checked" /\ s \in Confirmation
  BY DEF Told, Orderly, Commit, ReportTypes, Confirmation
<1>2. s.r \in Returned /\ s.photos \in SUBSET Photos /\ s.note \in AllNotes
      /\ s.report \in {"none", "open"}
  BY <1>1 DEF Confirmation
<1>3. R \in SUBSET ReportRow /\ \A p, q \in R : p = q
  BY <1>1, <1>2 DEF ReportTypes, Counted
<1>4. (s.report = "none" <=> R = {}) /\ \A p \in R : p.photos = {}
  BY <1>1 DEF StillTrue
<1>5. CASE s.report = "open"
  <2>1. PICK p \in R : TRUE
    BY <1>4, <1>5
  <2>2. p \in ReportRow /\ p.n = 1 /\ p.photos = {} /\ R = {p}
    BY <1>3, <1>4 DEF ReportRow
  <2>3. First(s.r) = p
    BY <2>2 DEF First
  <2> DEFINE note == IF s.note = NoNote THEN p.note ELSE s.note
             new == [p EXCEPT !.photos = @ \cup s.photos, !.note = note]
  <2>4. new \in ReportRow /\ new.photos = s.photos
    BY <1>2, <2>2 DEF ReportRow
  <2>5. Attach(s.r, s.photos, s.note)
    BY <1>5 DEF Commit
  <2>6. reports' = [reports EXCEPT ![s.r] = (R \ {p}) \cup {new}]
    BY <2>3, <2>5 DEF Attach
  <2>7. (R \ {p}) \cup {new} = {new}
    BY <2>2
  <2> HIDE DEF new
  <2>8. {new} \in SUBSET ReportRow /\ \A x \in {new} : x.photos = s.photos
    BY <2>4
  <2>9. QED
    BY <2>6, <2>7, <2>8
<1>6. CASE s.report = "none" /\ (s.photos # {} \/ s.note # NoNote)
  <2> DEFINE new == [n |-> 1, photos |-> s.photos, note |-> s.note]
  <2>1. R = {} /\ Cardinality(R) + 1 = 1
    BY <1>4, <1>6, FS_EmptySet
  <2>2. AddReport(s.r, s.photos, s.note)
    BY <1>6 DEF Commit
  <2>3. reports' = [reports EXCEPT ![s.r] = {new}]
    BY <2>1, <2>2 DEF AddReport
  <2>4. new \in ReportRow /\ new.photos = s.photos
    BY <1>2 DEF ReportRow
  <2> HIDE DEF new
  <2>5. {new} \in SUBSET ReportRow /\ \A x \in {new} : x.photos = s.photos
    BY <2>4
  <2>6. QED
    BY <2>3, <2>5
<1>7. CASE s.report = "none" /\ ~(s.photos # {} \/ s.note # NoNote)
  <2>1. reports' = reports /\ R = {}
    BY <1>4, <1>7 DEF Commit
  <2>2. reports' = [reports EXCEPT ![s.r] = R]
    BY <1>1, <2>1 DEF ReportTypes
  <2>3. QED
    BY <2>1, <2>2
<1>8. QED
  BY <1>2, <1>5, <1>6, <1>7

-----------------------------------------------------------------------------
LEMMA UploadTold ==
  ASSUME Told, NEW f \in Photos, Upload(f)
  PROVE  Told'
<1>1. UNCHANGED <<returnOf, reports, tab, completions>> /\ uploaded' = uploaded \cup {f}
  BY DEF Upload
<1>2. ReportTypes'
  BY <1>1 DEF Told, Orderly, ReportTypes
<1>3. QED
  BY <1>1, <1>2 DEF Told, Orderly, OneEach, Counted, StillTrue, Fresh

LEMMA ReadTold ==
  ASSUME Told, NEW h \in Tabs, NEW r \in Returned, NEW photos \in SUBSET Photos,
         NEW note \in AllNotes, Read(h, r, photos, note)
  PROVE  Told'
<1> DEFINE s == [at |-> "checked", r |-> r, photos |-> photos, note |-> note,
                 saw |-> returnOf[r],
                 report |-> IF reports[r] = {} THEN "none" ELSE "open"]
<1>1. /\ tab[h] = Waiting /\ ~Locked(r) /\ tab' = [tab EXCEPT ![h] = s]
      /\ OneReturn => \A g \in Tabs : tab[g] = Waiting \/ tab[g].r = r
      /\ UNCHANGED <<returnOf, uploaded, reports, completions>>
  BY DEF Read
<1>2. /\ returnOf[r] \in {"returning", "completed"}
      /\ returnOf[r] # "returning" /\ reports[r] # {} => First(r).photos = {}
      /\ photos \subseteq uploaded /\ photos \cap Attached \subseteq {}
  BY DEF Read, Accepted
<1>3. ReportTypes /\ Counted(r)
  BY DEF Told, Orderly
<1>4. s \in Confirmation
  BY <1>2 DEF Confirmation
<1>5. s.at = "checked" /\ s.r = r /\ s.photos = photos /\ s.saw = returnOf[r]
      /\ (s.report = "none" <=> reports[r] = {})
  OBVIOUS
<1> HIDE DEF s
<1>6. \A g \in Tabs : tab'[g] = IF g = h THEN s ELSE tab[g]
  BY <1>1, <1>3 DEF ReportTypes
<1>7. ReportTypes'
  BY <1>1, <1>2, <1>3, <1>4, <1>5, <1>6 DEF ReportTypes
<1>8. OneEach'
  BY <1>1, <1>5, <1>6 DEF Told, Orderly, OneEach, Locked
<1>9. StillTrue(s, returnOf', reports', completions')
  <2>1. ASSUME NEW p \in reports[r] PROVE p.photos = {}
    <3>1. p \in ReportRow /\ p.n = 1 /\ reports[r] = {p}
      BY <1>3 DEF ReportTypes, Counted, ReportRow
    <3>2. First(r) = p
      BY <3>1 DEF First
    <3>3. returnOf[r] # "returning"
      BY <1>3 DEF Counted
    <3>4. QED
      BY <1>2, <3>1, <3>2, <3>3
  <2>2. s.saw = "returning" => reports[r] = {} /\ completions[r] <= 1
    BY <1>3, <1>5 DEF Counted
  <2>3. QED
    BY <1>1, <1>5, <2>1, <2>2 DEF StillTrue
<1>10. ASSUME NEW g \in Tabs PROVE StillTrue(tab'[g], returnOf', reports', completions')
  BY <1>1, <1>6, <1>9 DEF Told, Orderly, StillTrue
<1>11. Orderly'
  BY <1>1, <1>7, <1>8, <1>10 DEF Told, Orderly, Counted, StillTrue
<1>12. OneReturn => Fresh'
  <2>1. SUFFICES ASSUME OneReturn PROVE Fresh'
    OBVIOUS
  <2>2. \A g \in Tabs : tab[g].at # "checked"
    BY <1>1, <2>1, WaitingIs DEF Locked
  <2>3. \A q \in Returned : \A p \in reports[q] : p.photos \cap photos = {}
    BY <1>2 DEF Attached
  <2>4. QED
    BY <1>1, <1>5, <1>6, <2>1, <2>2, <2>3 DEF Told, Fresh
<1>13. QED
  BY <1>11, <1>12 DEF Told

(* Nobody else holds the lock of the rental whose report is written.        *)
LEMMA CommitTold ==
  ASSUME Told, NEW h \in Tabs, Commit(h)
  PROVE  Told'
<1> DEFINE s == tab[h]
           r == s.r
<1>1. /\ s.at = "checked" /\ tab' = [tab EXCEPT ![h] = Waiting] /\ uploaded' = uploaded
      /\ s.saw = "returning" => /\ returnOf' = [returnOf EXCEPT ![r] = "completed"]
                                /\ completions' = [completions EXCEPT ![r] = @ + 1]
      /\ s.saw # "returning" => UNCHANGED <<returnOf, completions>>
  BY DEF Commit
<1>2. PICK X \in SUBSET ReportRow :
        /\ reports' = [reports EXCEPT ![r] = X]
        /\ \A p, q \in X : p = q
        /\ \A p \in X : p.photos = s.photos
  BY Written
<1>3. ReportTypes /\ StillTrue(s, returnOf, reports, completions) /\ s \in Confirmation
  BY DEF Told, Orderly, ReportTypes
<1>4. r \in Returned /\ s.photos \subseteq uploaded /\ s.saw \in {"returning", "completed"}
  BY <1>3 DEF Confirmation, ReportTypes
<1> HIDE DEF r
<1>5. \A g \in Tabs : tab'[g] = IF g = h THEN Waiting ELSE tab[g]
  BY <1>1, <1>3 DEF ReportTypes
<1>6. \A q \in Returned : reports'[q] = IF q = r THEN X ELSE reports[q]
  BY <1>2, <1>3 DEF ReportTypes
<1>7. \A q \in Returned \ {r} : returnOf'[q] = returnOf[q] /\ completions'[q] = completions[q]
  BY <1>1, <1>3 DEF ReportTypes
<1>8. ReportTypes'
  <2>1. reports' \in [Returned -> SUBSET ReportRow]
    BY <1>2, <1>3 DEF ReportTypes
  <2>2. tab' \in [Tabs -> Confirmation]
    BY <1>1, <1>3, WaitingIs DEF ReportTypes
  <2>3. returnOf' \in [Returned -> {"returning", "completed", "closed"}]
        /\ completions' \in [Returned -> Nat]
    <3>1. completions[r] + 1 \in Nat
      BY <1>3, <1>4 DEF ReportTypes
    <3>2. QED
      BY <1>1, <1>3, <1>4, <3>1 DEF ReportTypes
  <2>4. \A q \in Returned : \A p \in reports'[q] : p.photos \subseteq uploaded
    BY <1>2, <1>3, <1>4, <1>6 DEF ReportTypes
  <2>5. \A g \in Tabs : tab'[g].photos \subseteq uploaded
    BY <1>3, <1>5, WaitingIs DEF ReportTypes
  <2>6. uploaded' = uploaded /\ uploaded \in SUBSET Photos
    BY <1>1, <1>3 DEF ReportTypes
  <2>7. QED
    BY <2>1, <2>2, <2>3, <2>4, <2>5, <2>6 DEF ReportTypes
<1>9. OneEach'
  BY <1>5, WaitingIs DEF Told, Orderly, OneEach
<1>10. ASSUME NEW q \in Returned PROVE Counted(q)'
  <2>1. CASE q # r
    BY <1>6, <1>7, <2>1 DEF Told, Orderly, Counted
  <2>2. CASE q = r /\ s.saw = "returning"
    <3>1. returnOf'[r] = "completed" /\ completions'[r] = completions[r] + 1
      BY <1>1, <1>3, <1>4, <2>2 DEF ReportTypes
    <3>2. completions[r] <= 1 /\ completions[r] \in Nat
      BY <1>1, <1>3, <1>4, <2>2 DEF StillTrue, ReportTypes, r
    <3>3. QED
      BY <1>2, <1>6, <2>2, <3>1, <3>2 DEF Counted
  <2>3. CASE q = r /\ s.saw # "returning"
    <3>1. returnOf' = returnOf /\ completions' = completions
      BY <1>1, <2>3
    <3>2. returnOf[r] # "returning"
      BY <1>1, <1>3, <2>3 DEF StillTrue, r
    <3>3. QED
      BY <1>2, <1>6, <2>3, <3>1, <3>2 DEF Told, Orderly, Counted
  <2>4. QED
    BY <2>1, <2>2, <2>3
<1>11. ASSUME NEW g \in Tabs PROVE StillTrue(tab'[g], returnOf', reports', completions')
  <2>1. CASE g = h
    BY <1>5, <2>1, WaitingIs DEF StillTrue
  <2>2. CASE g # h /\ tab[g].at = "checked"
    <3>1. tab[g].r # r /\ tab[g].r \in Returned
      BY <1>1, <1>3, <2>2 DEF Told, Orderly, OneEach, r, ReportTypes, Confirmation
    <3>2. QED
      BY <1>5, <1>6, <1>7, <2>2, <3>1 DEF Told, Orderly, StillTrue
  <2>3. CASE g # h /\ tab[g].at # "checked"
    BY <1>5, <2>3 DEF StillTrue
  <2>4. QED
    BY <2>1, <2>2, <2>3
<1>12. OneReturn => Fresh'
  <2>1. SUFFICES ASSUME OneReturn, Fresh PROVE Fresh'
    BY DEF Told
  <2>2. \A g \in Tabs : tab'[g].at # "checked"
    BY <1>1, <1>5, <2>1, WaitingIs DEF Fresh
  <2>3. \A q \in Returned : \A p \in reports[q] : p.photos \cap s.photos = {}
    BY <1>1, <2>1 DEF Fresh
  <2>4. ASSUME NEW q \in Returned, NEW t \in Returned, q # t,
               NEW x \in reports'[q], NEW y \in reports'[t]
        PROVE  x.photos \cap y.photos = {}
    BY <1>2, <1>6, <2>1, <2>3, <2>4 DEF Fresh
  <2>5. QED
    BY <2>2, <2>4 DEF Fresh
<1>13. QED
  BY <1>8, <1>9, <1>10, <1>11, <1>12 DEF Told, Orderly

LEMMA CommitFailsTold ==
  ASSUME Told, NEW h \in Tabs, CommitFails(h)
  PROVE  Told'
<1>1. /\ tab' = [tab EXCEPT ![h] = Waiting]
      /\ UNCHANGED <<returnOf, uploaded, reports, completions>>
  BY DEF CommitFails
<1>2. ReportTypes
  BY DEF Told, Orderly
<1>3. \A g \in Tabs : tab'[g] = IF g = h THEN Waiting ELSE tab[g]
  BY <1>1, <1>2 DEF ReportTypes
<1>4. ReportTypes'
  BY <1>1, <1>2, <1>3, WaitingIs DEF ReportTypes
<1>5. QED
  BY <1>1, <1>3, <1>4, WaitingIs DEF Told, Orderly, OneEach, Counted, StillTrue, Fresh

(* The door takes no lock: it may be the first completion of two.           *)
LEMMA DoorTold ==
  ASSUME Told, NEW r \in Returned, DoorCompletes(r) \/ WindowCloses(r)
  PROVE  Told'
<1>1. ReportTypes /\ Counted(r)
  BY DEF Told, Orderly
<1>2. CASE DoorCompletes(r)
  <2>1. /\ returnOf[r] = "returning" /\ returnOf' = [returnOf EXCEPT ![r] = "completed"]
        /\ completions' = [completions EXCEPT ![r] = @ + 1]
        /\ UNCHANGED <<uploaded, reports, tab>>
    BY <1>2 DEF DoorCompletes
  <2>2. completions[r] = 0
    BY <1>1, <2>1 DEF Counted
  <2>3. \A q \in Returned : /\ returnOf'[q] = IF q = r THEN "completed" ELSE returnOf[q]
                            /\ completions'[q] = IF q = r THEN 1 ELSE completions[q]
    BY <1>1, <2>1, <2>2 DEF ReportTypes
  <2>4. ReportTypes'
    BY <1>1, <2>1 DEF ReportTypes
  <2>5. \A q \in Returned : Counted(q)'
    BY <2>1, <2>3 DEF Told, Orderly, Counted
  <2>6. ASSUME NEW h \in Tabs PROVE StillTrue(tab'[h], returnOf', reports', completions')
    <3>1. tab[h].r \in Returned
      BY <1>1 DEF ReportTypes, Confirmation
    <3>2. QED
      BY <2>1, <2>3, <3>1 DEF Told, Orderly, StillTrue
  <2>7. OneEach' /\ (OneReturn => Fresh')
    BY <2>1 DEF Told, Orderly, OneEach, Fresh
  <2>8. QED
    BY <2>4, <2>5, <2>6, <2>7 DEF Told, Orderly
<1>3. CASE WindowCloses(r)
  <2>1. /\ returnOf' = [returnOf EXCEPT ![r] = "closed"]
        /\ UNCHANGED <<uploaded, reports, tab, completions>>
    BY <1>3 DEF WindowCloses
  <2>2. \A q \in Returned : returnOf'[q] = IF q = r THEN "closed" ELSE returnOf[q]
    BY <1>1, <2>1 DEF ReportTypes
  <2>3. ReportTypes'
    BY <1>1, <2>1 DEF ReportTypes
  <2>4. OneEach' /\ (OneReturn => Fresh')
    BY <2>1 DEF Told, Orderly, OneEach, Fresh
  <2>5. \A q \in Returned : Counted(q)'
    BY <2>1, <2>2 DEF Told, Orderly, Counted
  <2>6. ASSUME NEW h \in Tabs PROVE StillTrue(tab'[h], returnOf', reports', completions')
    <3>1. tab[h].r \in Returned
      BY <1>1 DEF ReportTypes, Confirmation
    <3>2. QED
      BY <2>1, <2>2, <3>1 DEF Told, Orderly, StillTrue
  <2>7. QED
    BY <2>3, <2>4, <2>5, <2>6 DEF Told, Orderly
<1>4. QED
  BY <1>2, <1>3

-----------------------------------------------------------------------------
LEMMA ToldAtFirst == ReportInit => Told
BY WaitingIs DEF ReportInit, Told, Orderly, ReportTypes, OneEach, Counted, StillTrue, Fresh

LEMMA ToldStep == Told /\ [ReportNext]_reportVars => Told'
<1> SUFFICES ASSUME Told, [ReportNext]_reportVars PROVE Told'
  OBVIOUS
<1>1. CASE UNCHANGED reportVars
  <2>1. UNCHANGED <<returnOf, uploaded, reports, tab, completions>>
    BY <1>1 DEF reportVars
  <2>2. ReportTypes' /\ OneEach' /\ (OneReturn => Fresh')
    BY <2>1 DEF Told, Orderly, ReportTypes, OneEach, Fresh
  <2>3. \A r \in Returned : Counted(r)'
    BY <2>1 DEF Told, Orderly, Counted
  <2> QED  BY <2>1, <2>2, <2>3 DEF Told, Orderly
<1>2. CASE ReportNext
  BY <1>2, UploadTold, ReadTold, CommitTold, CommitFailsTold, DoorTold DEF ReportNext, AllNotes
<1> QED  BY <1>1, <1>2

LEMMA ToldHolds == ReportSpec => []Told
BY ToldAtFirst, ToldStep, PTL DEF ReportSpec

LEMMA ToldIsTyped == Told => ReportTypeOK /\ ReportedOnce
<1> SUFFICES ASSUME Told PROVE ReportTypeOK /\ ReportedOnce
  OBVIOUS
<1>1. /\ ReportTypes /\ \A r \in Returned : Counted(r)
      /\ \A h \in Tabs : StillTrue(tab[h], returnOf, reports, completions)
  BY DEF Told, Orderly
<1>2. ReportTypeOK
  BY <1>1 DEF ReportTypes, ReportTypeOK, ReportRow, Confirmation, AllNotes
<1>3. ASSUME NEW r \in Returned PROVE Cardinality(reports[r]) <= 1
  <2>1. CASE reports[r] = {}
    BY <2>1, FS_EmptySet
  <2>2. CASE reports[r] # {}
    <3>1. PICK p : reports[r] = {p}
      BY <1>1, <2>2 DEF Counted
    <3>2. Cardinality({p}) = 1
      BY FS_Singleton
    <3> QED  BY <3>1, <3>2
  <2> QED  BY <2>1, <2>2
<1>4. ReportedOnce
  BY <1>1, <1>3 DEF ReportedOnce, Counted, StillTrue
<1> QED  BY <1>2, <1>4

(* However many confirmations of however many rentals race each other and    *)
(* the door: a rental gets one report, none is confirmed over photos already *)
(* sent, and the return is completed by one confirmation, and by the door at *)
(* most once beside it (confirm_return locks the rental).                   *)
THEOREM RentalsAreReportedOnce == ReportSpec => [](ReportTypeOK /\ ReportedOnce)
BY ToldHolds, ToldIsTyped, PTL

(* ... and no photo proves two returns, while the client confirms one rental *)
(* at a time (resolve_return_photo_files).                                  *)
THEOREM PhotosProveOneReturn ==
  ASSUME OneReturn PROVE ReportSpec => []OneReport
<1>1. Told => OneReport
  BY ToldIsTyped DEF Told, Fresh, OneReport
<1> QED  BY <1>1, ToldHolds, PTL

-----------------------------------------------------------------------------
(* The three components side by side, as the run composes them.              *)

doorVars == <<returnVars, reportVars, pickupVars, focus>>
AtDoor == Custody /\ Told /\ InHand /\ Visited

LEMMA AtDoorStays == AtDoor /\ [AtDoorNext]_doorVars => AtDoor'
<1> SUFFICES ASSUME AtDoor, [AtDoorNext]_doorVars PROVE AtDoor'
  OBVIOUS
<1>1. /\ [ReturnsNext]_returnVars
      /\ [ReportNext]_reportVars
      /\ [PickupNext]_pickupVars
  BY DEF AtDoorNext, doorVars
<1> QED  BY <1>1, NextCustody, ToldStep, InHandStep, VisitedStep DEF AtDoor

LEMMA AtDoorAtFirst == AtDoorInit => AtDoor
BY InitCustody, ToldAtFirst, InHandAtFirst, VisitedAtFirst DEF AtDoorInit, AtDoor

(* Collection, return and report side by side, in any order of their steps:  *)
(* every row has its type, and what the run checks of the cells and doors    *)
(* holds for any rentals, units, cells, photos, handlers and bounds, and any *)
(* number of returns started beside each other.                             *)
THEOREM AtDoorAlways ==
  AtDoorSpec => [](ReturnTypes /\ OneReturnPerCell /\ LiveRentalKeepsUnit /\ OwnDoor)
<1>1. AtDoor => ReturnTypes /\ OneReturnPerCell /\ LiveRentalKeepsUnit /\ OwnDoor
  BY CustodyIsTyped, CustodyKeeps, ToldIsTyped, PickupIsTyped DEF AtDoor, ReturnTypes
<1> QED  BY <1>1, AtDoorAtFirst, AtDoorStays, PTL DEF AtDoorSpec, doorVars
=============================================================================
