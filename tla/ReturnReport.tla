----------------------------- MODULE ReturnReport -----------------------------
(***************************************************************************)
(* The photos and the note a client sends with a return.  They come with   *)
(* the confirmation, or, when the door has completed the return first,      *)
(* within a window after it.  A report without photos stays open for them, *)
(* one with photos is closed: the same photos again are a repeated request, *)
(* other photos are refused.                                               *)
(*                                                                         *)
(* confirm_return locks the row of the rental before it reads; the door     *)
(* does not.                                                               *)
(***************************************************************************)
EXTENDS Integers, FiniteSets

CONSTANTS
  Returned,    \* rentals of one client, each with an active return
  Photos,      \* files of the client that were asked for (presign)
  Notes,       \* comments
  NoNote,
  PhotosMax,   \* RETURN_PHOTOS_MAX
  Tabs,        \* confirmations that may be in flight
  OneReturn    \* TRUE: the client confirms one rental at a time

ASSUME ReportAssumption ==
  /\ Returned # {} /\ NoNote \notin Notes
  /\ PhotosMax \in Nat /\ OneReturn \in BOOLEAN

VARIABLES
  returnOf,  \* "returning", or "completed" with the window open or closed
  uploaded,  \* files whose bytes have arrived
  reports,   \* ConditionReport rows of a rental, oldest first
  tab,       \* what a confirmation has read
  completions \* how often the return of a rental was completed

reportVars == <<returnOf, uploaded, reports, tab, completions>>

Waiting == [at |-> "none", r |-> CHOOSE r \in Returned : TRUE,
            photos |-> {}, note |-> NoNote, saw |-> "returning", report |-> "none"]

ReportInit ==
  /\ returnOf = [r \in Returned |-> "returning"]
  /\ uploaded = {}
  /\ reports = [r \in Returned |-> {}]
  /\ tab = [h \in Tabs |-> Waiting]
  /\ completions = [r \in Returned |-> 0]

-----------------------------------------------------------------------------
(* All reports of a rental but the first are ignored when it is shown; the   *)
(* model keeps them with a number.                                          *)
First(r) == CHOOSE p \in reports[r] : p.n = 1
Attached == UNION {p.photos : p \in UNION {reports[r] : r \in Returned}}

Locked(r) == \E h \in Tabs : tab[h].at = "checked" /\ tab[h].r = r

Upload(f) ==
  /\ f \in Photos \ uploaded
  /\ uploaded' = uploaded \cup {f}
  /\ UNCHANGED <<returnOf, reports, tab, completions>>

(* resolve_return_photo_files: own, uploaded, few, and in no other report.   *)
Accepted(photos, own) ==
  /\ Cardinality(photos) <= PhotosMax /\ photos \subseteq uploaded
  /\ photos \cap Attached \subseteq own

(* Nothing to add: an empty body, the same note, the same photos.           *)
Repeated(r, photos, note) ==
  IF reports[r] # {} /\ First(r).photos # {}
  THEN photos = {} \/ photos = First(r).photos
  ELSE photos = {} /\ (note = NoNote \/ (reports[r] # {} /\ note = First(r).note))

(* Mutant: the row of the rental is not locked.                             *)
ReadUnlocked(h, r, photos, note) ==
  /\ tab[h] = Waiting
  /\ OneReturn => \A g \in Tabs : tab[g] = Waiting \/ tab[g].r = r
  /\ \/ returnOf[r] = "returning"
     \/ /\ returnOf[r] = "completed" /\ ~Repeated(r, photos, note)
        /\ reports[r] # {} => First(r).photos = {}
  /\ Accepted(photos, {})
  /\ tab' = [tab EXCEPT ![h] =
               [at |-> "checked", r |-> r, photos |-> photos, note |-> note,
                saw |-> returnOf[r],
                report |-> IF reports[r] = {} THEN "none" ELSE "open"]]
  /\ UNCHANGED <<returnOf, uploaded, reports, completions>>

(* The first query of confirm_return, and what it decides on.  Whatever is   *)
(* refused changes nothing.                                                 *)
Read(h, r, photos, note) ==
  /\ tab[h] = Waiting /\ ~Locked(r)
  /\ OneReturn => \A g \in Tabs : tab[g] = Waiting \/ tab[g].r = r
  /\ \/ returnOf[r] = "returning"
     \/ /\ returnOf[r] = "completed" /\ ~Repeated(r, photos, note)
        /\ reports[r] # {} => First(r).photos = {}
  /\ Accepted(photos, {})
  /\ tab' = [tab EXCEPT ![h] =
               [at |-> "checked", r |-> r, photos |-> photos, note |-> note,
                saw |-> returnOf[r],
                report |-> IF reports[r] = {} THEN "none" ELSE "open"]]
  /\ UNCHANGED <<returnOf, uploaded, reports, completions>>

AddReport(r, photos, note) ==
  reports' = [reports EXCEPT ![r] = @ \cup
                {[n |-> Cardinality(@) + 1, photos |-> photos, note |-> note]}]

(* attach_photos_to_return_report: a note replaces the earlier one.          *)
Attach(r, photos, note) ==
  reports' = [reports EXCEPT ![r] = (@ \ {First(r)}) \cup
                {[First(r) EXCEPT !.photos = @ \cup photos,
                                  !.note = IF note = NoNote THEN @ ELSE note]}]

(* The return is completed if it was active when it was read, and the report *)
(* is written in the same transaction.                                      *)
Commit(h) ==
  LET s == tab[h]
  IN /\ s.at = "checked"
     /\ IF s.saw = "returning"
        THEN /\ returnOf' = [returnOf EXCEPT ![s.r] = "completed"]
             /\ completions' = [completions EXCEPT ![s.r] = @ + 1]
        ELSE UNCHANGED <<returnOf, completions>>
     /\ IF s.report = "open" THEN Attach(s.r, s.photos, s.note)
        ELSE IF s.photos # {} \/ s.note # NoNote THEN AddReport(s.r, s.photos, s.note)
        ELSE UNCHANGED reports
     /\ tab' = [tab EXCEPT ![h] = Waiting]
     /\ UNCHANGED uploaded

CommitFails(h) ==
  /\ tab[h].at = "checked"
  /\ tab' = [tab EXCEPT ![h] = Waiting]
  /\ UNCHANGED <<returnOf, uploaded, reports, completions>>

(* complete_return_request for an event of the door.                        *)
DoorCompletes(r) ==
  /\ returnOf[r] = "returning"
  /\ returnOf' = [returnOf EXCEPT ![r] = "completed"]
  /\ completions' = [completions EXCEPT ![r] = @ + 1]
  /\ UNCHANGED <<uploaded, reports, tab>>

(* RETURN_PHOTO_LATE_WINDOW_MINUTES after the completion.                    *)
WindowCloses(r) ==
  /\ returnOf[r] = "completed"
  /\ returnOf' = [returnOf EXCEPT ![r] = "closed"]
  /\ UNCHANGED <<uploaded, reports, tab, completions>>

ReportNext ==
  \/ \E f \in Photos : Upload(f)
  \/ \E h \in Tabs :
       \/ Commit(h) \/ CommitFails(h)
       \/ \E r \in Returned, photos \in SUBSET Photos, note \in Notes \cup {NoNote} :
            Read(h, r, photos, note)
  \/ \E r \in Returned : DoorCompletes(r) \/ WindowCloses(r)

ReportSpec == ReportInit /\ [][ReportNext]_reportVars

-----------------------------------------------------------------------------
(* Every row has its type.                                                  *)
ReportTypeOK ==
  /\ returnOf \in [Returned -> {"returning", "completed", "closed"}]
  /\ uploaded \subseteq Photos
  /\ \A r \in Returned : \A p \in reports[r] :
       p.photos \subseteq uploaded /\ p.note \in Notes \cup {NoNote}
  /\ tab \in [Tabs -> [at : {"none", "checked"}, r : Returned,
                       photos : SUBSET Photos, note : Notes \cup {NoNote},
                       saw : {"returning", "completed"}, report : {"none", "open"}]]

(* A rental has one report, it has no photos yet while a confirmation is     *)
(* under way, and one tap more does not complete the return again.          *)
ReportedOnce ==
  /\ \A r \in Returned : Cardinality(reports[r]) <= 1 /\ completions[r] <= 2
  /\ \A h \in Tabs : tab[h].at = "checked" =>
       \A p \in reports[tab[h].r] : p.photos = {}

(* Two taps, a repeated request and the door in any order: a rental has one  *)
(* report, its photos once sent are never exchanged or added to, no photo    *)
(* proves two returns, and one tap more does not complete the return again   *)
(* once a confirmation has (confirm_return locks the rental,                 *)
(* _attach_late_return_photos, resolve_return_photo_files).                  *)
OneReport ==
  /\ ReportedOnce
  /\ \A r, s \in Returned : r # s =>
       \A p \in reports[r], q \in reports[s] : p.photos \cap q.photos = {}
=============================================================================
