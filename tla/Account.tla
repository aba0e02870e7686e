------------------------------- MODULE Account -------------------------------
(***************************************************************************)
(* One phone number: the codes that open it, the account behind it, and the *)
(* documents its owner submits for review.  A handler reads the rows it      *)
(* needs, waits, and commits; rows carry no version, so what it read may be  *)
(* gone by then.                                                            *)
(***************************************************************************)
EXTENDS Integers, FiniteSets, Sequences

CONSTANTS
  Docs,          \* document numbers of the owner
  MaxTries,      \* AuthVerificationSession.max_attempts
  MaxCodes, MaxSubmissions, \* bounds
  Callers,       \* handlers that may be in flight at once
  AccountBudgets \* parts: the handlers that run; racing: those that may run
                 \* next to each other; docs: documents in use; lost: commits
                 \* that may fail

AccountOps == {"request", "confirm", "submit", "delete", "review", "block"}
ASSUME AccountAssumption ==
  /\ MaxTries \in Nat \ {0} /\ MaxCodes \in Nat /\ MaxSubmissions \in Nat
  /\ AccountBudgets \subseteq
       [parts : SUBSET AccountOps, racing : SUBSET AccountOps, docs : SUBSET Docs,
        lost : Nat]

VARIABLES
  codes,     \* auth_verification_sessions, oldest first
  wrong,     \* wrong guesses of a code that were judged
  openedBy,  \* sessions a code has opened
  uncounted, \* wrong guesses whose commit failed
  exists, blocked, standing, \* the user row; standing: verification_status
  request,   \* verification_requests, one row per document number
  submissions, \* rows made so far; a row's number is its place among them
  call,      \* what each handler read, and will write
  accountBudget

codeVars == <<codes, wrong, openedBy, uncounted>>
userVars == <<exists, blocked, standing>>
docVars == <<request, submissions>>
accountVars == <<codeVars, userVars, docVars, call, accountBudget>>

Standings == {"DRAFT", "PENDING_REVIEW", "REJECTED", "APPROVED"}
NoRequest == [n |-> 0, status |-> "none"]
Quiet == [op |-> "none"]

AccountInit ==
  /\ accountBudget \in AccountBudgets
  /\ codes = <<>> /\ wrong = <<>> /\ openedBy = <<>> /\ uncounted = 0
  /\ exists = ("confirm" \notin accountBudget.parts) /\ blocked = FALSE
  /\ standing = "DRAFT"
  /\ request = [d \in Docs |-> NoRequest] /\ submissions = 0
  /\ call = [h \in Callers |-> Quiet]

-----------------------------------------------------------------------------
MayCall(h, op) ==
  /\ op \in accountBudget.parts /\ call[h] = Quiet
  /\ \A g \in Callers : call[g] = Quiet \/ {op, call[g].op} \subseteq accountBudget.racing
Calls(h, c) == call' = [call EXCEPT ![h] = c]
Answered(h) == Calls(h, Quiet)

(* A commit that fails is rolled back; the answer is sent all the same.     *)
CommitFails(h) ==
  /\ call[h].op # "none" /\ accountBudget.lost > 0
  /\ accountBudget' = [accountBudget EXCEPT !.lost = @ - 1]
  /\ IF call[h].op = "confirm" /\ call[h].result = "wrong"
     THEN wrong' = [wrong EXCEPT ![call[h].c] = @ + 1] /\ uncounted' = uncounted + 1
     ELSE UNCHANGED <<wrong, uncounted>>
  /\ Answered(h)
  /\ UNCHANGED <<codes, openedBy, userVars, docVars>>

-----------------------------------------------------------------------------
(* request_code: not while the newest code is pending and was sent less than *)
(* RESEND_MIN_INTERVAL_SECONDS ago.  The row is committed once the provider  *)
(* has answered: FAILED if it refused.                                      *)
StartRequestCode(h) ==
  /\ MayCall(h, "request") /\ Len(codes) < MaxCodes
  /\ codes # <<>> => ~(codes[Len(codes)].recent /\ codes[Len(codes)].status = "PENDING")
  /\ Calls(h, [op |-> "request"])
  /\ UNCHANGED <<codeVars, userVars, docVars, accountBudget>>

CodeSent(h, status) ==
  /\ call[h].op = "request" /\ Len(codes) < MaxCodes
  /\ codes' = Append(codes, [status |-> status, tries |-> 0, recent |-> TRUE,
                             old |-> FALSE])
  /\ wrong' = Append(wrong, 0) /\ openedBy' = Append(openedBy, 0)
  /\ Answered(h)
  /\ UNCHANGED <<uncounted, userVars, docVars, accountBudget>>

CodeAges(c) ==
  /\ ~codes[c].old
  /\ codes' = [codes EXCEPT ![c] = IF @.recent THEN [@ EXCEPT !.recent = FALSE]
                                   ELSE [@ EXCEPT !.old = TRUE]]
  /\ UNCHANGED <<wrong, openedBy, uncounted, userVars, docVars, call, accountBudget>>

(* confirm_code: the row is read and judged, then written.                  *)
Result(code, right) ==
  CASE code.old -> "expired"
    [] ~code.old /\ code.tries >= MaxTries -> "exhausted"
    [] ~code.old /\ code.tries < MaxTries /\ ~right -> "wrong"
    [] ~code.old /\ code.tries < MaxTries /\ right -> "right"

StartConfirmCode(h, c, right) ==
  /\ MayCall(h, "confirm") /\ codes[c].status = "PENDING"
  /\ Calls(h, [op |-> "confirm", c |-> c, tries |-> codes[c].tries, known |-> exists,
               result |-> Result(codes[c], right)])
  /\ UNCHANGED <<codeVars, userVars, docVars, accountBudget>>

CodeRefused(h) ==
  /\ call[h].op = "confirm" /\ call[h].result \in {"expired", "exhausted"}
  /\ codes' = [codes EXCEPT ![call[h].c].status =
                 IF call[h].result = "expired" THEN "EXPIRED" ELSE "FAILED"]
  /\ Answered(h)
  /\ UNCHANGED <<wrong, openedBy, uncounted, userVars, docVars, accountBudget>>

(* Mutant: the attempt is not counted.                                      *)
CodeWrongUncounted(h) ==
  LET c == call[h].c
  IN /\ call[h].op = "confirm" /\ call[h].result = "wrong"
     /\ wrong' = [wrong EXCEPT ![c] = @ + 1]
     /\ codes' = [codes EXCEPT ![c].status =
                    IF call[h].tries + 1 >= MaxTries THEN "FAILED" ELSE @]
     /\ Answered(h)
     /\ UNCHANGED <<openedBy, uncounted, userVars, docVars, accountBudget>>
CodeWrong(h) ==
  LET c == call[h].c
  IN /\ call[h].op = "confirm" /\ call[h].result = "wrong"
     /\ wrong' = [wrong EXCEPT ![c] = @ + 1]
     /\ codes' = [codes EXCEPT
                    ![c].tries = call[h].tries + 1,
                    ![c].status = IF call[h].tries + 1 >= MaxTries THEN "FAILED" ELSE @]
     /\ Answered(h)
     /\ UNCHANGED <<openedBy, uncounted, userVars, docVars, accountBudget>>

(* The user is made if there is none (the phone is unique) and a session     *)
(* opened; a blocked user is refused, and nothing of the attempt is kept.     *)
CodeRight(h) ==
  LET c == call[h].c
  IN /\ call[h].op = "confirm" /\ call[h].result = "right"
     /\ call[h].known = exists /\ ~blocked
     /\ codes' = [codes EXCEPT ![c].tries = call[h].tries + 1, ![c].status = "VERIFIED"]
     /\ openedBy' = [openedBy EXCEPT ![c] = @ + 1]
     /\ exists' = TRUE
     /\ Answered(h)
     /\ UNCHANGED <<wrong, uncounted, blocked, standing, docVars, accountBudget>>
LoginRefused(h) ==
  /\ call[h].op = "confirm" /\ call[h].result = "right"
  /\ blocked \/ call[h].known # exists
  /\ Answered(h)
  /\ UNCHANGED <<codeVars, userVars, docVars, accountBudget>>

-----------------------------------------------------------------------------
(* create_verification_request: the document is new, or its row is the       *)
(* owner's rejected one, which is replaced.                                 *)
StartSubmit(h, d) ==
  /\ MayCall(h, "submit") /\ exists /\ ~blocked /\ submissions < MaxSubmissions
  /\ standing \notin {"APPROVED", "PENDING_REVIEW"}
  /\ request[d].status \in {"none", "REJECTED"}
  /\ Calls(h, [op |-> "submit", d |-> d, n |-> request[d].n])
  /\ UNCHANGED <<codeVars, userVars, docVars, accountBudget>>

Submitted(h) ==
  LET d == call[h].d
  IN /\ call[h].op = "submit"
     /\ IF request[d].n \in {0, call[h].n}
        THEN /\ submissions' = submissions + 1
             /\ request' = [request EXCEPT ![d] = [n |-> submissions + 1,
                                                   status |-> "PENDING_REVIEW"]]
             /\ standing' = "PENDING_REVIEW"
        ELSE UNCHANGED <<submissions, request, standing>>  \* the number is unique
     /\ Answered(h)
     /\ UNCHANGED <<codeVars, exists, blocked, accountBudget>>

(* delete_verification_request: any row but an approved one.                *)
StartDelete(h, d) ==
  /\ MayCall(h, "delete") /\ exists /\ ~blocked
  /\ request[d].status \notin {"none", "APPROVED"}
  /\ Calls(h, [op |-> "delete", d |-> d, n |-> request[d].n, had |-> standing])
  /\ UNCHANGED <<codeVars, userVars, docVars, accountBudget>>

(* An attribute that is set to the value it was loaded with is not written. *)
Sets(h, new) == standing' = IF call[h].had # new THEN new ELSE standing

(* Mutant: the standing of the user stays.                                  *)
DeletedOnly(h) ==
  LET d == call[h].d
  IN /\ call[h].op = "delete"
     /\ request' = IF request[d].n = call[h].n THEN [request EXCEPT ![d] = NoRequest]
                   ELSE request
     /\ Answered(h)
     /\ UNCHANGED <<codeVars, userVars, submissions, accountBudget>>
Deleted(h) ==
  LET d == call[h].d
  IN /\ call[h].op = "delete"
     /\ request' = IF request[d].n = call[h].n THEN [request EXCEPT ![d] = NoRequest]
                   ELSE request
     /\ Sets(h, "DRAFT")
     /\ Answered(h)
     /\ UNCHANGED <<codeVars, exists, blocked, submissions, accountBudget>>

(* approve_verification, reject_verification: the newest pending row.       *)
Pending == {d \in Docs : request[d].status = "PENDING_REVIEW"}
StartReview(h, verdict) ==
  /\ MayCall(h, "review")
  /\ \E d \in Pending :
       /\ \A e \in Pending : request[e].n <= request[d].n
       /\ Calls(h, [op |-> "review", d |-> d, n |-> request[d].n, had |-> standing,
                    verdict |-> verdict])
  /\ UNCHANGED <<codeVars, userVars, docVars, accountBudget>>

(* An UPDATE that finds no row fails the commit (StaleDataError).           *)
Reviewed(h) ==
  LET d == call[h].d
  IN /\ call[h].op = "review"
     /\ IF request[d].n = call[h].n
        THEN /\ request' = [request EXCEPT ![d].status = call[h].verdict]
             /\ Sets(h, call[h].verdict)
        ELSE UNCHANGED <<request, standing>>
     /\ Answered(h)
     /\ UNCHANGED <<codeVars, exists, blocked, submissions, accountBudget>>

(* block_user                                                               *)
Block(h) ==
  /\ MayCall(h, "block") /\ exists /\ ~blocked
  /\ blocked' = TRUE
  /\ UNCHANGED <<codeVars, exists, standing, docVars, call, accountBudget>>

AccountNext ==
  \/ \E h \in Callers :
       \/ CommitFails(h)
       \/ StartRequestCode(h) \/ \E status \in {"PENDING", "FAILED"} : CodeSent(h, status)
       \/ \E c \in DOMAIN codes, right \in BOOLEAN : StartConfirmCode(h, c, right)
       \/ CodeRefused(h) \/ CodeWrong(h) \/ CodeRight(h) \/ LoginRefused(h)
       \/ \E d \in accountBudget.docs : StartSubmit(h, d) \/ StartDelete(h, d)
       \/ Submitted(h) \/ Deleted(h)
       \/ \E verdict \in {"APPROVED", "REJECTED"} : StartReview(h, verdict)
       \/ Reviewed(h) \/ Block(h)
  \/ \E c \in DOMAIN codes : CodeAges(c)
AccountSpec == AccountInit /\ [][AccountNext]_accountVars

-----------------------------------------------------------------------------
(* Every variable has its type.                                             *)
AccountTypeOK ==
  /\ codes \in Seq([status : {"PENDING", "FAILED", "VERIFIED", "EXPIRED"},
                    tries : 0..MaxTries, recent : BOOLEAN, old : BOOLEAN])
  /\ wrong \in [DOMAIN codes -> Nat] /\ openedBy \in [DOMAIN codes -> Nat]
  /\ uncounted \in Nat
  /\ exists \in BOOLEAN /\ blocked \in BOOLEAN /\ standing \in Standings
  /\ request \in [Docs -> [n : Nat, status : Standings \cup {"none"}]]
  /\ \A h \in Callers : call[h].op \in AccountOps \cup {"none"}

(* An owner who may rent has a document somebody approved, though rows are    *)
(* deleted, replaced and reviewed in any order (delete_verification_request, *)
(* approve_verification, ensure_reservable_user).  It takes that no review    *)
(* runs next to another handler; or that the owner has one document and       *)
(* submits it next to nothing, then a review may race a deletion or another   *)
(* review.                                                                  *)
OneReviewer == "review" \notin accountBudget.racing
OneDocument ==
  /\ "submit" \notin accountBudget.racing
  /\ \A d, e \in accountBudget.docs : d = e
ApprovedIsReviewed ==
  OneReviewer \/ OneDocument =>
    (standing = "APPROVED" => \E d \in Docs : request[d].status = "APPROVED")

(* With the confirmations of a code one at a time, it opens one session at    *)
(* most and judges MaxTries wrong guesses at most, and one more for every    *)
(* commit that failed (confirm_code).                                       *)
GuessesBounded ==
  "confirm" \notin accountBudget.racing =>
    \A c \in DOMAIN codes :
      /\ openedBy[c] <= 1
      /\ wrong[c] <= MaxTries + uncounted
=============================================================================
