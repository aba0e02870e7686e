---------------------------- MODULE AccountProofs ----------------------------
(***************************************************************************)
(* Proofs about Account and SignedIn, for any documents, limits, handlers,   *)
(* tabs, sessions and budgets; last, what they and BonusLedgerProofs show    *)
(* holds of all that belongs to a client, in any interleaving.              *)
(*                                                                         *)
(* A code is bounded because a confirmation that runs alone still finds the *)
(* attempts it has read when it commits (Guesses).  The review has two       *)
(* arguments.  Alone, it finds the rows as it read them, and a deletion can  *)
(* not find its row approved (Reviews).  With one document, its row and the  *)
(* standing of the owner say the same after every commit, because what a     *)
(* racing handler has read is never the standing it sets, and so is always   *)
(* written (OneRow).                                                        *)
(*                                                                         *)
(* A program forgets its tokens for a reason because what a request under    *)
(* way was answered stays true while the answer travels: a session that is   *)
(* over never becomes live again (Signed).                                  *)
(***************************************************************************)
EXTENDS MCClient, BonusLedgerProofs

Code == [status : {"PENDING", "FAILED", "VERIFIED", "EXPIRED"},
         tries : 0..MaxTries, recent : BOOLEAN, old : BOOLEAN]
Verdicts == {"APPROVED", "REJECTED"}
Row == [n : Nat, status : {"none", "PENDING_REVIEW"} \cup Verdicts]
Limits == [parts : SUBSET AccountOps, racing : SUBSET AccountOps, docs : SUBSET Docs,
           lost : Nat]

AccountRows ==
  /\ codes \in Seq(Code)
  /\ wrong \in Seq(Nat) /\ Len(wrong) = Len(codes)
  /\ openedBy \in Seq(Nat) /\ Len(openedBy) = Len(codes)
  /\ uncounted \in Nat
  /\ exists \in BOOLEAN /\ blocked \in BOOLEAN /\ standing \in Standings
  /\ request \in [Docs -> Row] /\ submissions \in Nat
  /\ \A d \in Docs : (request[d].status = "none") <=> (request[d].n = 0)
  /\ accountBudget \in Limits
  /\ call = [h \in Callers |-> call[h]]

(* What a call c carries, when there are n codes.                           *)
WellRead(c, n) ==
  /\ c.op \in AccountOps \cup {"none"}
  /\ c.op = "confirm" =>
       /\ c.c \in 1..n /\ c.tries \in 0..MaxTries
       /\ c.result \in {"expired", "exhausted", "wrong", "right"}
       /\ c.result \in {"wrong", "right"} => c.tries < MaxTries
  /\ c.op \in {"submit", "delete", "review"} => c.d \in Docs /\ c.n \in Nat
  /\ c.op \in {"delete", "review"} => c.n # 0 /\ c.had \in Standings
  /\ c.op = "review" => c.verdict \in Verdicts

CallsAlone(op) ==
  \A h \in Callers : call[h].op = op => \A g \in Callers \ {h} : call[g] = Quiet

Guesses ==
  "confirm" \notin accountBudget.racing =>
    /\ CallsAlone("confirm")
    /\ \A c \in DOMAIN codes :
         /\ openedBy[c] <= IF codes[c].status = "PENDING" THEN 0 ELSE 1
         /\ wrong[c] <= codes[c].tries + uncounted
    /\ \A h \in Callers : call[h].op = "confirm" =>
         /\ codes[call[h].c].status = "PENDING"
         /\ call[h].tries = codes[call[h].c].tries

Approved == standing = "APPROVED" => \E d \in Docs : request[d].status = "APPROVED"

Reviews ==
  OneReviewer =>
    /\ CallsAlone("review") /\ Approved
    /\ \A h \in Callers :
         call[h].op \in {"delete", "review"} /\ request[call[h].d].n = call[h].n
           => request[call[h].d].status # "APPROVED"

StandingOf(row) == IF row.status = "none" THEN "DRAFT" ELSE row.status
OneRow ==
  OneDocument =>
    /\ CallsAlone("submit")
    /\ standing # "DRAFT" => accountBudget.docs # {}
    /\ \A d \in accountBudget.docs : standing = StandingOf(request[d])
    /\ \A d \in Docs : request[d].status # "none" => d \in accountBudget.docs
    /\ \A h \in Callers :
         /\ call[h].op \in {"submit", "delete", "review"} =>
              call[h].d \in accountBudget.docs
         /\ call[h].op = "review" => call[h].had = "PENDING_REVIEW"
         /\ call[h].op = "delete" =>
              /\ call[h].had # "DRAFT"
              /\ request[call[h].d].n \in {0, call[h].n}

Sound ==
  /\ AccountRows /\ \A h \in Callers : WellRead(call[h], Len(codes))
  /\ Guesses /\ Reviews /\ OneRow

-----------------------------------------------------------------------------
(* Calls *)

LEMMA QuietIs ==
  /\ Quiet.op = "none" /\ \A n : WellRead(Quiet, n)
  BY DEF Quiet, WellRead

LEMMA CallsIs ==
  ASSUME AccountRows, NEW h \in Callers, NEW c, Calls(h, c)
  PROVE  /\ \A g \in Callers : call'[g] = IF g = h THEN c ELSE call[g]
         /\ call' = [g \in Callers |-> call'[g]]
<1> DEFINE F == [g \in Callers |-> call[g]]
<1>1. call = F /\ call' = [call EXCEPT ![h] = c]
  BY DEF AccountRows, Calls
<1>2. call' = [F EXCEPT ![h] = c]
  BY <1>1
<1>3. QED
  BY <1>1, <1>2

(* Calls are answered, none starts.                                         *)
Ending ==
  /\ \A g \in Callers : call'[g] \in {call[g], Quiet}
  /\ call' = [g \in Callers |-> call'[g]]

SameBudget ==
  /\ accountBudget' \in Limits
  /\ accountBudget'.racing = accountBudget.racing /\ accountBudget'.docs = accountBudget.docs

LEMMA AnsweredEnds ==
  ASSUME AccountRows, NEW h \in Callers, Answered(h)
  PROVE  Ending /\ \A g \in Callers : call'[g] = IF g = h THEN Quiet ELSE call[g]
  BY CallsIs DEF Answered, Ending

LEMMA StillAlone ==
  ASSUME Ending, NEW op \in AccountOps, CallsAlone(op)
  PROVE  CallsAlone(op)'
  BY QuietIs DEF Ending, CallsAlone, AccountOps

LEMMA StillWellRead ==
  ASSUME Ending, NEW n \in Nat, NEW m \in Nat, n <= m,
         \A h \in Callers : WellRead(call[h], n)
  PROVE  \A h \in Callers : WellRead(call'[h], m)
<1>1. ASSUME NEW h \in Callers, WellRead(call[h], n) PROVE WellRead(call[h], m)
  BY <1>1 DEF WellRead
<1>2. QED
  BY <1>1, QuietIs DEF Ending

LEMMA CodesUntouched ==
  ASSUME Sound, Ending, SameBudget, UNCHANGED codeVars
  PROVE  Guesses' /\ \A h \in Callers : WellRead(call[h], Len(codes))'
<1>1. codes' = codes /\ wrong' = wrong /\ openedBy' = openedBy /\ uncounted' = uncounted
  BY DEF codeVars
<1>2. Len(codes) \in Nat
  BY DEF Sound, AccountRows
<1>3. \A h \in Callers : WellRead(call'[h], Len(codes'))
  BY <1>1, <1>2, StillWellRead DEF Sound
<1>4. Guesses'
  <2>1. SUFFICES ASSUME "confirm" \notin accountBudget.racing PROVE Guesses'
    BY DEF Guesses, SameBudget
  <2>2. CallsAlone("confirm")'
    BY <2>1, StillAlone DEF Sound, Guesses, AccountOps
  <2>3. \A h \in Callers : call'[h].op = "confirm" => call'[h] = call[h]
    BY QuietIs DEF Ending
  <2>4. QED
    BY <1>1, <2>1, <2>2, <2>3 DEF Sound, Guesses
<1>5. QED
  BY <1>3, <1>4

LEMMA DocsUntouched ==
  ASSUME Sound, Ending, SameBudget, UNCHANGED <<standing, request>>
  PROVE  Reviews' /\ OneRow'
<1>1. \A h \in Callers : call'[h].op # "none" => call'[h] = call[h]
  BY QuietIs DEF Ending
<1>2. Reviews'
  <2>1. SUFFICES ASSUME OneReviewer PROVE Reviews'
    BY DEF Reviews, SameBudget, OneReviewer
  <2>2. CallsAlone("review")'
    BY <2>1, StillAlone DEF Sound, Reviews, AccountOps
  <2>3. QED
    BY <1>1, <2>1, <2>2 DEF Sound, Reviews, Approved
<1>3. OneRow'
  <2>1. SUFFICES ASSUME OneDocument PROVE OneRow'
    BY DEF OneRow, SameBudget, OneDocument
  <2>2. CallsAlone("submit")'
    BY <2>1, StillAlone DEF Sound, OneRow, AccountOps
  <2>3. QED
    BY <1>1, <2>1, <2>2 DEF Sound, OneRow, SameBudget
<1>4. QED
  BY <1>2, <1>3

(* A call starts next to those its budget lets it race.                     *)
LEMMA StartAlone ==
  ASSUME AccountRows, NEW h \in Callers, NEW op \in AccountOps, MayCall(h, op),
         NEW c, c.op = op, Calls(h, c),
         NEW x \in AccountOps, x \notin accountBudget.racing, CallsAlone(x)
  PROVE  CallsAlone(x)'
<1>1. \A g \in Callers : call'[g] = IF g = h THEN c ELSE call[g]
  BY CallsIs
<1>2. \A g \in Callers : call[g] = Quiet \/ {op, call[g].op} \subseteq accountBudget.racing
  BY DEF MayCall
<1>3. CASE x = op
  <2>1. \A g \in Callers : call[g] = Quiet
    BY <1>2, <1>3
  <2>2. QED
    BY <1>1, <1>3, <2>1, QuietIs DEF CallsAlone, AccountOps
<1>4. CASE x # op
  <2>1. \A g \in Callers : call[g].op # x
    BY <1>2, QuietIs DEF AccountOps
  <2>2. QED
    BY <1>1, <1>4, <2>1 DEF CallsAlone
<1>5. QED
  BY <1>3, <1>4

LEMMA StartSound ==
  ASSUME Sound, NEW h \in Callers, NEW op \in AccountOps, MayCall(h, op),
         NEW c, c.op = op, Calls(h, c), WellRead(c, Len(codes)),
         UNCHANGED <<codeVars, userVars, docVars, accountBudget>>,
         op = "confirm" =>
           codes[c.c].status = "PENDING" /\ c.tries = codes[c.c].tries,
         op \in {"submit", "delete", "review"} =>
           c.d \in accountBudget.docs \/ request[c.d].status # "none",
         op \in {"delete", "review"} =>
           /\ request[c.d].status \notin {"none", "APPROVED"}
           /\ c.had = standing /\ c.n = request[c.d].n,
         op = "review" => request[c.d].status = "PENDING_REVIEW"
  PROVE  Sound'
<1>1. AccountRows
  BY DEF Sound
<1>2. \A g \in Callers : call'[g] = IF g = h THEN c ELSE call[g]
  BY <1>1, CallsIs
<1>3. UNCHANGED <<codes, wrong, openedBy, uncounted, exists, blocked, standing,
                  request, submissions, accountBudget>>
  BY DEF codeVars, userVars, docVars
<1>4. AccountRows'
  <2>1. call' = [g \in Callers |-> call'[g]]
    BY <1>1, CallsIs
  <2>2. QED
    BY <1>1, <1>3, <2>1 DEF AccountRows
<1>5. \A g \in Callers : WellRead(call'[g], Len(codes'))
  BY <1>2, <1>3 DEF Sound
<1>6. Guesses'
  <2>1. SUFFICES ASSUME "confirm" \notin accountBudget.racing PROVE Guesses'
    BY <1>3 DEF Guesses
  <2>2. CallsAlone("confirm")'
    BY <1>1, <2>1, StartAlone DEF Sound, Guesses, AccountOps
  <2>3. QED
    BY <1>2, <1>3, <2>1, <2>2 DEF Sound, Guesses
<1>7. Reviews'
  <2>1. SUFFICES ASSUME OneReviewer PROVE Reviews'
    BY <1>3 DEF Reviews, OneReviewer
  <2>2. CallsAlone("review")'
    BY <1>1, <2>1, StartAlone DEF Sound, Reviews, AccountOps, OneReviewer
  <2>3. QED
    BY <1>2, <1>3, <2>1, <2>2 DEF Sound, Reviews, Approved
<1>8. OneRow'
  <2>1. SUFFICES ASSUME OneDocument PROVE OneRow'
    BY <1>3 DEF OneRow, OneDocument
  <2>2. CallsAlone("submit")'
    BY <1>1, <2>1, StartAlone DEF Sound, OneRow, AccountOps, OneDocument
  <2>3. op \in {"submit", "delete", "review"} => c.d \in accountBudget.docs
    BY <2>1 DEF Sound, OneRow, WellRead
  <2>4. op \in {"delete", "review"} => c.had = request[c.d].status
    BY <2>1, <2>3 DEF Sound, OneRow, StandingOf
  <2>5. op = "delete" => c.had # "DRAFT"
    <3>1. op = "delete" => request[c.d] \in Row
      BY <1>1 DEF AccountRows, WellRead
    <3>2. QED
      BY <2>4, <3>1 DEF Row, Verdicts
  <2>6. QED
    BY <1>2, <1>3, <2>1, <2>2, <2>3, <2>4, <2>5 DEF Sound, OneRow
<1>9. QED
  BY <1>4, <1>5, <1>6, <1>7, <1>8 DEF Sound

-----------------------------------------------------------------------------
(* The handlers that start *)

LEMMA StartRequestCodeSound ==
  ASSUME Sound, NEW h \in Callers, StartRequestCode(h) PROVE Sound'
<1> DEFINE c == [op |-> "request"]
<1>1. /\ MayCall(h, "request") /\ Calls(h, c)
      /\ UNCHANGED <<codeVars, userVars, docVars, accountBudget>>
  BY DEF StartRequestCode
<1>2. c.op = "request" /\ WellRead(c, Len(codes))
  BY DEF WellRead, AccountOps
<1> HIDE DEF c
<1>3. QED
  BY <1>1, <1>2, StartSound DEF AccountOps

LEMMA StartConfirmCodeSound ==
  ASSUME Sound, NEW h \in Callers, NEW k \in DOMAIN codes, NEW right \in BOOLEAN,
         StartConfirmCode(h, k, right)
  PROVE  Sound'
<1> DEFINE c == [op |-> "confirm", c |-> k, tries |-> codes[k].tries, known |-> exists,
                 result |-> Result(codes[k], right)]
<1>1. /\ MayCall(h, "confirm") /\ Calls(h, c) /\ codes[k].status = "PENDING"
      /\ UNCHANGED <<codeVars, userVars, docVars, accountBudget>>
  BY DEF StartConfirmCode
<1>2. codes[k] \in Code /\ k \in 1..Len(codes)
  BY DEF Sound, AccountRows
<1>3. codes[k].tries \in 0..MaxTries /\ codes[k].old \in BOOLEAN
  BY <1>2 DEF Code
<1>4. /\ Result(codes[k], right) \in {"expired", "exhausted", "wrong", "right"}
      /\ Result(codes[k], right) \in {"wrong", "right"} => codes[k].tries < MaxTries
  BY <1>3, AccountAssumption DEF Result
<1>5. /\ c.op = "confirm" /\ c.c = k /\ c.tries = codes[k].tries
      /\ c.result = Result(codes[k], right)
  OBVIOUS
<1> HIDE DEF c
<1>6. WellRead(c, Len(codes))
  BY <1>2, <1>3, <1>4, <1>5 DEF WellRead, AccountOps
<1>7. QED
  BY <1>1, <1>5, <1>6, StartSound DEF AccountOps

LEMMA StartSubmitSound ==
  ASSUME Sound, NEW h \in Callers, NEW d \in accountBudget.docs, StartSubmit(h, d)
  PROVE  Sound'
<1> DEFINE c == [op |-> "submit", d |-> d, n |-> request[d].n]
<1>1. /\ MayCall(h, "submit") /\ Calls(h, c)
      /\ UNCHANGED <<codeVars, userVars, docVars, accountBudget>>
  BY DEF StartSubmit
<1>2. d \in Docs /\ request[d] \in Row
  BY DEF Sound, AccountRows, Limits
<1>3. c.op = "submit" /\ c.d = d /\ c.n = request[d].n
  OBVIOUS
<1> HIDE DEF c
<1>4. WellRead(c, Len(codes))
  BY <1>2, <1>3 DEF WellRead, AccountOps, Row
<1>5. QED
  BY <1>1, <1>3, <1>4, StartSound DEF AccountOps

LEMMA StartDeleteSound ==
  ASSUME Sound, NEW h \in Callers, NEW d \in accountBudget.docs, StartDelete(h, d)
  PROVE  Sound'
<1> DEFINE c == [op |-> "delete", d |-> d, n |-> request[d].n, had |-> standing]
<1>1. /\ MayCall(h, "delete") /\ Calls(h, c)
      /\ request[d].status \notin {"none", "APPROVED"}
      /\ UNCHANGED <<codeVars, userVars, docVars, accountBudget>>
  BY DEF StartDelete
<1>2. d \in Docs /\ request[d] \in Row /\ request[d].n # 0 /\ standing \in Standings
  BY <1>1 DEF Sound, AccountRows, Limits
<1>3. c.op = "delete" /\ c.d = d /\ c.n = request[d].n /\ c.had = standing
  OBVIOUS
<1> HIDE DEF c
<1>4. WellRead(c, Len(codes))
  BY <1>2, <1>3 DEF WellRead, AccountOps, Row
<1>5. QED
  BY <1>1, <1>3, <1>4, StartSound DEF AccountOps

LEMMA StartReviewSound ==
  ASSUME Sound, NEW h \in Callers, NEW verdict \in Verdicts, StartReview(h, verdict)
  PROVE  Sound'
<1>1. PICK d \in Pending :
        Calls(h, [op |-> "review", d |-> d, n |-> request[d].n, had |-> standing,
                  verdict |-> verdict])
  BY DEF StartReview
<1> DEFINE c == [op |-> "review", d |-> d, n |-> request[d].n, had |-> standing,
                 verdict |-> verdict]
<1>2. /\ MayCall(h, "review") /\ Calls(h, c)
      /\ UNCHANGED <<codeVars, userVars, docVars, accountBudget>>
  BY <1>1 DEF StartReview
<1>3. d \in Docs /\ request[d].status = "PENDING_REVIEW"
  BY DEF Pending
<1>4. request[d] \in Row /\ request[d].n # 0 /\ standing \in Standings
  BY <1>3 DEF Sound, AccountRows
<1>5. /\ c.op = "review" /\ c.d = d /\ c.n = request[d].n /\ c.had = standing
      /\ c.verdict = verdict
  OBVIOUS
<1> HIDE DEF c
<1>6. WellRead(c, Len(codes))
  BY <1>3, <1>4, <1>5 DEF WellRead, AccountOps, Row
<1>7. QED
  BY <1>2, <1>3, <1>5, <1>6, StartSound DEF AccountOps

-----------------------------------------------------------------------------
(* The codes *)

(* A change of codes alone.                                                 *)
LEMMA CodesSound ==
  ASSUME Sound, Ending, SameBudget, UNCHANGED <<blocked, standing, docVars>>,
         exists' \in BOOLEAN,
         codes' \in Seq(Code), Len(codes) <= Len(codes'),
         wrong' \in Seq(Nat), Len(wrong') = Len(codes'),
         openedBy' \in Seq(Nat), Len(openedBy') = Len(codes'),
         uncounted' \in Nat, Guesses'
  PROVE  Sound'
<1>1. UNCHANGED <<standing, request, submissions, blocked>>
  BY DEF docVars
<1>2. AccountRows'
  BY <1>1 DEF Sound, AccountRows, SameBudget, Ending
<1>3. \A h \in Callers : WellRead(call'[h], Len(codes'))
  <2>1. Len(codes) \in Nat /\ Len(codes') \in Nat
    BY DEF Sound, AccountRows
  <2>2. \A h \in Callers : WellRead(call[h], Len(codes))
    BY DEF Sound
  <2>3. QED
    BY <2>1, <2>2, StillWellRead
<1>4. QED
  BY <1>1, <1>2, <1>3, DocsUntouched DEF Sound

LEMMA CodeSentSound ==
  ASSUME Sound, NEW h \in Callers, NEW status \in {"PENDING", "FAILED"}, CodeSent(h, status)
  PROVE  Sound'
<1> DEFINE new == [status |-> status, tries |-> 0, recent |-> TRUE, old |-> FALSE]
           n == Len(codes) + 1
<1>1. /\ codes' = Append(codes, new)
      /\ wrong' = Append(wrong, 0) /\ openedBy' = Append(openedBy, 0)
      /\ Answered(h) /\ call[h].op = "request"
      /\ UNCHANGED <<uncounted, exists, blocked, standing, docVars, accountBudget>>
  BY DEF CodeSent, userVars
<1>2. AccountRows /\ Guesses
  BY DEF Sound
<1>3. new \in Code
  BY AccountAssumption DEF Code
<1>4. new.status = status /\ new.tries = 0
  OBVIOUS
<1> HIDE DEF new
<1>5. /\ codes' \in Seq(Code) /\ Len(codes') = n /\ DOMAIN codes' = 1..n
      /\ wrong' \in Seq(Nat) /\ Len(wrong') = n
      /\ openedBy' \in Seq(Nat) /\ Len(openedBy') = n
      /\ codes'[n] = new /\ wrong'[n] = 0 /\ openedBy'[n] = 0
      /\ \A k \in 1..Len(codes) :
           codes'[k] = codes[k] /\ wrong'[k] = wrong[k] /\ openedBy'[k] = openedBy[k]
  BY <1>1, <1>2, <1>3 DEF AccountRows
<1>6. Ending /\ SameBudget
  BY <1>1, <1>2, AnsweredEnds DEF SameBudget, AccountRows
<1>7. Guesses'
  <2>1. SUFFICES ASSUME "confirm" \notin accountBudget.racing PROVE Guesses'
    BY <1>6 DEF Guesses, SameBudget
  <2>2. CallsAlone("confirm")'
    BY <1>2, <1>6, <2>1, StillAlone DEF Guesses, AccountOps
  <2>3. \A k \in 1..n :
          /\ openedBy'[k] <= IF codes'[k].status = "PENDING" THEN 0 ELSE 1
          /\ wrong'[k] <= codes'[k].tries + uncounted
    <3>1. ASSUME NEW k \in 1..n, k # n
          PROVE  /\ openedBy'[k] <= IF codes'[k].status = "PENDING" THEN 0 ELSE 1
                 /\ wrong'[k] <= codes'[k].tries + uncounted
      <4>1. k \in DOMAIN codes /\ k \in 1..Len(codes)
        BY <1>2, <3>1 DEF AccountRows
      <4>2. QED
        BY <1>2, <1>5, <2>1, <4>1 DEF Guesses
    <3>2. 0 <= new.tries + uncounted
      BY <1>2, <1>4 DEF AccountRows
    <3>3. QED
      BY <1>5, <3>1, <3>2
  <2>4. \A g \in Callers : call'[g].op = "confirm" =>
          /\ call'[g] = call[g] /\ codes'[call'[g].c].status = "PENDING"
          /\ call'[g].tries = codes'[call'[g].c].tries
    <3>1. SUFFICES ASSUME NEW g \in Callers, call'[g].op = "confirm"
                   PROVE  /\ call'[g] = call[g] /\ codes'[call'[g].c].status = "PENDING"
                          /\ call'[g].tries = codes'[call'[g].c].tries
      OBVIOUS
    <3>2. call'[g] = call[g]
      BY <1>6, <3>1, QuietIs DEF Ending
    <3>3. call[g].c \in 1..Len(codes)
      BY <3>1, <3>2 DEF Sound, WellRead
    <3>4. call[g].op = "confirm"
      BY <3>1, <3>2
    <3>5. codes[call[g].c].status = "PENDING" /\ call[g].tries = codes[call[g].c].tries
      BY <1>2, <2>1, <3>4 DEF Guesses
    <3>6. codes'[call[g].c] = codes[call[g].c]
      BY <1>2, <1>5, <3>3
    <3>7. QED
      BY <3>2, <3>5, <3>6
  <2>5. uncounted' = uncounted
    BY <1>1
  <2>6. QED
    BY <1>5, <2>2, <2>3, <2>4, <2>5 DEF Guesses
<1>8. Len(codes) <= n /\ uncounted \in Nat /\ exists \in BOOLEAN
  BY <1>2 DEF AccountRows
<1>9. QED
  BY <1>1, <1>5, <1>6, <1>7, <1>8, CodesSound

LEMMA CodeAgesSound ==
  ASSUME Sound, NEW k \in DOMAIN codes, CodeAges(k)
  PROVE  Sound'
<1> DEFINE new == IF codes[k].recent THEN [codes[k] EXCEPT !.recent = FALSE]
                  ELSE [codes[k] EXCEPT !.old = TRUE]
<1>1. /\ codes' = [codes EXCEPT ![k] = new]
      /\ UNCHANGED <<wrong, openedBy, uncounted, exists, blocked, standing, docVars,
                     call, accountBudget>>
  BY DEF CodeAges, userVars
<1>2. AccountRows /\ Guesses
  BY DEF Sound
<1>3. codes[k] \in Code
  BY <1>2 DEF AccountRows
<1>4. new \in Code /\ new.status = codes[k].status /\ new.tries = codes[k].tries
  BY <1>3 DEF Code
<1> HIDE DEF new
<1>5. /\ codes' \in Seq(Code) /\ Len(codes') = Len(codes) /\ DOMAIN codes' = DOMAIN codes
      /\ \A j \in DOMAIN codes :
           codes'[j].status = codes[j].status /\ codes'[j].tries = codes[j].tries
  BY <1>1, <1>2, <1>4 DEF AccountRows
<1>6. Ending /\ SameBudget
  BY <1>1, <1>2 DEF Ending, SameBudget, AccountRows
<1>7. Guesses'
  <2>1. SUFFICES ASSUME "confirm" \notin accountBudget.racing PROVE Guesses'
    BY <1>6 DEF Guesses, SameBudget
  <2>2. \A g \in Callers : call[g].op = "confirm" => call[g].c \in DOMAIN codes
    BY <1>2 DEF Sound, WellRead, AccountRows
  <2>3. QED
    BY <1>1, <1>2, <1>5, <2>1, <2>2 DEF Guesses, CallsAlone
<1>8. wrong' \in Seq(Nat) /\ Len(wrong') = Len(codes') /\ openedBy' \in Seq(Nat)
      /\ Len(openedBy') = Len(codes') /\ uncounted' \in Nat /\ exists' \in BOOLEAN
      /\ Len(codes) <= Len(codes') /\ UNCHANGED <<blocked, standing, docVars>>
  BY <1>1, <1>2, <1>5 DEF AccountRows
<1>9. QED
  BY <1>5, <1>6, <1>7, <1>8, CodesSound

LEMMA Put ==
  ASSUME NEW S, NEW s \in Seq(S), NEW k \in 1..Len(s), NEW v \in S
  PROVE  /\ [s EXCEPT ![k] = v] \in Seq(S)
         /\ Len([s EXCEPT ![k] = v]) = Len(s) /\ DOMAIN [s EXCEPT ![k] = v] = 1..Len(s)
         /\ \A j \in 1..Len(s) : [s EXCEPT ![k] = v][j] = IF j = k THEN v ELSE s[j]
  OBVIOUS

(* A confirmation ends and leaves its code as code, w and o say.            *)
LEMMA ConfirmEnds ==
  ASSUME Sound, NEW h \in Callers, call[h].op = "confirm", Answered(h), SameBudget,
         UNCHANGED <<blocked, standing, docVars>>, exists' \in BOOLEAN,
         NEW code \in Code, codes' = [codes EXCEPT ![call[h].c] = code],
         NEW w \in Nat, wrong' = [wrong EXCEPT ![call[h].c] = w],
         NEW o \in Nat, openedBy' = [openedBy EXCEPT ![call[h].c] = o],
         uncounted' \in Nat, uncounted <= uncounted',
         "confirm" \notin accountBudget.racing =>
           o <= (IF code.status = "PENDING" THEN 0 ELSE 1) /\ w <= code.tries + uncounted'
  PROVE  Sound'
<1> DEFINE k == call[h].c
<1>1. AccountRows /\ Guesses
  BY DEF Sound
<1>2. k \in 1..Len(codes) /\ DOMAIN codes = 1..Len(codes)
  BY <1>1 DEF Sound, WellRead, AccountRows
<1> HIDE DEF k
<1>3. /\ codes' = [codes EXCEPT ![k] = code] /\ wrong' = [wrong EXCEPT ![k] = w]
      /\ openedBy' = [openedBy EXCEPT ![k] = o]
  BY DEF k
<1>4. /\ codes' \in Seq(Code) /\ Len(codes') = Len(codes) /\ DOMAIN codes' = DOMAIN codes
      /\ \A j \in DOMAIN codes : codes'[j] = IF j = k THEN code ELSE codes[j]
  <2>1. codes \in Seq(Code) /\ k \in 1..Len(codes) /\ Len(codes) = Len(codes)
    BY <1>1, <1>2 DEF AccountRows
  <2>2. /\ codes' \in Seq(Code) /\ Len(codes') = Len(codes) /\ DOMAIN codes' = 1..Len(codes)
        /\ \A j \in 1..Len(codes) : codes'[j] = IF j = k THEN code ELSE codes[j]
    BY ONLY <1>3, <2>1, Put
  <2>3. QED
    BY <1>2, <2>1, <2>2
<1>5. /\ wrong' \in Seq(Nat) /\ Len(wrong') = Len(codes)
      /\ \A j \in DOMAIN codes : wrong'[j] = IF j = k THEN w ELSE wrong[j]
  <2>1. wrong \in Seq(Nat) /\ k \in 1..Len(wrong) /\ Len(wrong) = Len(codes)
    BY <1>1, <1>2 DEF AccountRows
  <2>2. /\ wrong' \in Seq(Nat) /\ Len(wrong') = Len(wrong) /\ DOMAIN wrong' = 1..Len(wrong)
        /\ \A j \in 1..Len(wrong) : wrong'[j] = IF j = k THEN w ELSE wrong[j]
    BY ONLY <1>3, <2>1, Put
  <2>3. QED
    BY <1>2, <2>1, <2>2
<1>6. /\ openedBy' \in Seq(Nat) /\ Len(openedBy') = Len(codes)
      /\ \A j \in DOMAIN codes : openedBy'[j] = IF j = k THEN o ELSE openedBy[j]
  <2>1. openedBy \in Seq(Nat) /\ k \in 1..Len(openedBy) /\ Len(openedBy) = Len(codes)
    BY <1>1, <1>2 DEF AccountRows
  <2>2. /\ openedBy' \in Seq(Nat) /\ Len(openedBy') = Len(openedBy) /\ DOMAIN openedBy' = 1..Len(openedBy)
        /\ \A j \in 1..Len(openedBy) : openedBy'[j] = IF j = k THEN o ELSE openedBy[j]
    BY ONLY <1>3, <2>1, Put
  <2>3. QED
    BY <1>2, <2>1, <2>2
<1>7. Ending /\ \A g \in Callers : call'[g] = IF g = h THEN Quiet ELSE call[g]
  BY <1>1, AnsweredEnds
<1>8. Guesses'
  <2>1. SUFFICES ASSUME "confirm" \notin accountBudget.racing PROVE Guesses'
    BY DEF Guesses, SameBudget
  <2>2. CallsAlone("confirm")'
    BY <1>1, <1>7, <2>1, StillAlone DEF Guesses, AccountOps
  <2>3. \A g \in Callers : call'[g].op # "confirm"
    BY <1>1, <1>7, <2>1, QuietIs DEF Guesses, CallsAlone
  <2>4. ASSUME NEW j \in DOMAIN codes
        PROVE  /\ openedBy'[j] <= IF codes'[j].status = "PENDING" THEN 0 ELSE 1
               /\ wrong'[j] <= codes'[j].tries + uncounted'
    <3>1. CASE j = k
      BY SMTT(20), <1>4, <1>5, <1>6, <2>1, <3>1
    <3>2. CASE j # k
      <4>1. codes[j] \in Code /\ wrong[j] \in Nat /\ uncounted \in Nat
        <5>1. /\ codes \in Seq(Code) /\ wrong \in Seq(Nat) /\ Len(wrong) = Len(codes)
              /\ uncounted \in Nat /\ j \in 1..Len(codes)
          BY <1>1, <1>2 DEF AccountRows
        <5>2. QED
          BY ONLY <5>1
      <4>2. codes[j].tries \in Int
        BY <4>1, AccountAssumption DEF Code
      <4>3. wrong[j] <= codes[j].tries + uncounted
        BY <1>1, <2>1 DEF Guesses
      <4>4. wrong[j] <= codes[j].tries + uncounted'
        BY <4>1, <4>2, <4>3
      <4>5. openedBy[j] <= IF codes[j].status = "PENDING" THEN 0 ELSE 1
        BY <1>1, <2>1 DEF Guesses
      <4>6. codes'[j] = codes[j] /\ wrong'[j] = wrong[j] /\ openedBy'[j] = openedBy[j]
        BY <1>4, <1>5, <1>6, <3>2
      <4>7. QED
        BY <4>4, <4>5, <4>6
    <3>3. QED
      BY <3>1, <3>2
  <2>5. QED
    BY <1>4, <2>2, <2>3, <2>4 DEF Guesses
<1>9. Len(codes) <= Len(codes')
  BY <1>1, <1>4 DEF AccountRows
<1>10. QED
  BY <1>4, <1>5, <1>6, <1>7, <1>8, <1>9, CodesSound

(* The code a confirmation has read, when it commits.                       *)
LEMMA CodeOf ==
  ASSUME Sound, NEW h \in Callers, call[h].op = "confirm"
  PROVE  /\ call[h].c \in DOMAIN codes /\ codes[call[h].c] \in Code
         /\ codes = [codes EXCEPT ![call[h].c] = codes[call[h].c]]
         /\ wrong[call[h].c] \in Nat /\ wrong = [wrong EXCEPT ![call[h].c] = wrong[call[h].c]]
         /\ openedBy[call[h].c] \in Nat
         /\ openedBy = [openedBy EXCEPT ![call[h].c] = openedBy[call[h].c]]
         /\ uncounted \in Nat /\ exists \in BOOLEAN
         /\ codes[call[h].c].tries \in 0..MaxTries /\ call[h].tries \in 0..MaxTries
         /\ call[h].result \in {"wrong", "right"} => call[h].tries + 1 \in 0..MaxTries
<1>1. AccountRows /\ WellRead(call[h], Len(codes))
  BY DEF Sound
<1>2. /\ call[h].c \in 1..Len(codes) /\ call[h].tries \in 0..MaxTries
      /\ call[h].result \in {"wrong", "right"} => call[h].tries < MaxTries
  BY <1>1 DEF WellRead
<1>3. call[h].c \in DOMAIN codes /\ codes[call[h].c] \in Code
  BY <1>1, <1>2 DEF AccountRows
<1>4. codes = [codes EXCEPT ![call[h].c] = codes[call[h].c]]
  BY <1>1, <1>3 DEF AccountRows
<1>5. /\ wrong[call[h].c] \in Nat
      /\ wrong = [wrong EXCEPT ![call[h].c] = wrong[call[h].c]]
  BY <1>1, <1>2 DEF AccountRows
<1>6. /\ openedBy[call[h].c] \in Nat
      /\ openedBy = [openedBy EXCEPT ![call[h].c] = openedBy[call[h].c]]
  BY <1>1, <1>2 DEF AccountRows
<1>7. codes[call[h].c].tries \in 0..MaxTries
  BY <1>3 DEF Code
<1>8. call[h].result \in {"wrong", "right"} => call[h].tries + 1 \in 0..MaxTries
  BY <1>2, AccountAssumption
<1>9. uncounted \in Nat /\ exists \in BOOLEAN
  BY <1>1 DEF AccountRows
<1>10. QED
  BY <1>2, <1>3, <1>4, <1>5, <1>6, <1>7, <1>8, <1>9

(* What a confirmation that runs alone knows of its code.                   *)
LEMMA CodeKnown ==
  ASSUME Sound, NEW h \in Callers, call[h].op = "confirm",
         "confirm" \notin accountBudget.racing
  PROVE  /\ codes[call[h].c].status = "PENDING" /\ call[h].tries = codes[call[h].c].tries
         /\ openedBy[call[h].c] = 0
         /\ wrong[call[h].c] <= codes[call[h].c].tries + uncounted
<1>1. /\ codes[call[h].c].status = "PENDING" /\ call[h].tries = codes[call[h].c].tries
      /\ call[h].c \in DOMAIN codes
  BY CodeOf DEF Sound, Guesses
<1>2. openedBy[call[h].c] <= 0 /\ wrong[call[h].c] <= codes[call[h].c].tries + uncounted
  BY <1>1 DEF Sound, Guesses
<1>3. QED
  BY <1>1, <1>2, CodeOf

LEMMA CodeRefusedSound ==
  ASSUME Sound, NEW h \in Callers, CodeRefused(h) PROVE Sound'
<1> DEFINE k == call[h].c
           new == [codes[k] EXCEPT !.status =
                     IF call[h].result = "expired" THEN "EXPIRED" ELSE "FAILED"]
<1>1. /\ call[h].op = "confirm" /\ codes' = [codes EXCEPT ![k] = new] /\ Answered(h)
      /\ UNCHANGED <<wrong, openedBy, uncounted, exists, blocked, standing, docVars,
                     accountBudget>>
  BY DEF CodeRefused, userVars
<1>2. codes[k] \in Code
  BY <1>1, CodeOf
<1>3. new \in Code /\ new.status # "PENDING" /\ new.tries = codes[k].tries
  BY <1>2 DEF Code
<1> HIDE DEF k, new
<1>4. SameBudget
  BY <1>1 DEF SameBudget, Sound, AccountRows
<1>5. "confirm" \notin accountBudget.racing =>
        /\ openedBy[k] <= IF new.status = "PENDING" THEN 0 ELSE 1
        /\ wrong[k] <= new.tries + uncounted'
  BY <1>1, <1>3, CodeKnown DEF k
<1>6. /\ wrong' = [wrong EXCEPT ![call[h].c] = wrong[k]] /\ wrong[k] \in Nat
      /\ openedBy' = [openedBy EXCEPT ![call[h].c] = openedBy[k]] /\ openedBy[k] \in Nat
      /\ uncounted' \in Nat /\ uncounted <= uncounted' /\ exists' \in BOOLEAN
      /\ codes' = [codes EXCEPT ![call[h].c] = new]
  BY <1>1, CodeOf DEF k
<1>7. QED
  BY <1>1, <1>3, <1>4, <1>5, <1>6, ConfirmEnds

LEMMA CodeWrongSound ==
  ASSUME Sound, NEW h \in Callers, CodeWrong(h) PROVE Sound'
<1> DEFINE k == call[h].c
           new == [codes[k] EXCEPT
                     !.tries = call[h].tries + 1,
                     !.status = IF call[h].tries + 1 >= MaxTries THEN "FAILED" ELSE @]
<1>1. call[h].op = "confirm" /\ call[h].result = "wrong"
  BY DEF CodeWrong
<1>2. codes \in Seq(Code) /\ k \in DOMAIN codes /\ codes[k] \in Code
  BY <1>1, CodeOf DEF Sound, AccountRows
<1>3. codes' = [codes EXCEPT ![k] = new]
  BY <1>2 DEF CodeWrong
<1>4. /\ wrong' = [wrong EXCEPT ![k] = wrong[k] + 1] /\ Answered(h)
      /\ UNCHANGED <<openedBy, uncounted, exists, blocked, standing, docVars, accountBudget>>
  BY DEF CodeWrong, userVars
<1>5. call[h].tries + 1 \in 0..MaxTries
  BY <1>1, CodeOf
<1>6. new \in Code /\ new.tries = call[h].tries + 1
  BY <1>2, <1>5 DEF Code
<1> HIDE DEF k, new
<1>7. SameBudget
  BY <1>4 DEF SameBudget, Sound, AccountRows
<1>8. "confirm" \notin accountBudget.racing =>
        /\ openedBy[k] <= IF new.status = "PENDING" THEN 0 ELSE 1
        /\ wrong[k] + 1 <= new.tries + uncounted'
  <2>1. SUFFICES ASSUME "confirm" \notin accountBudget.racing
                 PROVE  openedBy[k] = 0 /\ wrong[k] + 1 <= new.tries + uncounted
    BY <1>4
  <2>2. /\ openedBy[k] = 0 /\ call[h].tries = codes[k].tries
        /\ wrong[k] <= codes[k].tries + uncounted
    BY <1>1, <2>1, CodeKnown DEF k
  <2>3. wrong[k] \in Nat /\ uncounted \in Nat /\ codes[k].tries \in Int
    BY <1>1, CodeOf, AccountAssumption DEF k
  <2>4. QED
    BY <1>6, <2>2, <2>3
<1>9. /\ wrong' = [wrong EXCEPT ![call[h].c] = wrong[k] + 1] /\ wrong[k] + 1 \in Nat
      /\ openedBy' = [openedBy EXCEPT ![call[h].c] = openedBy[k]] /\ openedBy[k] \in Nat
      /\ uncounted' \in Nat /\ uncounted <= uncounted' /\ exists' \in BOOLEAN
      /\ codes' = [codes EXCEPT ![call[h].c] = new]
  BY <1>1, <1>3, <1>4, CodeOf DEF k
<1>10. QED
  BY <1>1, <1>4, <1>6, <1>7, <1>8, <1>9, ConfirmEnds

LEMMA CodeRightSound ==
  ASSUME Sound, NEW h \in Callers, CodeRight(h) PROVE Sound'
<1> DEFINE k == call[h].c
           new == [codes[k] EXCEPT !.tries = call[h].tries + 1, !.status = "VERIFIED"]
<1>1. call[h].op = "confirm" /\ call[h].result = "right"
  BY DEF CodeRight
<1>2. codes \in Seq(Code) /\ k \in DOMAIN codes /\ codes[k] \in Code
  BY <1>1, CodeOf DEF Sound, AccountRows
<1>3. codes' = [codes EXCEPT ![k] = new]
  BY <1>2 DEF CodeRight
<1>4. /\ openedBy' = [openedBy EXCEPT ![k] = openedBy[k] + 1] /\ Answered(h)
      /\ exists' = TRUE
      /\ UNCHANGED <<wrong, uncounted, blocked, standing, docVars, accountBudget>>
  BY DEF CodeRight
<1>5. call[h].tries + 1 \in 0..MaxTries
  BY <1>1, CodeOf
<1>6. new \in Code /\ new.tries = call[h].tries + 1 /\ new.status = "VERIFIED"
  BY <1>2, <1>5 DEF Code
<1> HIDE DEF k, new
<1>7. SameBudget
  BY <1>4 DEF SameBudget, Sound, AccountRows
<1>8. "confirm" \notin accountBudget.racing =>
        /\ openedBy[k] + 1 <= IF new.status = "PENDING" THEN 0 ELSE 1
        /\ wrong[k] <= new.tries + uncounted'
  <2>1. SUFFICES ASSUME "confirm" \notin accountBudget.racing
                 PROVE  openedBy[k] = 0 /\ wrong[k] <= new.tries + uncounted
    BY <1>4, <1>6
  <2>2. /\ openedBy[k] = 0 /\ call[h].tries = codes[k].tries
        /\ wrong[k] <= codes[k].tries + uncounted
    BY <1>1, <2>1, CodeKnown DEF k
  <2>3. wrong[k] \in Nat /\ uncounted \in Nat /\ codes[k].tries \in Int
    BY <1>1, CodeOf, AccountAssumption DEF k
  <2>4. QED
    BY <1>6, <2>2, <2>3
<1>9. /\ wrong' = [wrong EXCEPT ![call[h].c] = wrong[k]] /\ wrong[k] \in Nat
      /\ openedBy' = [openedBy EXCEPT ![call[h].c] = openedBy[k] + 1]
      /\ openedBy[k] + 1 \in Nat
      /\ uncounted' \in Nat /\ uncounted <= uncounted' /\ exists' \in BOOLEAN
      /\ codes' = [codes EXCEPT ![call[h].c] = new]
  BY <1>1, <1>3, <1>4, CodeOf DEF k
<1>10. QED
  BY <1>1, <1>4, <1>6, <1>7, <1>8, <1>9, ConfirmEnds

LEMMA LoginRefusedSound ==
  ASSUME Sound, NEW h \in Callers, LoginRefused(h) PROVE Sound'
<1>1. /\ Answered(h) /\ UNCHANGED <<codeVars, exists, blocked, standing, request,
                                     submissions, accountBudget>>
  BY DEF LoginRefused, userVars, docVars
<1>2. AccountRows
  BY DEF Sound
<1>3. Ending /\ SameBudget
  BY <1>1, <1>2, AnsweredEnds DEF SameBudget, AccountRows
<1>4. AccountRows'
  BY <1>1, <1>2, <1>3 DEF AccountRows, Ending, codeVars
<1>5. QED
  BY <1>1, <1>3, <1>4, CodesUntouched, DocsUntouched DEF Sound

LEMMA CommitFailsSound ==
  ASSUME Sound, NEW h \in Callers, CommitFails(h) PROVE Sound'
<1>1. /\ Answered(h) /\ accountBudget.lost > 0
      /\ accountBudget' = [accountBudget EXCEPT !.lost = @ - 1]
      /\ UNCHANGED <<codes, openedBy, exists, blocked, standing, request, submissions>>
  BY DEF CommitFails, userVars, docVars
<1>2. AccountRows
  BY DEF Sound
<1>3. SameBudget
  <2> DEFINE less == [accountBudget EXCEPT !.lost = @ - 1]
  <2>1. accountBudget \in Limits
    BY <1>2 DEF AccountRows
  <2>2. accountBudget.lost - 1 \in Nat
    BY <1>1, <2>1 DEF Limits
  <2>3. less \in Limits /\ less.racing = accountBudget.racing /\ less.docs = accountBudget.docs
    BY <2>1, <2>2 DEF Limits
  <2>4. QED
    BY <1>1, <2>3 DEF SameBudget
<1>4. CASE call[h].op = "confirm" /\ call[h].result = "wrong"
  <2> DEFINE k == call[h].c
  <2>1. wrong' = [wrong EXCEPT ![k] = wrong[k] + 1] /\ uncounted' = uncounted + 1
    BY <1>4 DEF CommitFails
  <2>2. /\ codes[k] \in Code /\ codes' = [codes EXCEPT ![k] = codes[k]]
        /\ openedBy[k] \in Nat /\ openedBy' = [openedBy EXCEPT ![k] = openedBy[k]]
        /\ wrong[k] \in Nat /\ uncounted \in Nat /\ exists' \in BOOLEAN
        /\ codes[k].tries \in 0..MaxTries
    BY <1>1, <1>4, CodeOf
  <2>3. wrong[k] + 1 \in Nat /\ uncounted' \in Nat /\ uncounted <= uncounted'
    BY <2>1, <2>2
  <2>4. "confirm" \notin accountBudget.racing =>
          /\ openedBy[k] <= IF codes[k].status = "PENDING" THEN 0 ELSE 1
          /\ wrong[k] + 1 <= codes[k].tries + uncounted'
    <3>1. SUFFICES ASSUME "confirm" \notin accountBudget.racing
                   PROVE  openedBy[k] = 0 /\ wrong[k] + 1 <= codes[k].tries + (uncounted + 1)
      BY <2>1
    <3>2. openedBy[k] = 0 /\ wrong[k] <= codes[k].tries + uncounted
      BY <1>4, <3>1, CodeKnown
    <3>3. codes[k].tries \in Int
      BY <2>2, AccountAssumption
    <3>4. QED
      BY <2>2, <3>2, <3>3
  <2>5. UNCHANGED <<blocked, standing, docVars>>
    BY <1>1 DEF docVars
  <2> HIDE DEF k
  <2>6. /\ codes' = [codes EXCEPT ![call[h].c] = codes[k]]
        /\ openedBy' = [openedBy EXCEPT ![call[h].c] = openedBy[k]]
        /\ wrong' = [wrong EXCEPT ![call[h].c] = wrong[k] + 1]
    BY <2>1, <2>2 DEF k
  <2>7. QED
    BY <1>1, <1>3, <1>4, <2>2, <2>3, <2>4, <2>5, <2>6, ConfirmEnds
<1>5. CASE ~(call[h].op = "confirm" /\ call[h].result = "wrong")
  <2>1. UNCHANGED <<wrong, uncounted>>
    BY <1>5 DEF CommitFails
  <2>2. Ending
    BY <1>1, <1>2, AnsweredEnds
  <2>3. AccountRows'
    BY <1>1, <1>2, <1>3, <2>1, <2>2 DEF AccountRows, Ending, SameBudget
  <2>4. UNCHANGED codeVars /\ UNCHANGED <<standing, request>>
    BY <1>1, <2>1 DEF codeVars
  <2>5. QED
    BY <1>3, <2>2, <2>3, <2>4, CodesUntouched, DocsUntouched DEF Sound
<1>6. QED
  BY <1>4, <1>5

-----------------------------------------------------------------------------
(* The documents *)

(* A change of the documents alone: h ends, row d becomes row.              *)
LEMMA DocsSound ==
  ASSUME Sound, NEW h \in Callers, Answered(h),
         UNCHANGED <<codeVars, exists, blocked, accountBudget>>,
         NEW d \in Docs, NEW row \in Row, row.status = "none" <=> row.n = 0,
         request' = [request EXCEPT ![d] = row], standing' \in Standings,
         submissions' \in Nat, Reviews', OneRow'
  PROVE  Sound'
<1>1. AccountRows
  BY DEF Sound
<1>2. Ending /\ SameBudget
  BY <1>1, AnsweredEnds DEF SameBudget, AccountRows
<1>3. /\ request' \in [Docs -> Row]
      /\ \A e \in Docs : (request'[e].status = "none") <=> (request'[e].n = 0)
  BY <1>1 DEF AccountRows
<1>4. AccountRows'
  BY <1>1, <1>2, <1>3 DEF AccountRows, Ending, codeVars
<1>5. QED
  BY <1>2, <1>4, CodesUntouched DEF Sound

LEMMA SubmittedSound ==
  ASSUME Sound, NEW h \in Callers, Submitted(h) PROVE Sound'
<1> DEFINE d == call[h].d
           row == [n |-> submissions + 1, status |-> "PENDING_REVIEW"]
<1>1. /\ call[h].op = "submit" /\ Answered(h)
      /\ UNCHANGED <<codeVars, exists, blocked, accountBudget>>
  BY DEF Submitted
<1>2. AccountRows /\ d \in Docs
  BY <1>1 DEF Sound, WellRead
<1>3. Ending /\ SameBudget /\ \A g \in Callers : call'[g] = IF g = h THEN Quiet ELSE call[g]
  BY <1>1, <1>2, AnsweredEnds DEF SameBudget, AccountRows
<1>4. CASE request[d].n \in {0, call[h].n}
  <2>1. /\ request' = [request EXCEPT ![d] = row] /\ standing' = "PENDING_REVIEW"
        /\ submissions' = submissions + 1
    BY <1>4 DEF Submitted
  <2>2. row \in Row /\ row.status = "PENDING_REVIEW" /\ row.n # 0
    BY <1>2 DEF AccountRows, Row
  <2> HIDE DEF d, row
  <2>3. \A e \in Docs : request'[e] = IF e = d THEN row ELSE request[e]
    BY <1>2, <2>1 DEF AccountRows
  <2>4. Reviews'
    <3>1. SUFFICES ASSUME OneReviewer PROVE Reviews'
      BY <1>1 DEF Reviews, OneReviewer
    <3>2. CallsAlone("review")'
      BY <1>3, <3>1, StillAlone DEF Sound, Reviews, AccountOps
    <3>3. \A g \in Callers : call'[g].op \in {"delete", "review"} =>
            call'[g] = call[g] /\ call[g].d \in Docs
      BY <1>3, QuietIs DEF Sound, WellRead
    <3>4. QED
      BY <2>1, <2>2, <2>3, <3>1, <3>2, <3>3 DEF Sound, Reviews, Approved
  <2>5. OneRow'
    <3>1. SUFFICES ASSUME OneDocument PROVE OneRow'
      BY <1>1 DEF OneRow, OneDocument
    <3>2. CallsAlone("submit")'
      BY <1>3, <3>1, StillAlone DEF Sound, OneRow, AccountOps
    <3>3. \A g \in Callers : call'[g].op = "none"
      BY <1>1, <1>3, <3>1, QuietIs DEF Sound, OneRow, CallsAlone
    <3>4. accountBudget.docs = {d}
      BY <1>1, <3>1 DEF Sound, OneRow, OneDocument, d
    <3>5. QED
      BY <1>1, <1>2, <2>1, <2>2, <2>3, <3>1, <3>2, <3>3, <3>4
      DEF Sound, OneRow, StandingOf
  <2>6. standing' \in Standings /\ submissions' \in Nat
    BY <1>2, <2>1 DEF Standings, AccountRows
  <2>7. QED
    BY <1>1, <1>2, <2>1, <2>2, <2>4, <2>5, <2>6, DocsSound
<1>5. CASE request[d].n \notin {0, call[h].n}
  <2>1. UNCHANGED <<submissions, request, standing>>
    BY <1>5 DEF Submitted
  <2>2. AccountRows'
    BY <1>1, <1>2, <1>3, <2>1 DEF AccountRows, Ending, codeVars
  <2>3. QED
    BY <1>1, <1>3, <2>1, <2>2, CodesUntouched, DocsUntouched DEF Sound
<1>6. QED
  BY <1>4, <1>5

LEMMA DeletedSound ==
  ASSUME Sound, NEW h \in Callers, Deleted(h) PROVE Sound'
<1> DEFINE d == call[h].d
           row == IF request[d].n = call[h].n THEN NoRequest ELSE request[d]
<1>1. /\ call[h].op = "delete" /\ Answered(h) /\ Sets(h, "DRAFT")
      /\ UNCHANGED <<codeVars, exists, blocked, submissions, accountBudget>>
  BY DEF Deleted
<1>2. AccountRows /\ d \in Docs /\ call[h].n # 0 /\ request \in [Docs -> Row]
  BY <1>1 DEF Sound, WellRead, AccountRows
<1>3. Ending /\ SameBudget /\ \A g \in Callers : call'[g] = IF g = h THEN Quiet ELSE call[g]
  BY <1>1, <1>2, AnsweredEnds DEF SameBudget, AccountRows
<1>4. request' = [request EXCEPT ![d] = row]
  BY <1>2 DEF Deleted
<1>5. row \in Row /\ (row.status = "none" <=> row.n = 0)
  BY <1>2 DEF AccountRows, Row, NoRequest
<1>6. /\ request[d].n = call[h].n => row.status = "none" /\ row.n = 0
      /\ request[d].n # call[h].n => row = request[d]
  BY DEF NoRequest
<1> HIDE DEF d, row
<1>7. \A e \in Docs : request'[e] = IF e = d THEN row ELSE request[e]
  BY <1>2, <1>4
<1>8. Reviews'
  <2>1. SUFFICES ASSUME OneReviewer PROVE Reviews'
    BY <1>1 DEF Reviews, OneReviewer
  <2>2. CallsAlone("review")'
    BY <1>3, <2>1, StillAlone DEF Sound, Reviews, AccountOps
  <2>3. \A g \in Callers : call'[g].op \in {"delete", "review"} =>
          call'[g] = call[g] /\ call[g].d \in Docs
    BY <1>3, QuietIs DEF Sound, WellRead
  <2>4. request[d].n = call[h].n => request[d].status # "APPROVED"
    BY <1>1, <2>1 DEF Sound, Reviews, d
  <2>5. Approved'
    <3>1. SUFFICES ASSUME standing' = "APPROVED"
                   PROVE  \E e \in Docs : request'[e].status = "APPROVED"
      BY DEF Approved
    <3>2. standing = "APPROVED"
      BY <1>1, <3>1 DEF Sets
    <3>3. PICK e \in Docs : request[e].status = "APPROVED"
      BY <2>1, <3>2 DEF Sound, Reviews, Approved
    <3>4. request'[e] = request[e]
      BY <1>6, <1>7, <2>4, <3>3
    <3>5. QED
      BY <3>3, <3>4
  <2>6. ASSUME NEW g \in Callers, call'[g].op \in {"delete", "review"},
               request'[call'[g].d].n = call'[g].n
        PROVE  request'[call'[g].d].status # "APPROVED"
    BY <1>6, <1>7, <2>1, <2>3, <2>6 DEF Sound, Reviews
  <2>7. QED
    BY <2>2, <2>5, <2>6 DEF Reviews
<1>9. OneRow'
  <2>1. SUFFICES ASSUME OneDocument PROVE OneRow'
    BY <1>1 DEF OneRow, OneDocument
  <2>2. CallsAlone("submit")'
    BY <1>3, <2>1, StillAlone DEF Sound, OneRow, AccountOps
  <2>3. /\ accountBudget.docs = {d} /\ call[h].had # "DRAFT"
        /\ request[d].n \in {0, call[h].n}
    BY <1>1, <2>1 DEF Sound, OneRow, OneDocument, d
  <2>4. standing' = "DRAFT" /\ row.status = "none" /\ row.n = 0
    BY <1>1, <1>5, <1>6, <2>3 DEF Sets
  <2>5. \A g \in Callers : call'[g].op # "none" => call'[g] = call[g]
    BY <1>3, QuietIs
  <2>6. \A g \in Callers : call'[g].op = "delete" => call'[g].d = d
    BY <2>1, <2>3, <2>5 DEF Sound, OneRow
  <2>7. QED
    BY <1>1, <1>2, <1>7, <2>1, <2>2, <2>3, <2>4, <2>5, <2>6 DEF Sound, OneRow, StandingOf
<1>10. standing' \in Standings /\ submissions' \in Nat
  BY <1>1, <1>2 DEF Sets, Standings, AccountRows
<1>11. QED
  BY <1>1, <1>2, <1>4, <1>5, <1>8, <1>9, <1>10, DocsSound

LEMMA ReviewedSound ==
  ASSUME Sound, NEW h \in Callers, Reviewed(h) PROVE Sound'
<1> DEFINE d == call[h].d
           verdict == call[h].verdict
           row == [request[d] EXCEPT !.status = verdict]
<1>1. /\ call[h].op = "review" /\ Answered(h)
      /\ UNCHANGED <<codeVars, exists, blocked, submissions, accountBudget>>
  BY DEF Reviewed
<1>2. /\ AccountRows /\ d \in Docs /\ call[h].n # 0 /\ verdict \in Verdicts
      /\ request \in [Docs -> Row] /\ request[d] \in Row
  BY <1>1 DEF Sound, WellRead, AccountRows
<1>3. Ending /\ SameBudget /\ \A g \in Callers : call'[g] = IF g = h THEN Quiet ELSE call[g]
  BY <1>1, <1>2, AnsweredEnds DEF SameBudget, AccountRows
<1>4. CASE request[d].n = call[h].n
  <2>1. request' = [request EXCEPT ![d] = row] /\ Sets(h, verdict)
    BY <1>2, <1>4 DEF Reviewed
  <2>2. row \in Row /\ row.status = verdict /\ row.n = request[d].n
    BY <1>2 DEF Row
  <2>3. verdict # "none" /\ row.n # 0
    BY <1>2, <1>4, <2>2 DEF Verdicts
  <2> HIDE DEF d, row, verdict
  <2>4. \A e \in Docs : request'[e] = IF e = d THEN row ELSE request[e]
    BY <1>2, <2>1
  <2>5. Reviews'
    <3>1. SUFFICES ASSUME OneReviewer PROVE Reviews'
      BY <1>1 DEF Reviews, OneReviewer
    <3>2. CallsAlone("review")'
      BY <1>3, <3>1, StillAlone DEF Sound, Reviews, AccountOps
    <3>3. \A g \in Callers : call'[g].op = "none"
      BY <1>1, <1>3, <3>1, QuietIs DEF Sound, Reviews, CallsAlone
    <3>4. request[d].status # "APPROVED"
      BY <1>1, <1>4, <3>1 DEF Sound, Reviews, d
    <3>5. Approved'
      <4>1. SUFFICES ASSUME standing' = "APPROVED"
                     PROVE  \E e \in Docs : request'[e].status = "APPROVED"
        BY DEF Approved
      <4>2. CASE verdict = "APPROVED"
        BY <1>2, <2>2, <2>4, <4>2
      <4>3. CASE verdict # "APPROVED"
        <5>1. standing = "APPROVED"
          BY <2>1, <4>1, <4>3 DEF Sets
        <5>2. PICK e \in Docs : request[e].status = "APPROVED"
          BY <3>1, <5>1 DEF Sound, Reviews, Approved
        <5>3. QED
          BY <2>4, <3>4, <5>2
      <4>4. QED
        BY <4>2, <4>3
    <3>6. QED
      BY <3>2, <3>3, <3>5 DEF Reviews
  <2>6. OneRow'
    <3>1. SUFFICES ASSUME OneDocument PROVE OneRow'
      BY <1>1 DEF OneRow, OneDocument
    <3>2. CallsAlone("submit")'
      BY <1>3, <3>1, StillAlone DEF Sound, OneRow, AccountOps
    <3>3. accountBudget.docs = {d} /\ call[h].had = "PENDING_REVIEW"
      BY <1>1, <3>1 DEF Sound, OneRow, OneDocument, d
    <3>4. standing' = verdict
      BY <1>2, <2>1, <3>3 DEF Sets, Verdicts
    <3>5. \A g \in Callers : call'[g].op # "none" => call'[g] = call[g]
      BY <1>3, QuietIs
    <3>6. \A g \in Callers : call'[g].op \in {"submit", "delete", "review"} => call'[g].d = d
      BY <3>1, <3>3, <3>5 DEF Sound, OneRow
    <3>7. QED
      BY <1>1, <1>2, <2>2, <2>3, <2>4, <3>1, <3>2, <3>3, <3>4, <3>5, <3>6
      DEF Sound, OneRow, StandingOf
  <2>7. standing' \in Standings /\ submissions' \in Nat
    BY <1>1, <1>2, <2>1 DEF Sets, Standings, Verdicts, AccountRows
  <2>8. QED
    BY <1>1, <1>2, <2>1, <2>2, <2>3, <2>5, <2>6, <2>7, DocsSound
<1>5. CASE request[d].n # call[h].n
  <2>1. UNCHANGED <<request, standing>>
    BY <1>5 DEF Reviewed
  <2>2. AccountRows'
    BY <1>1, <1>2, <1>3, <2>1 DEF AccountRows, Ending, codeVars
  <2>3. QED
    BY <1>1, <1>3, <2>1, <2>2, CodesUntouched, DocsUntouched DEF Sound
<1>6. QED
  BY <1>4, <1>5

LEMMA BlockSound ==
  ASSUME Sound, NEW h \in Callers, Block(h) PROVE Sound'
<1>1. /\ blocked' = TRUE
      /\ UNCHANGED <<codeVars, exists, standing, request, submissions, call, accountBudget>>
  BY DEF Block, docVars
<1>2. AccountRows
  BY DEF Sound
<1>3. Ending /\ SameBudget
  BY <1>1, <1>2 DEF Ending, SameBudget, AccountRows
<1>4. AccountRows'
  BY <1>1, <1>2, <1>3 DEF AccountRows, Ending, codeVars
<1>5. QED
  BY <1>1, <1>3, <1>4, CodesUntouched, DocsUntouched DEF Sound

-----------------------------------------------------------------------------
(* The specification *)

LEMMA InitSound == AccountInit => Sound
<1> SUFFICES ASSUME AccountInit PROVE Sound
  OBVIOUS
<1>1. /\ codes = <<>> /\ wrong = <<>> /\ openedBy = <<>> /\ uncounted = 0
      /\ exists \in BOOLEAN /\ blocked = FALSE /\ standing = "DRAFT"
      /\ request = [d \in Docs |-> NoRequest] /\ submissions = 0
      /\ call = [h \in Callers |-> Quiet] /\ accountBudget \in AccountBudgets
  BY DEF AccountInit
<1>2. codes \in Seq(Code) /\ wrong \in Seq(Nat) /\ openedBy \in Seq(Nat)
      /\ Len(codes) = 0 /\ Len(wrong) = 0 /\ Len(openedBy) = 0
  BY <1>1
<1>3. NoRequest \in Row /\ NoRequest.n = 0 /\ NoRequest.status = "none"
  BY DEF NoRequest, Row
<1>4. \A d \in Docs : request[d] = NoRequest
  BY <1>1
<1>5. AccountRows
  <2>1. request \in [Docs -> Row]
    BY <1>1, <1>3
  <2>2. accountBudget \in Limits
    BY <1>1, AccountAssumption DEF Limits
  <2>3. \A h \in Callers : call[h] = Quiet
    BY <1>1
  <2>4. call = [h \in Callers |-> call[h]]
    BY <1>1, <2>3
  <2>5. \A d \in Docs : (request[d].status = "none") <=> (request[d].n = 0)
    BY <1>3, <1>4
  <2>6. QED
    BY <1>1, <1>2, <2>1, <2>2, <2>4, <2>5 DEF AccountRows, Standings
<1>6. \A h \in Callers : call[h] = Quiet /\ call[h].op = "none"
  BY <1>1, QuietIs
<1>7. \A h \in Callers : WellRead(call[h], Len(codes))
  BY <1>6, QuietIs
<1>8. \A op \in AccountOps : CallsAlone(op)
  BY <1>6 DEF CallsAlone
<1>9. Guesses
  BY <1>1, <1>6, <1>8 DEF Guesses, AccountOps
<1>10. Reviews
  BY <1>1, <1>6, <1>8 DEF Reviews, Approved, AccountOps
<1>11. OneRow
  BY <1>1, <1>3, <1>4, <1>5, <1>6, <1>8 DEF OneRow, StandingOf, AccountOps, AccountRows, Limits
<1>12. QED
  BY <1>5, <1>7, <1>9, <1>10, <1>11 DEF Sound

LEMMA StutterSound == Sound /\ UNCHANGED accountVars => Sound'
<1> SUFFICES ASSUME Sound, UNCHANGED accountVars PROVE Sound'
  OBVIOUS
<1>1. UNCHANGED <<codeVars, userVars, docVars, call, accountBudget>>
  BY DEF accountVars
<1>2. UNCHANGED <<exists, blocked, standing, request, submissions>>
  BY <1>1 DEF userVars, docVars
<1>3. AccountRows
  BY DEF Sound
<1>4. Ending /\ SameBudget
  BY <1>1, <1>3 DEF Ending, SameBudget, AccountRows
<1>5. AccountRows'
  BY <1>1, <1>2, <1>3, <1>4 DEF AccountRows, Ending, codeVars
<1>6. QED
  BY <1>1, <1>2, <1>4, <1>5, CodesUntouched, DocsUntouched DEF Sound

LEMMA NextSound == Sound /\ [AccountNext]_accountVars => Sound'
<1> SUFFICES ASSUME Sound, [AccountNext]_accountVars PROVE Sound'
  OBVIOUS
<1>1. ASSUME NEW h \in Callers, CommitFails(h) PROVE Sound'
  BY <1>1, CommitFailsSound
<1>2. ASSUME NEW h \in Callers,
             StartRequestCode(h) \/ \E status \in {"PENDING", "FAILED"} : CodeSent(h, status)
      PROVE  Sound'
  BY <1>2, StartRequestCodeSound, CodeSentSound
<1>3. ASSUME NEW h \in Callers,
             \E c \in DOMAIN codes, right \in BOOLEAN : StartConfirmCode(h, c, right)
      PROVE  Sound'
  BY <1>3, StartConfirmCodeSound
<1>4. ASSUME NEW h \in Callers,
             CodeRefused(h) \/ CodeWrong(h) \/ CodeRight(h) \/ LoginRefused(h)
      PROVE  Sound'
  BY <1>4, CodeRefusedSound, CodeWrongSound, CodeRightSound, LoginRefusedSound
<1>5. ASSUME NEW h \in Callers,
             \E d \in accountBudget.docs : StartSubmit(h, d) \/ StartDelete(h, d)
      PROVE  Sound'
  BY <1>5, StartSubmitSound, StartDeleteSound
<1>6. ASSUME NEW h \in Callers, Submitted(h) \/ Deleted(h) \/ Reviewed(h) \/ Block(h)
      PROVE  Sound'
  BY <1>6, SubmittedSound, DeletedSound, ReviewedSound, BlockSound
<1>7. ASSUME NEW h \in Callers,
             \E verdict \in {"APPROVED", "REJECTED"} : StartReview(h, verdict)
      PROVE  Sound'
  BY <1>7, StartReviewSound DEF Verdicts
<1>8. ASSUME NEW c \in DOMAIN codes, CodeAges(c) PROVE Sound'
  BY <1>8, CodeAgesSound
<1>9. CASE UNCHANGED accountVars
  BY <1>9, StutterSound
<1>10. QED
  BY <1>1, <1>2, <1>3, <1>4, <1>5, <1>6, <1>7, <1>8, <1>9 DEF AccountNext

LEMMA AlwaysSound == AccountSpec => []Sound
  BY InitSound, NextSound, PTL DEF AccountSpec

LEMMA SoundIsTyped == Sound => AccountTypeOK
<1> SUFFICES ASSUME Sound PROVE AccountTypeOK
  OBVIOUS
<1>1. AccountRows
  BY DEF Sound
<1>2. wrong \in [DOMAIN codes -> Nat] /\ openedBy \in [DOMAIN codes -> Nat]
  <2>1. \A s : s \in Seq(Nat) /\ Len(s) = Len(codes) => s \in [1..Len(codes) -> Nat]
    OBVIOUS
  <2>2. DOMAIN codes = 1..Len(codes)
    BY <1>1 DEF AccountRows
  <2>3. QED
    BY <1>1, <2>1, <2>2 DEF AccountRows
<1>3. request \in [Docs -> [n : Nat, status : Standings \cup {"none"}]]
  <2>1. \A r \in Row : r \in [n : Nat, status : Standings \cup {"none"}]
    BY DEF Row, Verdicts, Standings
  <2>2. QED
    BY <1>1, <2>1 DEF AccountRows
<1>4. \A h \in Callers : call[h].op \in AccountOps \cup {"none"}
  BY DEF Sound, WellRead
<1>5. QED
  BY <1>1, <1>2, <1>3, <1>4 DEF AccountTypeOK, AccountRows, Code

LEMMA SoundGuesses == Sound => GuessesBounded
<1>1. SUFFICES ASSUME Sound, "confirm" \notin accountBudget.racing, NEW c \in DOMAIN codes
               PROVE  openedBy[c] <= 1 /\ wrong[c] <= MaxTries + uncounted
  BY DEF GuessesBounded
<1>2. codes[c] \in Code /\ wrong[c] \in Nat /\ openedBy[c] \in Nat /\ uncounted \in Nat
  BY <1>1 DEF Sound, AccountRows
<1>3. /\ openedBy[c] <= IF codes[c].status = "PENDING" THEN 0 ELSE 1
      /\ wrong[c] <= codes[c].tries + uncounted
  BY <1>1 DEF Sound, Guesses
<1>4. codes[c].tries \in 0..MaxTries
  BY <1>2 DEF Code
<1>5. QED
  BY <1>2, <1>3, <1>4, AccountAssumption

(* Every variable has its type, and, with the confirmations of a code one at *)
(* a time, a code opens one session at most and judges MaxTries wrong guesses *)
(* at most and one for every commit that failed: whatever races a            *)
(* confirmation of another kind, and for any number of codes (confirm_code). *)
THEOREM CodeIsBounded == AccountSpec => [](AccountTypeOK /\ GuessesBounded)
<1> QED  BY AlwaysSound, SoundIsTyped, SoundGuesses, PTL

LEMMA SoundReview == Sound => ApprovedIsReviewed
<1>1. SUFFICES ASSUME Sound, OneReviewer \/ OneDocument, standing = "APPROVED"
               PROVE  \E d \in Docs : request[d].status = "APPROVED"
  BY DEF ApprovedIsReviewed
<1>2. CASE OneReviewer
  BY <1>1, <1>2 DEF Sound, Reviews, Approved
<1>3. CASE OneDocument
  <2>1. PICK d \in accountBudget.docs : standing = StandingOf(request[d])
    BY <1>1, <1>3 DEF Sound, OneRow
  <2>2. d \in Docs
    BY <1>1 DEF Sound, AccountRows, Limits
  <2>3. QED
    BY <1>1, <2>1, <2>2 DEF StandingOf
<1>4. QED
  BY <1>1, <1>2, <1>3

(* An owner who may rent has a document somebody approved, for any number of *)
(* documents, handlers and failed commits, where ApprovedIsReviewed says so   *)
(* (delete_verification_request, approve_verification).                      *)
THEOREM ApprovedWasReviewed == AccountSpec => []ApprovedIsReviewed
<1> QED  BY AlwaysSound, SoundReview, PTL

-----------------------------------------------------------------------------
(* Sessions and their tokens.                                               *)

TokenRows == [s : Numbers, fresh : BOOLEAN]
TabRequests == [op : {"call", "logout", "restore"}, at : {"first", "refresh", "retry"},
           tokens : TokenRows, reply : {"none", "ok", "401", "403", "error"}]
SessionRows == [state : {"none", "live", "revoked", "expired"}, made : 0..MaxPasswords]

(* Tokens belong to a session that was once live; only it can be over.       *)
Issued(rows, tokens) == tokens \in TokenRows /\ rows[tokens.s].state # "none"
Genuine(rows, tokens) == tokens = NoTokens \/ Issued(rows, tokens)
(* What a request under way knows.                                          *)
Honest(rows, q) ==
  \/ q = Waiting
  \/ /\ q \in TabRequests /\ Issued(rows, q.tokens)
     /\ q.at = "retry" => q.tokens.fresh
     /\ q.reply = "401" =>
          rows[q.tokens.s].state # "live" \/ (q.at = "first" /\ ~q.tokens.fresh)

ServerTypes ==
  /\ authSession \in [Numbers -> SessionRows] /\ barred \in BOOLEAN
  /\ password \in 0..MaxPasswords /\ entering \in -1..MaxPasswords
  /\ change \in {"none", "password", "disable", "enable", "cities"}
  /\ change = "password" => password < MaxPasswords
Signed ==
  /\ ServerTypes
  /\ Genuine(authSession, store)
  /\ mem = [t \in Tabs |-> mem[t]] /\ tab = [t \in Tabs |-> tab[t]]
  /\ \A t \in Tabs : Genuine(authSession, mem[t]) /\ Honest(authSession, tab[t])

(* A session ends, and never becomes live again.                            *)
OnlyEnd(rows, new) ==
  \A s \in Numbers :
    /\ rows[s].state # "none" => new[s].state # "none"
    /\ rows[s].state # "none" /\ rows[s].state # "live" => new[s].state # "live"

LEMMA IssuedStays ==
  ASSUME NEW rows, NEW new, OnlyEnd(rows, new), NEW k
  PROVE  /\ Genuine(rows, k) => Genuine(new, k)
         /\ Honest(rows, k) => Honest(new, k)
BY DEF OnlyEnd, Genuine, Honest, Issued, TokenRows, TabRequests

LEMMA ServerMoves ==
  ASSUME Signed, ServerTypes', OnlyEnd(authSession, authSession'), UNCHANGED clientVars
  PROVE  Signed'
<1>1. UNCHANGED <<store, mem, tab>>
  BY DEF clientVars
<1>2. /\ Genuine(authSession', store')
      /\ \A t \in Tabs : Genuine(authSession', mem'[t]) /\ Honest(authSession', tab'[t])
  BY <1>1, IssuedStays DEF Signed
<1> QED  BY <1>1, <1>2 DEF Signed

LEMMA TokensIs ==
  ASSUME NEW s \in Numbers, NEW fresh \in BOOLEAN
  PROVE  /\ Tokens(s, fresh) \in TokenRows
         /\ Tokens(s, fresh).s = s /\ Tokens(s, fresh).fresh = fresh
BY DEF Tokens, TokenRows

LEMMA LoginSigned ==
  ASSUME Signed, NEW t \in Tabs, NEW kept, LoginCommitted(t, kept)
  PROVE  Signed'
<1>1. PICK s \in Numbers :
        /\ authSession[s] = NoSession
        /\ authSession' = [authSession EXCEPT ![s] = [state |-> "live", made |-> entering]]
        /\ IF kept
           THEN /\ store' = Tokens(s, TRUE)
                /\ mem' = IF KeepsCopy THEN [mem EXCEPT ![t] = Tokens(s, TRUE)] ELSE mem
           ELSE UNCHANGED <<store, mem>>
  BY DEF LoginCommitted
<1>2. /\ entering \in 0..MaxPasswords /\ entering' = -1
      /\ UNCHANGED <<password, barred, change, tab>>
  BY SignedInAssumption DEF LoginCommitted, Signed, ServerTypes
<1>3. /\ authSession' \in [Numbers -> SessionRows]
      /\ \A r \in Numbers : authSession'[r] =
           IF r = s THEN [state |-> "live", made |-> entering] ELSE authSession[r]
  BY <1>1, <1>2 DEF Signed, ServerTypes, SessionRows
<1>4. ServerTypes'
  BY <1>2, <1>3, SignedInAssumption DEF Signed, ServerTypes
<1>5. OnlyEnd(authSession, authSession')
  BY <1>1, <1>3 DEF OnlyEnd, NoSession
<1>6. Issued(authSession', Tokens(s, TRUE))
  <2>1. authSession'[s].state # "none"
    BY <1>3
  <2> QED  BY <2>1, TokensIs DEF Issued
<1>7. Genuine(authSession', store') /\ \A u \in Tabs : Honest(authSession', tab'[u])
  BY <1>1, <1>2, <1>5, <1>6, IssuedStays DEF Signed, Genuine
<1>8. mem' = [u \in Tabs |-> mem'[u]] /\ \A u \in Tabs : Genuine(authSession', mem'[u])
  <2>1. CASE mem' = [mem EXCEPT ![t] = Tokens(s, TRUE)]
    <3>1. /\ mem' = [u \in Tabs |-> mem'[u]]
          /\ \A u \in Tabs : mem'[u] = IF u = t THEN Tokens(s, TRUE) ELSE mem[u]
      BY <2>1 DEF Signed
    <3> QED  BY <1>5, <1>6, <3>1, IssuedStays DEF Signed, Genuine
  <2>2. CASE mem' = mem
    BY <1>5, <2>2, IssuedStays DEF Signed
  <2> QED  BY <1>1, <2>1, <2>2
<1> QED  BY <1>2, <1>4, <1>7, <1>8 DEF Signed

LEMMA AgesSigned ==
  ASSUME Signed, TokenAges
  PROVE  Signed'
<1> DEFINE Aged == [store EXCEPT !.fresh = FALSE]
<1>1. /\ store' = Aged /\ store # NoTokens /\ UNCHANGED <<serverVars, tab>>
      /\ mem' = [t \in Tabs |-> IF mem[t] = store THEN Aged ELSE mem[t]]
  BY DEF TokenAges
<1>2. Issued(authSession, Aged)
  BY <1>1 DEF Signed, Genuine, Issued, TokenRows
<1> HIDE DEF Aged
<1> QED  BY <1>1, <1>2 DEF Signed, Genuine, serverVars, ServerTypes

LEMMA AsksSigned ==
  ASSUME Signed, NEW t \in Tabs, NEW op \in {"call", "logout", "restore"}, NEW tokens,
         Issued(authSession, tokens), Asks(t, op, tokens), UNCHANGED <<serverVars, store>>,
         mem' = mem \/ mem' = [mem EXCEPT ![t] = tokens]
  PROVE  Signed'
<1> DEFINE q == [op |-> op, at |-> "first", tokens |-> tokens, reply |-> "none"]
<1>1. tab' = [tab EXCEPT ![t] = q]
  BY DEF Asks
<1>2. Honest(authSession, q)
  BY DEF Honest, Issued, TabRequests
<1> HIDE DEF q
<1> QED  BY <1>1, <1>2 DEF Signed, Genuine, serverVars, ServerTypes

LEMMA ServeSigned ==
  ASSUME Signed, NEW t \in Tabs, Serve(t)
  PROVE  Signed'
<1> DEFINE q == tab[t]
           verdict == IF q.op = "logout" /\ q.at # "refresh" /\ ~Staff /\ barred
                         /\ Live(q.tokens.s) /\ q.tokens.fresh
                      THEN "ok" ELSE Verdict(q.at, q.tokens)
           told == [q EXCEPT !.reply = verdict]
<1>1. /\ q # Waiting /\ tab' = [tab EXCEPT ![t] = told]
      /\ \/ authSession' = [authSession EXCEPT ![q.tokens.s].state = "revoked"]
         \/ authSession' = authSession
      /\ UNCHANGED <<password, barred, change, entering, store, mem>>
  BY DEF Serve, Signed
<1>2. /\ q \in TabRequests /\ Issued(authSession, q.tokens) /\ q.tokens.s \in Numbers
      /\ q.at = "retry" => q.tokens.fresh
  BY <1>1 DEF Signed, Honest, Issued, TokenRows
<1>3. /\ verdict \in {"ok", "401", "403"}
      /\ verdict = "401" => ~Live(q.tokens.s) \/ (q.at = "first" /\ ~q.tokens.fresh)
  BY <1>2 DEF Verdict, TabRequests
<1>4. Honest(authSession, told)
  BY <1>2, <1>3 DEF Honest, TabRequests, Live
<1> HIDE DEF q, verdict, told
<1>5. ServerTypes' /\ OnlyEnd(authSession, authSession')
  BY <1>1, <1>2 DEF Signed, ServerTypes, SessionRows, OnlyEnd, Issued
<1>6. /\ Genuine(authSession', store')
      /\ \A u \in Tabs : Genuine(authSession', mem'[u])
  BY <1>1, <1>5, IssuedStays DEF Signed
<1>7. tab' = [u \in Tabs |-> tab'[u]] /\ \A u \in Tabs : Honest(authSession', tab'[u])
  BY <1>1, <1>4, <1>5, IssuedStays DEF Signed
<1> QED  BY <1>1, <1>5, <1>6, <1>7 DEF Signed

LEMMA FailsSigned ==
  ASSUME Signed, NEW t \in Tabs, Fails(t)
  PROVE  Signed'
<1> DEFINE told == [tab[t] EXCEPT !.reply = "error"]
<1>1. tab[t] # Waiting /\ tab' = [tab EXCEPT ![t] = told] /\ UNCHANGED <<serverVars, store, mem>>
  BY DEF Fails
<1>2. Honest(authSession, told)
  BY <1>1 DEF Signed, Honest, TabRequests
<1> HIDE DEF told
<1> QED  BY <1>1, <1>2 DEF Signed, serverVars, ServerTypes

LEMMA ReceiveSigned ==
  ASSUME Signed, NEW t \in Tabs, Receive(t)
  PROVE  Signed'
<1> DEFINE q == tab[t]
           to == After(q)
           got == IF q.at = "refresh" /\ q.reply = "ok" THEN Tokens(q.tokens.s, TRUE)
                  ELSE q.tokens
           next == [q EXCEPT !.at = to, !.tokens = got, !.reply = "none"]
<1>1. /\ q # Waiting /\ UNCHANGED serverVars
      /\ tab' = [tab EXCEPT ![t] = IF to \in {"done", "forget"} THEN Waiting ELSE next]
      /\ store' \in {NoTokens, got, store}
      /\ mem' = mem \/ \E k \in {NoTokens, got, mem[t]} : mem' = [mem EXCEPT ![t] = k]
  BY DEF Receive
<1>2. q \in TabRequests /\ Issued(authSession, q.tokens) /\ q.tokens.s \in Numbers
  BY <1>1 DEF Signed, Honest, Issued, TokenRows
<1>3. /\ to \in {"done", "forget", "refresh", "retry"}
      /\ to = "retry" => q.at = "refresh" /\ q.reply = "ok"
  BY DEF After
<1>4. Issued(authSession, got) /\ (to = "retry" => got.fresh)
  BY <1>2, <1>3, TokensIs DEF Issued
<1> HIDE DEF to, got
<1>5. to \in {"refresh", "retry"} => Honest(authSession, next)
  BY <1>2, <1>4 DEF Honest, TabRequests, Issued
<1> HIDE DEF next, q
<1>6. tab' = [u \in Tabs |-> tab'[u]] /\ \A u \in Tabs : Honest(authSession, tab'[u])
  BY <1>1, <1>3, <1>5 DEF Signed, Honest
<1>7. /\ Genuine(authSession, store') /\ mem' = [u \in Tabs |-> mem'[u]]
      /\ \A u \in Tabs : Genuine(authSession, mem'[u])
  BY <1>1, <1>4 DEF Signed, Genuine
<1> QED  BY <1>1, <1>6, <1>7 DEF Signed, serverVars, ServerTypes

LEMMA SignedInConstants == MaxPasswords \in Nat /\ NoTokens \notin TokenRows
BY SignedInAssumption DEF TokenRows, Numbers

LEMMA SignedAtFirst == TabInit => Signed
<1> SUFFICES ASSUME TabInit PROVE Signed
  OBVIOUS
<1>1. /\ authSession = [s \in Numbers |-> NoSession] /\ password = 0
      /\ barred = FALSE /\ change = "none" /\ entering = -1
      /\ store = NoTokens /\ mem = [t \in Tabs |-> NoTokens]
      /\ tab = [t \in Tabs |-> Waiting]
  BY DEF TabInit
<1>2. authSession \in [Numbers -> SessionRows]
  <2>1. NoSession \in SessionRows
    BY SignedInConstants DEF SessionRows, NoSession
  <2> QED  BY <1>1, <2>1
<1>3. ServerTypes
  <2>1. 0 \in 0..MaxPasswords /\ -1 \in -1..MaxPasswords
    BY SignedInConstants
  <2> QED  BY <1>1, <1>2, <2>1 DEF ServerTypes
<1> QED  BY <1>1, <1>3 DEF Signed, Genuine, Honest

LEMMA SignedStep == Signed /\ [TabNext]_tabVars => Signed'
<1> SUFFICES ASSUME Signed, [TabNext]_tabVars PROVE Signed'
  OBVIOUS
<1>1. CASE LoginRead
  <2>1. ServerTypes' /\ UNCHANGED <<authSession, clientVars>>
    BY <1>1 DEF LoginRead, Signed, ServerTypes
  <2> QED  BY <2>1, ServerMoves DEF OnlyEnd
<1>2. ASSUME NEW s \in Numbers, SessionExpires(s) PROVE Signed'
  <2>1. ServerTypes' /\ OnlyEnd(authSession, authSession')
    BY <1>2 DEF SessionExpires, Live, Signed, ServerTypes, SessionRows, OnlyEnd
  <2> QED  BY <1>2, <2>1, ServerMoves DEF SessionExpires
<1>3. CASE Blocked
  <2>1. ServerTypes' /\ UNCHANGED <<authSession, clientVars>>
    BY <1>3 DEF Blocked, Signed, ServerTypes
  <2> QED  BY <2>1, ServerMoves DEF OnlyEnd
<1>4. ASSUME NEW what \in {"password", "disable", "enable", "cities"}, StartChange(what)
      PROVE  Signed'
  <2>1. /\ authSession' = authSession \/ authSession' = Revoked
        /\ change' = what /\ (what = "password" => password < MaxPasswords)
        /\ UNCHANGED <<password, barred, entering, clientVars>>
    BY <1>4 DEF StartChange
  <2>2. ServerTypes' /\ OnlyEnd(authSession, authSession')
    BY <2>1 DEF Revoked, Live, Signed, ServerTypes, SessionRows, OnlyEnd
  <2> QED  BY <2>1, <2>2, ServerMoves
<1>5. CASE ChangeCommitted
  <2>1. /\ change' = "none" /\ barred' \in {TRUE, FALSE, barred}
        /\ password' = password \/ (change = "password" /\ password' = password + 1)
        /\ UNCHANGED <<authSession, entering, clientVars>>
    BY <1>5 DEF ChangeCommitted
  <2>2. ServerTypes'
    <3>1. change = "password" => password + 1 \in 0..MaxPasswords
      BY SignedInConstants DEF Signed, ServerTypes
    <3> QED  BY <2>1, <3>1 DEF Signed, ServerTypes
  <2> QED  BY <2>1, <2>2, ServerMoves DEF OnlyEnd
<1>6. ASSUME NEW t \in Tabs, NEW kept \in BOOLEAN, LoginCommitted(t, kept) PROVE Signed'
  BY <1>6, LoginSigned
<1>7. ASSUME NEW t \in Tabs, NEW op \in {"call", "logout"}, Sends(t, op) PROVE Signed'
  <2>1. Issued(authSession, Held(t))
    BY <1>7 DEF Sends, Held, Signed, Genuine
  <2> QED  BY <1>7, <2>1, AsksSigned DEF Sends
<1>8. ASSUME NEW t \in Tabs, Restores(t) PROVE Signed'
  <2>1. Issued(authSession, store)
    BY <1>8 DEF Restores, Signed, Genuine
  <2> QED  BY <1>8, <2>1, AsksSigned DEF Restores
<1>9. ASSUME NEW t \in Tabs, Serve(t) \/ Fails(t) \/ Receive(t) PROVE Signed'
  BY <1>9, ServeSigned, FailsSigned, ReceiveSigned
<1>10. CASE TokenAges
  BY <1>10, AgesSigned
<1>11. CASE UNCHANGED tabVars
  <2>1. ServerTypes' /\ UNCHANGED <<authSession, clientVars>>
    BY <1>11 DEF tabVars, serverVars, Signed, ServerTypes
  <2> QED  BY <2>1, ServerMoves DEF OnlyEnd
<1> QED
  BY <1>1, <1>2, <1>3, <1>4, <1>5, <1>6, <1>7, <1>8, <1>9, <1>10, <1>11 DEF TabNext

LEMMA SignedHolds == TabSpec => []Signed
<1> QED  BY SignedAtFirst, SignedStep, PTL DEF TabSpec

(* Who ends a request in the step that empties the storage is the one who    *)
(* forgets: the others write nothing, or tokens.                            *)
LEMMA ForgottenBy ==
  ASSUME Signed, [TabNext]_tabVars, NEW t \in Tabs, tab[t] # Waiting, tab'[t] = Waiting
  PROVE  Receive(t)
<1>1. CASE \E u \in Tabs : Serve(u) \/ Fails(u)
  <2>1. PICK u \in Tabs : Serve(u) \/ Fails(u)
    BY <1>1
  <2>2. \E reply \in {"ok", "401", "403", "error"} :
          tab' = [tab EXCEPT ![u].reply = reply] /\ tab[u] # Waiting
    BY <2>1 DEF Serve, Fails, Verdict
  <2>3. PICK reply \in {"ok", "401", "403", "error"} : tab' = [tab EXCEPT ![u].reply = reply]
    BY <2>2
  <2>4. tab'[t] = IF t = u THEN [tab[t] EXCEPT !.reply = reply] ELSE tab[t]
    BY <2>3 DEF Signed
  <2>5. tab[t] \in TabRequests
    BY DEF Signed, Honest
  <2> QED  BY <2>4, <2>5 DEF TabRequests, Waiting
<1>2. CASE \E u \in Tabs : Receive(u)
  <2>1. PICK u \in Tabs : Receive(u)
    BY <1>2
  <2>2. u # t => tab'[t] = tab[t]
    BY <2>1 DEF Receive, Signed
  <2> QED  BY <2>1, <2>2
<1>3. CASE \E u \in Tabs, op \in {"call", "logout", "restore"} :
             \E k : tab[u] = Waiting /\ Asks(u, op, k)
  BY <1>3 DEF Asks, Signed
<1>4. CASE UNCHANGED tab
  BY <1>4
<1>5. \/ LoginRead \/ \E u \in Tabs, kept \in BOOLEAN : LoginCommitted(u, kept)
      \/ \E s \in Numbers : SessionExpires(s)
      \/ Blocked \/ \E what \in {"password", "disable", "enable", "cities"} : StartChange(what)
      \/ ChangeCommitted \/ TokenAges \/ UNCHANGED tabVars
      => UNCHANGED tab
  BY DEF LoginRead, LoginCommitted, SessionExpires, Blocked, StartChange, ChangeCommitted,
         TokenAges, clientVars, tabVars
<1>6. ASSUME NEW u \in Tabs, (\E op \in {"call", "logout"} : Sends(u, op)) \/ Restores(u)
      PROVE  \E op \in {"call", "logout", "restore"} :
               \E k : tab[u] = Waiting /\ Asks(u, op, k)
  BY <1>6 DEF Sends, Restores
<1> QED  BY <1>1, <1>2, <1>3, <1>4, <1>5, <1>6 DEF TabNext

LEMMA ForgottenForAReason ==
  ASSUME Signed, [TabNext]_tabVars, NEW t \in Tabs,
         store' = NoTokens, store # NoTokens, tab[t] # Waiting, tab'[t] = Waiting
  PROVE  \/ tab[t].op = "logout" \/ tab[t].reply \in {"403", "error"}
         \/ ~Live(tab[t].tokens.s)
<1> DEFINE q == tab[t]
           got == IF q.at = "refresh" /\ q.reply = "ok" THEN Tokens(q.tokens.s, TRUE)
                  ELSE q.tokens
<1>1. Receive(t)
  BY ForgottenBy
<1>2. /\ q \in TabRequests /\ Issued(authSession, q.tokens) /\ q.tokens.s \in Numbers
      /\ q.reply = "401" =>
           ~Live(q.tokens.s) \/ (q.at = "first" /\ ~q.tokens.fresh)
  BY DEF Signed, Honest, Issued, TokenRows, Live
<1>3. got # NoTokens
  BY <1>2, TokensIs, SignedInConstants DEF Issued
<1>4. After(q) = "forget"
  BY <1>1, <1>3 DEF Receive
<1>5. CASE q.reply = "ok"
  BY <1>4, <1>5 DEF After
<1>6. CASE q.reply = "401"
  <2>1. CASE q.at = "first" /\ q.op # "logout"
    BY <1>4, <1>6, <2>1 DEF After, Refreshes
  <2> QED  BY <1>2, <1>6, <2>1
<1>7. q.reply # "none"
  BY <1>1 DEF Receive
<1> QED  BY <1>2, <1>5, <1>6, <1>7 DEF TabRequests

LEMMA SignedOutStep ==
  Signed /\ [TabNext]_tabVars =>
    [\A t \in Tabs :
       store' = NoTokens /\ store # NoTokens /\ tab[t] # Waiting /\ tab'[t] = Waiting =>
         \/ tab[t].op = "logout" \/ tab[t].reply \in {"403", "error"}
         \/ ~Live(tab[t].tokens.s)]_tabVars
BY ForgottenForAReason

LEMMA SignedTypes == Signed => TabTypeOK
BY DEF Signed, ServerTypes, SessionRows, Genuine, Issued, TokenRows, TabTypeOK

(* A stale access token signs nobody out, for any tabs, sessions and order   *)
(* of requests, logins, refreshes and acts of the administration.           *)
THEOREM StaleTokensAreRefreshed ==
  TabSpec => []TabTypeOK /\ SignedOutForAReason
<1> QED  BY SignedOutStep, SignedHolds, SignedTypes, PTL DEF TabSpec, SignedOutForAReason

-----------------------------------------------------------------------------
(* Everything of a client together                                          *)

ClientInv == Agreed /\ Owed /\ Sound /\ Signed /\ Priced /\ PriceTypes

LEMMA ClientBegins == ClientInit => ClientInv
BY InitAgreed, InitOwed, InitSound, SignedAtFirst, PricedAtFirst, PriceTypesAtFirst
DEF ClientInit, ClientInv

LEMMA ClientParts ==
  ASSUME [ClientNext]_ClientVars
  PROVE  /\ [Next]_vars /\ [ExtNext]_extVars /\ [AccountNext]_accountVars
         /\ [TabNext]_tabVars /\ [PricingNext]_pricingVars
BY DEF ClientNext, ClientVars

LEMMA ClientKept ==
  ASSUME OneAttempt, Racing \subseteq {"pay", "confirm"}, Zones \subseteq -11..12,
         ClientInv, [ClientNext]_ClientVars
  PROVE  ClientInv'
<1>1. Agreed'
  BY ClientParts, NextAgreed DEF ClientInv
<1>2. Owed' /\ Sound' /\ Signed'
  BY ClientParts, NextOwed, NextSound, SignedStep DEF ClientInv
<1>3. Priced' /\ PriceTypes'
  BY ClientParts, PricedStep, PriceTypesStep DEF ClientInv
<1> QED  BY <1>1, <1>2, <1>3 DEF ClientInv

LEMMA ClientPromises ==
  ASSUME ClientInv
  PROVE  /\ ClientTypes /\ PointsAccounted /\ EndIsPaidFor /\ GuessesBounded
         /\ ApprovedIsReviewed /\ PriceAgrees
<1>1. TypeOK /\ PointsAccounted
  BY AgreedAccounts DEF ClientInv
<1>2. ExtTypeOK /\ EndIsPaidFor
  BY DaysOwed DEF ClientInv
<1>3. AccountTypeOK /\ GuessesBounded /\ ApprovedIsReviewed
  BY SoundIsTyped, SoundGuesses, SoundReview DEF ClientInv
<1>4. TabTypeOK /\ PricingTypeOK /\ PriceAgrees
  BY SignedTypes, PricesTyped, PricesAgree DEF ClientInv
<1> QED  BY <1>1, <1>2, <1>3, <1>4 DEF ClientTypes

(* Whatever a client, the staff and the provider do, in whatever part, every  *)
(* variable keeps its type and every promise to the client holds: for any    *)
(* sizes, under the conditions of PointsAreAccounted and ShownIsCharged.      *)
THEOREM ClientAlways ==
  ASSUME OneAttempt, Racing \subseteq {"pay", "confirm"}, Zones \subseteq -11..12
  PROVE  ClientSpec =>
           /\ [](/\ ClientTypes /\ PointsAccounted /\ EndIsPaidFor /\ GuessesBounded
                 /\ ApprovedIsReviewed /\ PriceAgrees)
           /\ SignedOutForAReason
<1>1. ClientInv /\ [ClientNext]_ClientVars => ClientInv'
  BY ClientKept
<1>2. ClientInv => /\ ClientTypes /\ PointsAccounted /\ EndIsPaidFor /\ GuessesBounded
                   /\ ApprovedIsReviewed /\ PriceAgrees
  BY ClientPromises
<1>3. /\ ClientInv => Signed
      /\ [ClientNext]_ClientVars => [TabNext]_tabVars
  BY ClientParts DEF ClientInv
<1> QED
  BY <1>1, <1>2, <1>3, ClientBegins, SignedOutStep, PTL DEF ClientSpec, SignedOutForAReason
=============================================================================
