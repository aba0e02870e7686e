----------------------------- MODULE PublicForm -----------------------------
(***************************************************************************)
(* The public forms, ideas and franchise leads: a picture to read, of which  *)
(* the server keeps nothing but the numbers already answered, and limits on  *)
(* how often a form is accepted, in a sliding window for an address and for  *)
(* everybody.  All of it lives in the memory of one process.                *)
(***************************************************************************)
EXTENDS Integers, FiniteSets, Sequences

CONSTANTS
  Addresses,   \* client_ip
  Pictures,    \* nonces
  Ttl,         \* CAPTCHA_TTL_SECONDS
  MaxUsed,     \* _MAX_USED
  MaxTracked,  \* _MAX_TRACKED_IPS
  Limit,       \* Limit[door]: per_ip, per_ip_window, global_limit, global_window
  LastSecond,  \* bound
  FormBudgets  \* doors and addresses that are used, restarts of the process

Doors == {"captcha", "idea", "lead"}
ASSUME FormAssumption ==
  /\ Ttl \in Nat /\ MaxUsed \in Nat \ {0} /\ MaxTracked \in Nat \ {0}
  /\ LastSecond \in Nat
  /\ Limit \in [Doors -> [each : Nat \ {0}, eachWindow : Nat, all : Nat, window : Nat]]
  /\ FormBudgets \subseteq [doors : SUBSET Doors, addresses : SUBSET Addresses,
                            restarts : Nat]

VARIABLES
  second,     \* the clock
  issued,     \* the pictures and when they expire
  used,       \* _used_nonces: an answered picture and its expiry
  judged,     \* how many answers to a picture were compared, 2 for more
  forgotten,  \* the process has forgotten answered pictures that have not expired
  byAddress,  \* RateLimiter._by_ip of each door
  everybody,  \* RateLimiter._global of each door
  admitted,   \* when a door let somebody in since the process started
  formBudget

memory == <<used, byAddress, everybody>>
formVars == <<second, issued, judged, forgotten, memory, admitted, formBudget>>

Nobody == [p \in {} |-> 0]
FormInit ==
  /\ formBudget \in FormBudgets
  /\ second = 0 /\ issued = Nobody /\ used = Nobody
  /\ judged = [p \in Pictures |-> 0] /\ forgotten = FALSE
  /\ byAddress = [d \in Doors |-> Nobody]
  /\ everybody = [d \in Doors |-> <<>>] /\ admitted = [d \in Doors |-> <<>>]

-----------------------------------------------------------------------------
(* RateLimiter._prune: what is before the first that is young enough leaves.  *)
Pruned(bucket, window) ==
  LET young == {i \in DOMAIN bucket : second - bucket[i] <= window}
  IN IF young = {} THEN <<>>
     ELSE SubSeq(bucket, CHOOSE i \in young : \A j \in young : i <= j, Len(bucket))

(* The addresses that are tracked once a is: when there are too many, those   *)
(* whose window has passed leave, and if there are none everybody does.     *)
Tracked(d, a) ==
  LET known == byAddress[d]
      stay == {b \in DOMAIN known : Pruned(known[b], Limit[d].eachWindow) # <<>>}
      kept == IF a \in DOMAIN known \/ Cardinality(DOMAIN known) < MaxTracked
              THEN DOMAIN known
              ELSE IF Cardinality(stay) < MaxTracked THEN stay ELSE {}
  IN [b \in kept \cup {a} |-> IF b \in DOMAIN known THEN known[b] ELSE <<>>]

Allows(d, a) ==
  /\ Len(Pruned(everybody[d], Limit[d].window)) < Limit[d].all
  /\ Len(Pruned(Tracked(d, a)[a], Limit[d].eachWindow)) < Limit[d].each

Admit(d, a) ==
  /\ byAddress' = [byAddress EXCEPT ![d] =
       [Tracked(d, a) EXCEPT ![a] = Append(Pruned(@, Limit[d].eachWindow), second)]]
  /\ everybody' = [everybody EXCEPT ![d] =
       Append(Pruned(@, Limit[d].window), second)]
  /\ admitted' = [admitted EXCEPT ![d] = Append(@, second)]

-----------------------------------------------------------------------------
(* get_captcha, issue_captcha                                               *)
GetCaptcha(a, p) ==
  /\ "captcha" \in formBudget.doors /\ Allows("captcha", a)
  /\ p \notin DOMAIN issued
  /\ Admit("captcha", a)
  /\ issued' = [q \in DOMAIN issued \cup {p} |-> IF q = p THEN second + Ttl ELSE issued[q]]
  /\ UNCHANGED <<second, used, judged, forgotten, formBudget>>

(* _remember_used: when the list is full, expired pictures leave it; if it is *)
(* still full, all do.                                                      *)
(* Mutant: a picture in its last second has expired.                        *)
StillUsedEarly == {p \in DOMAIN used : used[p] > second}
StillUsed == {p \in DOMAIN used : used[p] >= second}
Remember(p) ==
  LET full == Cardinality(DOMAIN used) >= MaxUsed
      stay == IF full THEN StillUsed ELSE DOMAIN used
      kept == IF Cardinality(stay) >= MaxUsed THEN {} ELSE stay
  IN /\ used' = [q \in kept \cup {p} |-> issued[q]]
     /\ forgotten' = (forgotten \/ (full /\ kept = {} /\ StillUsed # {}))

(* verify_captcha refuses an expired or answered picture; any other is used  *)
(* up before its answer is compared.                                        *)
Accepts(p) == p \in DOMAIN issued /\ issued[p] >= second /\ p \notin DOMAIN used

(* create_feedback: the picture, then the limit, then the row.              *)
SendIdea(a, p, right) ==
  /\ "idea" \in formBudget.doors /\ Accepts(p)
  /\ Remember(p)
  /\ judged' = [judged EXCEPT ![p] = IF @ = 0 THEN 1 ELSE 2]
  /\ IF right /\ Allows("idea", a) THEN Admit("idea", a)
     ELSE UNCHANGED <<byAddress, everybody, admitted>>
  /\ UNCHANGED <<second, issued, formBudget>>

(* create_franchise_lead asks for no picture.                               *)
SendLead(a) ==
  /\ "lead" \in formBudget.doors /\ Allows("lead", a)
  /\ Admit("lead", a)
  /\ UNCHANGED <<second, issued, used, judged, forgotten, formBudget>>

SecondPasses ==
  /\ second < LastSecond /\ second' = second + 1
  /\ UNCHANGED <<issued, judged, forgotten, memory, admitted, formBudget>>

(* The signing key comes from the settings: pictures outlive the process,    *)
(* what it remembers does not.                                              *)
Restarted ==
  /\ formBudget.restarts > 0
  /\ formBudget' = [formBudget EXCEPT !.restarts = @ - 1]
  /\ used' = Nobody /\ forgotten' = (forgotten \/ StillUsed # {})
  /\ byAddress' = [d \in Doors |-> Nobody]
  /\ everybody' = [d \in Doors |-> <<>>] /\ admitted' = [d \in Doors |-> <<>>]
  /\ UNCHANGED <<second, issued, judged>>

FormNext ==
  \/ \E a \in formBudget.addresses :
       \/ SendLead(a)
       \/ \E p \in Pictures : GetCaptcha(a, p) \/ \E right \in BOOLEAN : SendIdea(a, p, right)
  \/ SecondPasses \/ Restarted
FormSpec == FormInit /\ [][FormNext]_formVars

-----------------------------------------------------------------------------
(* Every variable has its type.                                             *)
FormTypeOK ==
  /\ DOMAIN used \subseteq DOMAIN issued /\ DOMAIN issued \subseteq Pictures
  /\ judged \in [Pictures -> 0..2] /\ forgotten \in BOOLEAN
  /\ \A d \in Doors : DOMAIN byAddress[d] \subseteq Addresses
                      /\ Cardinality(DOMAIN byAddress[d]) <= MaxTracked

(* One answer is compared for each picture, right or wrong, also when the     *)
(* list of answered pictures was full and lost its expired entries in the    *)
(* second in which they expire (verify_captcha, _remember_used); a restart   *)
(* or a list full of live pictures ends this.                               *)
OneAnswerPerPicture == ~forgotten => \A p \in Pictures : judged[p] <= 1

(* However often addresses change and the table of addresses is emptied, no   *)
(* window of a door holds more accepted requests than its global limit       *)
(* (RateLimiter.allow, the docstring of client_ip).                         *)
WindowHolds ==
  \A d \in Doors, from \in 0..LastSecond :
    Cardinality({i \in DOMAIN admitted[d] :
                   admitted[d][i] \in from..(from + Limit[d].window)}) <= Limit[d].all

(* The two guards of the public forms, which share one process and its        *)
(* restarts (create_feedback, create_franchise_lead).                       *)
FormsGuarded == OneAnswerPerPicture /\ WindowHolds
=============================================================================
