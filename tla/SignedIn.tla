------------------------------ MODULE SignedIn ------------------------------
(***************************************************************************)
(* Sessions of one account and the programs that keep its tokens: the site   *)
(* of the clients and the operators' panel read the tokens in the storage    *)
(* their tabs share, the admin panel and the mobile app keep a copy in       *)
(* memory.  A session and its refresh token live until a logout; an access   *)
(* token goes stale and is refreshed by the program that meets the 401.      *)
(***************************************************************************)
EXTENDS Integers

CONSTANTS
  Tabs, MaxSessions, MaxPasswords, \* bounds
  NoTokens,
  TabBudgets   \* app: the program; ages: access tokens that go stale; faults:
               \* requests that fail on the way; acts: changes of the account;
               \* logins: attempts to sign in

Apps == {"site", "helper", "admin", "phone"}
ASSUME SignedInAssumption ==
  /\ MaxSessions \in Nat \ {0} /\ MaxPasswords \in Nat
  /\ NoTokens \notin [s : 1..MaxSessions, fresh : BOOLEAN]
  /\ TabBudgets \subseteq [app : Apps, ages : Nat, faults : Nat, acts : Nat, logins : Nat]

VARIABLES
  authSession,   \* of each auth_sessions or admin_auth_sessions row
  password,  \* how often the password of the account was changed
  barred,    \* is_blocked, or not is_active
  change,    \* what a handler of the account has done but not committed
  entering,  \* a login that has read the account: the password, or none
  store,     \* the tokens in the storage
  mem,       \* the tokens a tab keeps in memory
  tab,       \* the request a tab waits for
  tabBudget

serverVars == <<authSession, password, barred, change, entering>>
clientVars == <<store, mem, tab>>
tabVars == <<serverVars, clientVars, tabBudget>>

Numbers == 1..MaxSessions
NoSession == [state |-> "none", made |-> 0]
Waiting == [op |-> "none"]
Tokens(s, fresh) == [s |-> s, fresh |-> fresh]
KeepsCopy == tabBudget.app \in {"admin", "phone"}
Staff == tabBudget.app \in {"helper", "admin"}

TabInit ==
  /\ tabBudget \in TabBudgets
  /\ authSession = [s \in Numbers |-> NoSession] /\ password = 0
  /\ barred = FALSE /\ change = "none" /\ entering = -1
  /\ store = NoTokens /\ mem = [t \in Tabs |-> NoTokens]
  /\ tab = [t \in Tabs |-> Waiting]

Uses(what) ==
  tabBudget[what] > 0 /\ tabBudget' = [tabBudget EXCEPT ![what] = @ - 1]

-----------------------------------------------------------------------------
(* What happens to a session on the server.                                 *)
Live(s) == authSession[s].state = "live"
Revoked == [s \in Numbers |-> IF Live(s) THEN [authSession[s] EXCEPT !.state = "revoked"]
                              ELSE authSession[s]]

(* login: the account is read, its password compared and the account found   *)
(* active; the session is inserted afterwards, and the panel keeps the       *)
(* tokens.  The operators' panel throws them away if the role is another.    *)
LoginRead ==
  /\ Uses("logins") /\ entering = -1 /\ ~barred
  /\ entering' = password
  /\ UNCHANGED <<authSession, password, barred, change, clientVars>>
LoginCommitted(t, kept) ==
  /\ entering # -1 /\ tab[t] = Waiting
  /\ \E s \in Numbers :
       /\ authSession[s] = NoSession /\ \A r \in Numbers : r < s => authSession[r] # NoSession
       /\ authSession' = [authSession EXCEPT ![s] = [state |-> "live", made |-> entering]]
       /\ IF kept
          THEN /\ store' = Tokens(s, TRUE)
               /\ mem' = IF KeepsCopy THEN [mem EXCEPT ![t] = Tokens(s, TRUE)] ELSE mem
          ELSE tabBudget.app = "helper" /\ UNCHANGED <<store, mem>>
  /\ entering' = -1
  /\ UNCHANGED <<password, barred, change, tab, tabBudget>>

SessionExpires(s) ==
  /\ Live(s) /\ Uses("acts")
  /\ authSession' = [authSession EXCEPT ![s].state = "expired"]
  /\ UNCHANGED <<password, barred, change, entering, clientVars>>

(* block_user; update_franchise and change_franchise_password revoke the      *)
(* sessions first and write the account when they commit.                   *)
Blocked ==
  /\ ~Staff /\ ~barred /\ Uses("acts") /\ barred' = TRUE
  /\ UNCHANGED <<authSession, password, change, entering, clientVars>>
StartChange(what) ==
  /\ tabBudget.app = "admin" /\ change = "none" /\ Uses("acts")
  /\ what = "password" => password < MaxPasswords
  /\ what = "disable" => ~barred
  /\ what = "enable" => barred
  /\ change' = what
  /\ authSession' = IF what = "enable" THEN authSession ELSE Revoked
  /\ UNCHANGED <<password, barred, entering, clientVars>>
ChangeCommitted ==
  /\ change # "none" /\ change' = "none"
  /\ password' = IF change = "password" THEN password + 1 ELSE password
  /\ barred' = IF change = "disable" THEN TRUE
               ELSE IF change = "enable" THEN FALSE ELSE barred
  /\ UNCHANGED <<authSession, entering, clientVars, tabBudget>>

-----------------------------------------------------------------------------
(* A request of a tab.  reply is "none" until it has one.                   *)
Held(t) == IF KeepsCopy THEN mem[t] ELSE store

Asks(t, op, tokens) ==
  tab' = [tab EXCEPT ![t] = [op |-> op, at |-> "first", tokens |-> tokens,
                             reply |-> "none"]]
Sends(t, op) ==
  /\ tab[t] = Waiting /\ Held(t) # NoTokens
  /\ Asks(t, op, Held(t))
  /\ UNCHANGED <<serverVars, store, mem, tabBudget>>

(* The page or the app is opened anew: the stored session is tried.         *)
Restores(t) ==
  /\ tabBudget.app # "site" /\ tab[t] = Waiting /\ store # NoTokens
  /\ Asks(t, "restore", store)
  /\ mem' = IF KeepsCopy THEN [mem EXCEPT ![t] = store] ELSE mem
  /\ UNCHANGED <<serverVars, store, tabBudget>>

TokenAges ==
  /\ Uses("ages") /\ store # NoTokens /\ store.fresh
  /\ store' = [store EXCEPT !.fresh = FALSE]
  /\ mem' = [t \in Tabs |-> IF mem[t] = store THEN [store EXCEPT !.fresh = FALSE]
                            ELSE mem[t]]
  /\ UNCHANGED <<serverVars, tab>>

(* verify_access_token, verify_refresh_token, get_current_client_user,        *)
(* get_current_admin.                                                       *)
Verdict(at, tokens) ==
  IF ~Live(tokens.s) \/ (at # "refresh" /\ ~tokens.fresh) THEN "401"
  ELSE IF barred THEN "403" ELSE "ok"

(* logout of a client needs no standing of the user, that of the staff does. *)
Serve(t) ==
  LET q == tab[t]
      verdict == IF q.op = "logout" /\ q.at # "refresh" /\ ~Staff /\ barred
                    /\ Live(q.tokens.s) /\ q.tokens.fresh
                 THEN "ok" ELSE Verdict(q.at, q.tokens)
  IN /\ q # Waiting /\ q.reply = "none"
     /\ tab' = [tab EXCEPT ![t].reply = verdict]
     /\ authSession' = IF verdict = "ok" /\ q.op = "logout" /\ q.at # "refresh"
                   THEN [authSession EXCEPT ![q.tokens.s].state = "revoked"] ELSE authSession
     /\ UNCHANGED <<password, barred, change, entering, store, mem, tabBudget>>

(* No connection, or another error of the operation.                        *)
Fails(t) ==
  /\ tab[t] # Waiting /\ tab[t].reply = "none" /\ Uses("faults")
  /\ tab' = [tab EXCEPT ![t].reply = "error"]
  /\ UNCHANGED <<serverVars, store, mem>>

(* Which failures of a first request are answered by a refresh, and which    *)
(* failures make the program forget the tokens.                             *)
(* Mutant: the tokens of a restored session are not refreshed.              *)
RefreshesCalls(op, reply) ==
  reply = "401" /\ op = "call"
Refreshes(op, reply) ==
  \/ reply = "401" /\ ~(op = "logout" /\ Staff)
  \/ op = "restore" /\ tabBudget.app = "admin"
Forgets(op, at, reply) ==
  \/ op \in {"logout", "restore"} \/ at = "refresh"
  \/ at = "retry" /\ tabBudget.app # "admin"
  \/ reply = "403" /\ KeepsCopy

(* requestWithAuth, requestWithOperatorAuth, authorizedRequest,               *)
(* withFreshAccessToken and the restoring functions.                        *)
After(q) ==
  IF q.reply = "ok"
  THEN CASE q.at = "refresh" ->
              (IF q.op = "restore" /\ tabBudget.app = "helper" THEN "done" ELSE "retry")
         [] q.at # "refresh" /\ q.op = "logout" -> "forget"
         [] OTHER -> "done"
  ELSE CASE q.at = "first" /\ Refreshes(q.op, q.reply) -> "refresh"
         [] OTHER -> IF Forgets(q.op, q.at, q.reply) THEN "forget" ELSE "done"

(* Tokens are written after a refresh, whatever the storage holds by then,   *)
(* and when a panel of the staff has restored its session.                  *)
Receive(t) ==
  LET q == tab[t]
      to == After(q)
      got == IF q.at = "refresh" /\ q.reply = "ok" THEN Tokens(q.tokens.s, TRUE)
             ELSE q.tokens
      writes == q.reply = "ok" /\ (q.at = "refresh" \/ (q.op = "restore" /\ Staff))
  IN /\ q # Waiting /\ q.reply # "none"
     /\ tab' = [tab EXCEPT ![t] =
                  IF to \in {"done", "forget"} THEN Waiting
                  ELSE [q EXCEPT !.at = to, !.tokens = got, !.reply = "none"]]
     /\ store' = IF to = "forget" THEN NoTokens ELSE IF writes THEN got ELSE store
     /\ mem' = IF ~KeepsCopy THEN mem
               ELSE [mem EXCEPT ![t] = IF to = "forget" THEN NoTokens
                                       ELSE IF writes THEN got ELSE @]
     /\ UNCHANGED <<serverVars, tabBudget>>

TabNext ==
  \/ LoginRead \/ \E t \in Tabs, kept \in BOOLEAN : LoginCommitted(t, kept)
  \/ \E s \in Numbers : SessionExpires(s)
  \/ Blocked \/ \E what \in {"password", "disable", "enable", "cities"} : StartChange(what)
  \/ ChangeCommitted
  \/ \E t \in Tabs :
       \/ \E op \in {"call", "logout"} : Sends(t, op)
       \/ Restores(t) \/ Serve(t) \/ Fails(t) \/ Receive(t)
  \/ TokenAges
TabSpec == TabInit /\ [][TabNext]_tabVars

-----------------------------------------------------------------------------
(* Every variable has its type.                                             *)
TabTypeOK ==
  /\ authSession \in [Numbers -> [state : {"none", "live", "revoked", "expired"},
                              made : 0..MaxPasswords]]
  /\ password \in 0..MaxPasswords /\ barred \in BOOLEAN /\ entering \in -1..MaxPasswords
  /\ change \in {"none", "password", "disable", "enable", "cities"}
  /\ {store} \cup {mem[t] : t \in Tabs} \subseteq
       {NoTokens} \cup [s : Numbers, fresh : BOOLEAN]

(* While every request gets its answer, a program forgets stored tokens only *)
(* because its user logged out, the session it used is over, or the account  *)
(* was found barred: a stale access token signs nobody out, whichever tab    *)
(* refreshes it first and whatever other tabs do meanwhile                  *)
(* (requestWithAuth, requestWithOperatorAuth, authorizedRequest,            *)
(* withFreshAccessToken).                                                   *)
SignedOutForAReason ==
  [][\A t \in Tabs :
       store' = NoTokens /\ store # NoTokens /\ tab[t] # Waiting /\ tab'[t] = Waiting =>
         \/ tab[t].op = "logout" \/ tab[t].reply \in {"403", "error"}
         \/ ~Live(tab[t].tokens.s)]_tabVars

(* «Смена пароля выкидывает франчайзи из всех устройств» (the comment in      *)
(* change_franchise_password): once the change is committed, no session of   *)
(* an earlier password is live.                                             *)
PasswordChangeSignsOut ==
  change # "password" => \A s \in Numbers : Live(s) => authSession[s].made = password
=============================================================================
