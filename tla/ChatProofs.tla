------------------------------ MODULE ChatProofs ------------------------------
(***************************************************************************)
(* Proofs about the support chat, for any tabs, panels, workers and texts,   *)
(* and about the public forms, for any addresses, pictures and limits.       *)
(*                                                                         *)
(* A text is taken off its screen only by an answer to a message that is     *)
(* stored, and stored messages stay (Kept).  A message that a screen is due  *)
(* leaves its handler through the bus of every worker (Numbered tells it     *)
(* from the others), and a screen that is due a message it does not show is  *)
(* listening (Listening).  What a first page wipes is due no more, and what   *)
(* remains due is shown after every answer (ScreenShows).  A client's message that no ping covers has a handler that will *)
(* answer for it (Announced).  A message has one number and a text one row   *)
(* (Given, Distinct), and what screens, pages and the bus hold is stored      *)
(* (Reaches).                                                               *)
(*                                                                         *)
(* A limiter forgets what is old but never what is in the window: what it    *)
(* holds is all it admitted but for a first part, which the window has left  *)
(* (Remembers), so any two admissions as far apart in number as the limit    *)
(* are further apart in time than the window (Spread).  A picture is judged  *)
(* once because the answered ones that were forgotten have expired           *)
(* (PicturesSpent).                                                         *)
(***************************************************************************)
EXTENDS SupportChat, PublicForm, FiniteSetTheorems, SequenceTheorems,
        WellFoundedInduction, TLAPS

TextRows == [id : Nat, state : {"sending", "failed"}]
Frames == [kind : {"open", "send"}, id : Nat, via : {"ws", "rest"}]
Requests == [what : {"load", "reconcile", "older"}, read : BOOLEAN, page : SUBSET Nat]
Posted(p) ==
  p \in [by : Screens, id : {p.id}, via : {"ws", "rest", "gone"}, seq : Nat, at : {p.at},
         created : {p.created}, closed : {p.closed}, previous : {p.previous},
         stored : BOOLEAN]

ScreenTypes ==
  /\ typed \in Nat /\ drawn \in Nat
  /\ pending \in [Screens -> SUBSET TextRows] /\ sent \in [Screens -> SUBSET Frames]
  /\ fetch \in [Screens -> SUBSET Requests] /\ shown \in [Screens -> SUBSET Nat]
  /\ \A m \in log : m.seq \in Nat
  /\ \A p \in posts : Posted(p)
  /\ due \in [Screens -> SUBSET Nat] /\ bus \in [Workers -> SUBSET Nat]
  /\ hub \in [Screens -> {"none", "listed", "open"}]
  /\ link \in [Screens -> {"off", "connecting", "open"}]
  /\ chosen \in [Screens -> BOOLEAN]

(* Texts.                                                                   *)
Stored(messages, id) == \E m \in messages : m.id = id
OnScreen(lists, id) == \E s \in Screens : \E t \in lists[s] : t.id = id
Kept ==
  /\ \A id \in 1..typed : Stored(log, id) \/ OnScreen(pending, id)
  /\ \A p \in posts : p.stored => Stored(log, p.id)

(* Messages.                                                                *)
Listening ==
  \A s \in Screens :
    /\ \A q \in due[s] : q \in shown[s] \/ hub[s] = "open"
    /\ hub[s] # "none" => link[s] = "open"
    /\ hub[s] = "open" => chosen[s]
    /\ s \in Widgets /\ link[s] # "off" => chosen[s]
    /\ OpenFrame \in sent[s] => chosen[s]
Numbered ==
  /\ \A s \in Screens : \A q \in due[s] : q <= drawn
  /\ \A p \in posts : p.seq <= drawn
  /\ \A p, r \in posts : p.seq = r.seq => p = r
  /\ \A s \in Screens, p \in posts : p.seq \in due[s] => p.stored /\ Live(p)

Chat == ScreenTypes /\ Kept /\ Listening /\ Numbered /\ LiveMessageShown

-----------------------------------------------------------------------------
(* Values *)

LEMMA MarkedIs ==
  ASSUME NEW s, pending[s] \subseteq TextRows, NEW id, NEW state \in {"sending", "failed"}
  PROVE  /\ Marked(s, id, state) \subseteq TextRows
         /\ \A t \in pending[s] : \E u \in Marked(s, id, state) : u.id = t.id
<1>1. ASSUME NEW t \in pending[s]
      PROVE  [t EXCEPT !.state = state] \in TextRows /\ [t EXCEPT !.state = state].id = t.id
  BY DEF TextRows
<1>2. QED
  BY <1>1 DEF Marked

LEMMA ConfirmedIs ==
  ASSUME NEW s, pending[s] \subseteq TextRows, NEW id
  PROVE  /\ Confirmed(s, id) \subseteq TextRows
         /\ \A t \in pending[s] : t.id # id => t \in Confirmed(s, id)
  BY DEF Confirmed

(* What is stored stays, and a text leaves the list of s only if it is.     *)
LEMMA KeptSet ==
  ASSUME ScreenTypes, Kept, UNCHANGED typed, log \subseteq log',
         NEW s \in Screens, NEW rows \in SUBSET TextRows,
         pending' = [pending EXCEPT ![s] = rows],
         \A t \in pending[s] : (\E u \in rows : u.id = t.id) \/ Stored(log', t.id),
         \A p \in posts' : p.stored => Stored(log', p.id)
  PROVE  Kept' /\ pending' \in [Screens -> SUBSET TextRows]
<1>1. /\ pending' \in [Screens -> SUBSET TextRows]
      /\ \A x \in Screens : pending'[x] = IF x = s THEN rows ELSE pending[x]
  BY DEF ScreenTypes
<1>2. ASSUME NEW id \in 1..typed PROVE Stored(log', id) \/ OnScreen(pending', id)
  <2>1. CASE Stored(log, id)
    BY <2>1 DEF Stored
  <2>2. CASE OnScreen(pending, id)
    <3>0. PICK x \in Screens : \E t \in pending[x] : t.id = id
      BY <2>2 DEF OnScreen
    <3>1. PICK t \in pending[x] : t.id = id
      BY <3>0
    <3>2. CASE x = s
      BY <1>1, <3>1, <3>2 DEF OnScreen
    <3>3. CASE x # s
      BY <1>1, <3>1, <3>3 DEF OnScreen
    <3>4. QED
      BY <3>2, <3>3
  <2>3. QED
    BY <2>1, <2>2 DEF Kept
<1>3. QED
  BY <1>1, <1>2 DEF Kept

LEMMA KeptStays ==
  ASSUME ScreenTypes, Kept, UNCHANGED <<typed, pending>>, log \subseteq log',
         \A p \in posts' : p.stored => Stored(log', p.id)
  PROVE  Kept' /\ pending' \in [Screens -> SUBSET TextRows]
<1>1. \A id : Stored(log, id) => Stored(log', id)
  BY DEF Stored
<1>2. QED
  BY <1>1 DEF Kept, ScreenTypes

-----------------------------------------------------------------------------
(* Screens: connections, frames and requests change, nothing is due that was *)
(* not.                                                                     *)

LEMMA ScreenShows ==
  ASSUME Chat, UNCHANGED <<log, posts, hub, bus, drawn>>,
         due' \in [Screens -> SUBSET Nat],
         link' \in [Screens -> {"off", "connecting", "open"}],
         chosen' \in [Screens -> BOOLEAN], sent' \in [Screens -> SUBSET Frames],
         fetch' \in [Screens -> SUBSET Requests], shown' \in [Screens -> SUBSET Nat],
         \A s \in Screens : /\ due'[s] \subseteq due[s]
                           /\ \A q \in due'[s] : q \in shown[s] => q \in shown'[s],
         typed' \in Nat, pending' \in [Screens -> SUBSET TextRows], Kept',
         \A s \in Screens :
           /\ chosen[s] => chosen'[s]
           /\ link[s] = "open" => link'[s] = "open"
           /\ s \in Widgets /\ link'[s] # "off" => chosen'[s]
           /\ OpenFrame \in sent'[s] => chosen'[s]
  PROVE  Chat'
<1>1. ScreenTypes'
  BY DEF Chat, ScreenTypes
<1>2. Listening'
  BY DEF Chat, Listening
<1>3. Numbered'
  BY DEF Chat, Numbered, Live
<1>4. LiveMessageShown'
  BY DEF Chat, LiveMessageShown
<1>5. QED
  BY <1>1, <1>2, <1>3, <1>4 DEF Chat

LEMMA ScreenMoves ==
  ASSUME Chat, UNCHANGED <<log, posts, hub, bus, due, drawn>>,
         link' \in [Screens -> {"off", "connecting", "open"}],
         chosen' \in [Screens -> BOOLEAN], sent' \in [Screens -> SUBSET Frames],
         fetch' \in [Screens -> SUBSET Requests], shown' \in [Screens -> SUBSET Nat],
         \A s \in Screens : \A q \in due[s] : q \in shown[s] => q \in shown'[s],
         typed' \in Nat, pending' \in [Screens -> SUBSET TextRows], Kept',
         \A s \in Screens :
           /\ chosen[s] => chosen'[s]
           /\ link[s] = "open" => link'[s] = "open"
           /\ s \in Widgets /\ link'[s] # "off" => chosen'[s]
           /\ OpenFrame \in sent'[s] => chosen'[s]
  PROVE  Chat'
<1>1. due' \in [Screens -> SUBSET Nat]
  BY DEF Chat, ScreenTypes
<1>2. \A s \in Screens : /\ due'[s] \subseteq due[s]
                         /\ \A q \in due'[s] : q \in shown[s] => q \in shown'[s]
  OBVIOUS
<1>3. QED
  BY <1>1, <1>2, ScreenShows

LEMMA OpenFrameIs == OpenFrame \in Frames /\ OpenFrame.kind = "open"
  BY DEF OpenFrame, Frames

LEMMA RequestIs ==
  ASSUME NEW what \in {"load", "reconcile", "older"}
  PROVE  Request(what) \in Requests /\ Request(what).what = what
  BY DEF Requests, Request

LEMMA OpenWidgetChat ==
  ASSUME Chat, NEW s \in Screens, OpenWidget(s) PROVE Chat'
<1>1. /\ s \in Widgets /\ link[s] = "off" /\ link' = [link EXCEPT ![s] = "connecting"]
      /\ fetch' = [fetch EXCEPT ![s] = {Request("load")}]
      /\ chosen' = [chosen EXCEPT ![s] = TRUE]
      /\ UNCHANGED <<log, posts, hub, bus, due, drawn, shown, sent, typed, pending>>
  BY DEF OpenWidget, rowsOfChat
<1>2. ScreenTypes /\ Kept
  BY DEF Chat
<1>3. /\ fetch' \in [Screens -> SUBSET Requests]
      /\ \A x \in Screens : fetch'[x] = IF x = s THEN {Request("load")} ELSE fetch[x]
  BY <1>1, <1>2, RequestIs DEF ScreenTypes
<1>4. Kept' /\ pending' \in [Screens -> SUBSET TextRows]
  BY <1>1, <1>2, KeptStays DEF Kept
<1>7. /\ link' \in [Screens -> {"off", "connecting", "open"}]
      /\ chosen' \in [Screens -> BOOLEAN]
      /\ \A x \in Screens : /\ link'[x] = IF x = s THEN "connecting" ELSE link[x]
                            /\ chosen'[x] = IF x = s THEN TRUE ELSE chosen[x]
  BY <1>1, <1>2 DEF ScreenTypes
<1>8. /\ sent' \in [Screens -> SUBSET Frames] /\ typed' \in Nat
      /\ shown' \in [Screens -> SUBSET Nat]
  BY <1>1, <1>2 DEF ScreenTypes
<1>9. \A x \in Screens :
         /\ chosen[x] => chosen'[x]
         /\ link[x] = "open" => link'[x] = "open"
         /\ x \in Widgets /\ link'[x] # "off" => chosen'[x]
         /\ OpenFrame \in sent'[x] => chosen'[x]
  BY <1>1, <1>7 DEF Chat, Listening
<1>10. \A x \in Screens : \A q \in due[x] : q \in shown[x] => q \in shown'[x]
  BY <1>1
<1>11. QED
  BY <1>1, <1>3, <1>4, <1>7, <1>8, <1>9, <1>10, ScreenMoves

LEMMA OpenWorkspaceChat ==
  ASSUME Chat, NEW s \in Screens, OpenWorkspace(s) PROVE Chat'
<1>1. /\ s \notin Widgets /\ link' = [link EXCEPT ![s] = "connecting"] /\ link[s] = "off"
      /\ UNCHANGED <<log, posts, hub, bus, due, drawn, shown, sent, typed, pending, fetch,
                     chosen>>
  BY ChatAssumption DEF OpenWorkspace, rowsOfChat
<1>2. ScreenTypes /\ Kept
  BY DEF Chat
<1>3. Kept'
  BY <1>1, <1>2, KeptStays DEF Kept
<1>4. /\ link' \in [Screens -> {"off", "connecting", "open"}]
      /\ \A x \in Screens : link'[x] = IF x = s THEN "connecting" ELSE link[x]
  BY <1>1, <1>2 DEF ScreenTypes
<1>5. /\ sent' \in [Screens -> SUBSET Frames] /\ typed' \in Nat
      /\ shown' \in [Screens -> SUBSET Nat] /\ fetch' \in [Screens -> SUBSET Requests]
      /\ chosen' \in [Screens -> BOOLEAN] /\ pending' \in [Screens -> SUBSET TextRows]
  BY <1>1, <1>2 DEF ScreenTypes
<1>6. \A x \in Screens :
         /\ chosen[x] => chosen'[x]
         /\ link[x] = "open" => link'[x] = "open"
         /\ x \in Widgets /\ link'[x] # "off" => chosen'[x]
         /\ OpenFrame \in sent'[x] => chosen'[x]
  BY <1>1, <1>4 DEF Chat, Listening
<1>7. \A x \in Screens : \A q \in due[x] : q \in shown[x] => q \in shown'[x]
  BY <1>1
<1>8. QED
  BY <1>1, <1>3, <1>4, <1>5, <1>6, <1>7, ScreenMoves

LEMMA OpenConversationChat ==
  ASSUME Chat, NEW s \in Screens, OpenConversation(s) PROVE Chat'
<1>1. /\ ~chosen[s] /\ fetch' = [fetch EXCEPT ![s] = {Request("load")}] /\ s \in Panels
      /\ sent' = [sent EXCEPT ![s] = IF link[s] = "open" THEN {OpenFrame} ELSE {}]
      /\ chosen' = [chosen EXCEPT ![s] = TRUE]
      /\ UNCHANGED <<log, posts, hub, bus, due, drawn, shown, typed, pending, link>>
  BY DEF OpenConversation, rowsOfChat
<1>2. ScreenTypes /\ Kept
  BY DEF Chat
<1>3. Kept'
  BY <1>1, <1>2, KeptStays DEF Kept
<1>5. /\ fetch' \in [Screens -> SUBSET Requests]
      /\ \A x \in Screens : fetch'[x] = IF x = s THEN {Request("load")} ELSE fetch[x]
  BY <1>1, <1>2, RequestIs DEF ScreenTypes
<1>6. /\ chosen' \in [Screens -> BOOLEAN]
      /\ \A x \in Screens : chosen'[x] = IF x = s THEN TRUE ELSE chosen[x]
  BY <1>1, <1>2 DEF ScreenTypes
<1>7. /\ sent' \in [Screens -> SUBSET Frames]
      /\ \A x \in Screens : x # s => sent'[x] = sent[x]
  BY <1>1, <1>2, OpenFrameIs DEF ScreenTypes
<1>8. /\ typed' \in Nat /\ shown' \in [Screens -> SUBSET Nat]
      /\ link' \in [Screens -> {"off", "connecting", "open"}]
      /\ pending' \in [Screens -> SUBSET TextRows]
  BY <1>1, <1>2 DEF ScreenTypes
<1>9. \A x \in Screens :
         /\ chosen[x] => chosen'[x]
         /\ link[x] = "open" => link'[x] = "open"
         /\ x \in Widgets /\ link'[x] # "off" => chosen'[x]
         /\ OpenFrame \in sent'[x] => chosen'[x]
  BY <1>1, <1>5, <1>6, <1>7 DEF Chat, Listening
<1>10. \A x \in Screens : \A q \in due[x] : q \in shown[x] => q \in shown'[x]
  BY <1>1
<1>11. QED
  BY <1>1, <1>3, <1>5, <1>6, <1>7, <1>8, <1>9, <1>10, ScreenMoves

(* The reconnected screen reconciles; it does not load again.               *)
LEMMA ConnectedChat ==
  ASSUME Chat, NEW s \in Screens, Connected(s) PROVE Chat'
<1>1. /\ link[s] = "connecting" /\ link' = [link EXCEPT ![s] = "open"]
      /\ \/ /\ chosen[s]
            /\ fetch' = [fetch EXCEPT ![s] =
                           {r \in @ : r.what # "reconcile"} \cup {Request("reconcile")}]
            /\ sent' = [sent EXCEPT ![s] =
                          @ \cup (IF s \in Panels THEN {OpenFrame} ELSE {})]
         \/ UNCHANGED <<fetch, sent>>
      /\ UNCHANGED <<log, posts, hub, bus, due, drawn, shown, typed, pending, chosen>>
  BY DEF Connected, rowsOfChat
<1>2. ScreenTypes /\ Kept
  BY DEF Chat
<1>3. Kept'
  BY <1>1, <1>2, KeptStays DEF Kept
<1>4. /\ fetch' \in [Screens -> SUBSET Requests]
  BY <1>1, <1>2, RequestIs DEF ScreenTypes
<1>5. /\ sent' \in [Screens -> SUBSET Frames]
      /\ \A x \in Screens : OpenFrame \in sent'[x] => OpenFrame \in sent[x] \/ chosen[x]
  BY <1>1, <1>2, OpenFrameIs DEF ScreenTypes
<1>6. /\ link' \in [Screens -> {"off", "connecting", "open"}]
      /\ \A x \in Screens : link'[x] = IF x = s THEN "open" ELSE link[x]
  BY <1>1, <1>2 DEF ScreenTypes
<1>7. /\ typed' \in Nat /\ shown' \in [Screens -> SUBSET Nat]
      /\ chosen' \in [Screens -> BOOLEAN] /\ pending' \in [Screens -> SUBSET TextRows]
  BY <1>1, <1>2 DEF ScreenTypes
<1>8. \A x \in Screens :
         /\ chosen[x] => chosen'[x]
         /\ link[x] = "open" => link'[x] = "open"
         /\ x \in Widgets /\ link'[x] # "off" => chosen'[x]
         /\ OpenFrame \in sent'[x] => chosen'[x]
  BY <1>1, <1>4, <1>5, <1>6 DEF Chat, Listening
<1>9. \A x \in Screens : \A q \in due[x] : q \in shown[x] => q \in shown'[x]
  BY <1>1
<1>10. QED
  BY <1>1, <1>3, <1>4, <1>5, <1>6, <1>7, <1>8, <1>9, ScreenMoves

(* Requests that are asked, answered or lost.                               *)
LEMMA FetchMoves ==
  ASSUME Chat, NEW s \in Screens, NEW rows \in SUBSET Requests,
         fetch' = [fetch EXCEPT ![s] = rows],
         UNCHANGED <<log, posts, hub, bus, due, drawn, shown, typed, pending, link, chosen,
                     sent>>
  PROVE  Chat'
<1>1. ScreenTypes /\ Kept
  BY DEF Chat
<1>2. Kept'
  BY <1>1, KeptStays DEF Kept
<1>3. /\ fetch' \in [Screens -> SUBSET Requests]
  BY <1>1 DEF ScreenTypes
<1>4. /\ typed' \in Nat /\ shown' \in [Screens -> SUBSET Nat]
      /\ chosen' \in [Screens -> BOOLEAN] /\ pending' \in [Screens -> SUBSET TextRows]
      /\ link' \in [Screens -> {"off", "connecting", "open"}]
      /\ sent' \in [Screens -> SUBSET Frames]
  BY <1>1 DEF ScreenTypes
<1>5. \A x \in Screens :
         /\ chosen[x] => chosen'[x]
         /\ link[x] = "open" => link'[x] = "open"
         /\ x \in Widgets /\ link'[x] # "off" => chosen'[x]
         /\ OpenFrame \in sent'[x] => chosen'[x]
  BY <1>3 DEF Chat, Listening
<1>6. \A x \in Screens : \A q \in due[x] : q \in shown[x] => q \in shown'[x]
  OBVIOUS
<1>7. QED
  BY <1>2, <1>3, <1>4, <1>5, <1>6, ScreenMoves

LEMMA AskOlderChat ==
  ASSUME Chat, NEW s \in Screens, AskOlder(s) PROVE Chat'
<1>1. /\ fetch' = [fetch EXCEPT ![s] = fetch[s] \cup {Request("older")}]
      /\ UNCHANGED <<log, posts, hub, bus, due, drawn, shown, typed, pending, link, chosen,
                     sent>>
  BY DEF AskOlder, rowsOfChat
<1>2. fetch[s] \cup {Request("older")} \in SUBSET Requests
  BY RequestIs DEF Chat, ScreenTypes
<1>3. QED
  BY <1>1, <1>2, FetchMoves

LEMMA IsLostChat ==
  ASSUME Chat, NEW s \in Screens, NEW r \in fetch[s], IsLost(s, r) PROVE Chat'
<1>1. /\ fetch' = [fetch EXCEPT ![s] = fetch[s] \ {r}]
      /\ UNCHANGED <<log, posts, hub, bus, due, drawn, shown, typed, pending, link, chosen,
                     sent>>
  BY DEF IsLost, rowsOfChat
<1>2. fetch[s] \ {r} \in SUBSET Requests
  BY DEF Chat, ScreenTypes
<1>3. QED
  BY <1>1, <1>2, FetchMoves

LEMMA AnswerChat ==
  ASSUME Chat, NEW s \in Screens, NEW r \in fetch[s], Answer(s, r),
         UNCHANGED <<log, posts, hub, bus, due, drawn, shown, typed, pending, link, chosen,
                     sent>>
  PROVE  Chat'
<1> DEFINE page == IF r.what = "older" THEN Older(Seqs(log), oldest[s]) ELSE Page(Seqs(log))
           rows == (fetch[s] \ {r}) \cup {[r EXCEPT !.read = TRUE, !.page = page]}
<1>1. fetch' = [fetch EXCEPT ![s] = rows]
  BY DEF Answer
<1>2. fetch[s] \subseteq Requests /\ \A m \in log : m.seq \in Nat
  BY DEF Chat, ScreenTypes
<1>3. page \in SUBSET Nat
  BY <1>2 DEF Page, Older, Seqs
<1> HIDE DEF page
<1>4. /\ [r EXCEPT !.read = TRUE, !.page = page] \in Requests
      /\ [r EXCEPT !.read = TRUE, !.page = page].what = r.what
  BY <1>2, <1>3 DEF Requests
<1>5. rows \in SUBSET Requests
  BY <1>2, <1>4
<1> HIDE DEF rows
<1>6. QED
  BY <1>1, <1>5, FetchMoves

LEMMA CarrierIs ==
  ASSUME NEW s, NEW id \in Nat
  PROVE  Carrier(s, id) \in Frames /\ Carrier(s, id) # OpenFrame
BY DEF Carrier, Frame, Call, Frames, OpenFrame

(* A text that is typed is on the list before anything carries it.          *)
LEMMA TypeChat ==
  ASSUME Chat, NEW s \in Screens, Type(s) PROVE Chat'
<1> DEFINE id == typed + 1
           row == [id |-> id, state |-> IF Waiting(s) THEN "failed" ELSE "sending"]
<1>1. /\ typed' = id /\ pending' = [pending EXCEPT ![s] = pending[s] \cup {row}]
      /\ sent' = [sent EXCEPT ![s] = IF Waiting(s) THEN @ ELSE @ \cup {Carrier(s, id)}]
      /\ UNCHANGED <<log, posts, hub, bus, due, drawn, shown, link, chosen, fetch>>
  BY DEF Type, rowsOfChat
<1>2. ScreenTypes /\ Kept
  BY DEF Chat
<1>3. row \in TextRows /\ row.id = id /\ id \in Nat
  BY <1>2 DEF TextRows, ScreenTypes
<1> HIDE DEF row
<1>4. /\ pending' \in [Screens -> SUBSET TextRows]
      /\ row \in pending'[s]
      /\ \A x \in Screens : pending[x] \subseteq pending'[x]
  BY <1>1, <1>2, <1>3 DEF ScreenTypes
<1>5. Kept'
  <2>1. ASSUME NEW i \in 1..typed' PROVE Stored(log', i) \/ OnScreen(pending', i)
    <3>1. CASE i = id
      BY <1>3, <1>4, <3>1 DEF OnScreen
    <3>2. CASE i # id
      <4>1. i \in 1..typed
        BY <1>1, <1>2, <3>2 DEF ScreenTypes
      <4>2. Stored(log, i) \/ OnScreen(pending, i)
        BY <1>2, <4>1 DEF Kept
      <4>3. QED
        BY <1>1, <1>4, <4>2 DEF OnScreen
    <3>3. QED
      BY <3>1, <3>2
  <2>2. QED
    BY <1>1, <1>2, <2>1 DEF Kept
<1>6. /\ sent' \in [Screens -> SUBSET Frames]
      /\ \A x \in Screens : OpenFrame \in sent'[x] => OpenFrame \in sent[x]
  BY <1>1, <1>2, <1>3, CarrierIs DEF ScreenTypes
<1>7. /\ typed' \in Nat /\ shown' \in [Screens -> SUBSET Nat]
      /\ chosen' \in [Screens -> BOOLEAN] /\ fetch' \in [Screens -> SUBSET Requests]
      /\ link' \in [Screens -> {"off", "connecting", "open"}]
  BY <1>1, <1>2, <1>3 DEF ScreenTypes
<1>8. \A x \in Screens :
         /\ chosen[x] => chosen'[x]
         /\ link[x] = "open" => link'[x] = "open"
         /\ x \in Widgets /\ link'[x] # "off" => chosen'[x]
         /\ OpenFrame \in sent'[x] => chosen'[x]
  BY <1>1, <1>6 DEF Chat, Listening
<1>9. \A x \in Screens : \A q \in due[x] : q \in shown[x] => q \in shown'[x]
  BY <1>1
<1>10. QED
  BY <1>1, <1>4, <1>5, <1>6, <1>7, <1>8, <1>9, ScreenMoves

LEMMA RetryChat ==
  ASSUME Chat, NEW s \in Screens, NEW t \in pending[s], Retry(s, t) PROVE Chat'
<1>1. /\ pending' = [pending EXCEPT ![s] = Marked(s, t.id, "sending")]
      /\ sent' = [sent EXCEPT ![s] = @ \cup {Carrier(s, t.id)}]
      /\ UNCHANGED <<log, posts, hub, bus, due, drawn, shown, link, chosen, fetch, typed>>
  BY DEF Retry, rowsOfChat
<1>2. ScreenTypes /\ Kept
  BY DEF Chat
<1>3. pending[s] \subseteq TextRows /\ t.id \in Nat
  BY <1>2 DEF ScreenTypes, TextRows
<1>4. /\ Marked(s, t.id, "sending") \in SUBSET TextRows
      /\ \A u \in pending[s] : \E v \in Marked(s, t.id, "sending") : v.id = u.id
  BY <1>3, MarkedIs
<1>5. Kept' /\ pending' \in [Screens -> SUBSET TextRows]
  <2>1. \A p \in posts' : p.stored => Stored(log', p.id)
    BY <1>1, <1>2 DEF Kept
  <2>2. QED
    BY <1>1, <1>2, <1>4, <2>1, KeptSet
<1>6. /\ sent' \in [Screens -> SUBSET Frames]
      /\ \A x \in Screens : OpenFrame \in sent'[x] => OpenFrame \in sent[x]
  BY <1>1, <1>2, <1>3, CarrierIs DEF ScreenTypes
<1>7. /\ typed' \in Nat /\ shown' \in [Screens -> SUBSET Nat]
      /\ chosen' \in [Screens -> BOOLEAN] /\ fetch' \in [Screens -> SUBSET Requests]
      /\ link' \in [Screens -> {"off", "connecting", "open"}]
  BY <1>1, <1>2, <1>3 DEF ScreenTypes
<1>8. \A x \in Screens :
         /\ chosen[x] => chosen'[x]
         /\ link[x] = "open" => link'[x] = "open"
         /\ x \in Widgets /\ link'[x] # "off" => chosen'[x]
         /\ OpenFrame \in sent'[x] => chosen'[x]
  BY <1>1, <1>6 DEF Chat, Listening
<1>9. \A x \in Screens : \A q \in due[x] : q \in shown[x] => q \in shown'[x]
  BY <1>1
<1>10. QED
  BY <1>1, <1>5, <1>6, <1>7, <1>8, <1>9, ScreenMoves

(* An answer shows nothing less of what stays due: the first page, which     *)
(* replaces what is shown, takes what it wipes off the list.                *)
LEMMA ArrivesChat ==
  ASSUME Chat, NEW s \in Screens, NEW r \in fetch[s], Arrives(s, r) PROVE Chat'
<1> DEFINE now_shown == CASE r.what = "load" -> r.page
                          [] r.what = "reconcile" -> Reconciled(shown[s], r.page)
                          [] r.what = "older" -> shown[s] \cup r.page
<1>1. /\ fetch' = [fetch EXCEPT ![s] = @ \ {r}]
      /\ shown' = [shown EXCEPT ![s] = now_shown] /\ due' = Unwiped(s, r)
      /\ UNCHANGED <<log, posts, hub, bus, drawn, link, chosen, typed, pending, sent>>
  BY DEF Arrives, rowsOfChat
<1>2. ScreenTypes /\ Kept
  BY DEF Chat
<1>3. Kept'
  BY <1>1, <1>2, KeptStays DEF Kept
<1>4. r \in Requests /\ shown[s] \in SUBSET Nat
  BY <1>2 DEF ScreenTypes
<1>5. /\ now_shown \in SUBSET Nat
      /\ r.what = "load" => now_shown = r.page
      /\ r.what # "load" => shown[s] \subseteq now_shown
  BY <1>4 DEF Requests, Reconciled
<1> HIDE DEF now_shown
<1>6. /\ shown' \in [Screens -> SUBSET Nat]
      /\ \A x \in Screens : shown'[x] = IF x = s THEN now_shown ELSE shown[x]
  BY <1>1, <1>2, <1>5 DEF ScreenTypes
<1>7. /\ due' \in [Screens -> SUBSET Nat]
      /\ \A x \in Screens :
           due'[x] = IF x = s /\ r.what = "load" THEN due[s] \ (shown[s] \ r.page)
                                                ELSE due[x]
  BY <1>1, <1>2 DEF ScreenTypes, Unwiped
<1>8. \A x \in Screens : /\ due'[x] \subseteq due[x]
                         /\ \A q \in due'[x] : q \in shown[x] => q \in shown'[x]
  BY <1>5, <1>6, <1>7
<1>9. fetch' \in [Screens -> SUBSET Requests]
  BY <1>1, <1>2 DEF ScreenTypes
<1>10. /\ typed' \in Nat /\ sent' \in [Screens -> SUBSET Frames]
       /\ chosen' \in [Screens -> BOOLEAN] /\ pending' \in [Screens -> SUBSET TextRows]
       /\ link' \in [Screens -> {"off", "connecting", "open"}]
  BY <1>1, <1>2 DEF ScreenTypes
<1>11. \A x \in Screens :
         /\ chosen[x] => chosen'[x]
         /\ link[x] = "open" => link'[x] = "open"
         /\ x \in Widgets /\ link'[x] # "off" => chosen'[x]
         /\ OpenFrame \in sent'[x] => chosen'[x]
  BY <1>1 DEF Chat, Listening
<1>12. QED
  BY <1>1, <1>3, <1>6, <1>7, <1>8, <1>9, <1>10, <1>11, ScreenShows

-----------------------------------------------------------------------------
(* The hub *)

LEMMA HubMoves ==
  ASSUME Chat, NEW s \in Screens, NEW h \in {"listed", "open"},
         hub' = [hub EXCEPT ![s] = h], h = "open" \/ hub[s] # "open",
         link[s] = "open", h = "open" => chosen[s],
         UNCHANGED <<log, posts, bus, due, drawn, shown, typed, pending, link, chosen, fetch>>,
         sent' \in [Screens -> SUBSET Frames],
         \A x \in Screens : OpenFrame \in sent'[x] => OpenFrame \in sent[x]
  PROVE  Chat'
<1>1. ScreenTypes /\ Kept /\ Listening
  BY DEF Chat
<1>2. /\ hub' \in [Screens -> {"none", "listed", "open"}]
      /\ \A x \in Screens : hub'[x] = IF x = s THEN h ELSE hub[x]
  BY <1>1 DEF ScreenTypes
<1>3. ScreenTypes'
  BY <1>1, <1>2 DEF ScreenTypes
<1>4. Kept'
  BY <1>1, KeptStays DEF Kept
<1>5. Listening'
  BY <1>1, <1>2 DEF Listening
<1>6. Numbered'
  BY DEF Chat, Numbered, Live
<1>7. LiveMessageShown'
  BY DEF Chat, LiveMessageShown
<1>8. QED
  BY <1>3, <1>4, <1>5, <1>6, <1>7 DEF Chat

LEMMA RegisterClientChat ==
  ASSUME Chat, NEW s \in Screens, RegisterClient(s) PROVE Chat'
<1>1. /\ s \in Widgets /\ link[s] = "open" /\ hub' = [hub EXCEPT ![s] = "open"]
      /\ UNCHANGED <<log, posts, bus, due, drawn, shown, typed, pending, link, chosen, fetch,
                     sent>>
  BY DEF RegisterClient, screenVars
<1>2. chosen[s] /\ sent' \in [Screens -> SUBSET Frames]
  BY <1>1 DEF Chat, Listening, ScreenTypes
<1>3. QED
  BY <1>1, <1>2, HubMoves

LEMMA RegisterOperatorChat ==
  ASSUME Chat, NEW s \in Screens, RegisterOperator(s) PROVE Chat'
<1>1. /\ link[s] = "open" /\ hub[s] = "none" /\ hub' = [hub EXCEPT ![s] = "listed"]
      /\ UNCHANGED <<log, posts, bus, due, drawn, shown, typed, pending, link, chosen, fetch,
                     sent>>
  BY DEF RegisterOperator, screenVars, rowsOfChat
<1>2. sent' \in [Screens -> SUBSET Frames]
  BY <1>1 DEF Chat, ScreenTypes
<1>3. QED
  BY <1>1, <1>2, HubMoves

LEMMA OpensOnSocketChat ==
  ASSUME Chat, NEW s \in Screens, OpensOnSocket(s) PROVE Chat'
<1>1. /\ OpenFrame \in sent[s] /\ hub[s] # "none" /\ hub' = [hub EXCEPT ![s] = "open"]
      /\ sent' = [sent EXCEPT ![s] = @ \ {OpenFrame}]
      /\ UNCHANGED <<log, posts, bus, due, drawn, shown, typed, pending, link, chosen, fetch>>
  BY DEF OpensOnSocket
<1>2. link[s] = "open" /\ chosen[s]
  BY <1>1 DEF Chat, Listening
<1>3. /\ sent' \in [Screens -> SUBSET Frames]
      /\ \A x \in Screens : OpenFrame \in sent'[x] => OpenFrame \in sent[x]
  BY <1>1 DEF Chat, ScreenTypes
<1>4. QED
  BY <1>1, <1>2, <1>3, HubMoves

(* The connection breaks: what the screen is still due is on it.            *)
LEMMA DropChat ==
  ASSUME Chat, NEW s \in Screens, Drop(s) PROVE Chat'
<1> DEFINE Cut(p) == IF p.by = s /\ p.via = "ws" THEN [p EXCEPT !.via = "gone"] ELSE p
<1>1. /\ link[s] = "open" /\ link' = [link EXCEPT ![s] = "connecting"]
      /\ hub' = [hub EXCEPT ![s] = "none"]
      /\ sent' = [sent EXCEPT ![s] = {f \in @ : f.via = "rest"}]
      /\ posts' = {Cut(p) : p \in posts}
      /\ due' = [due EXCEPT ![s] = @ \cap shown[s]]
      /\ UNCHANGED <<log, bus, drawn, shown, typed, pending, chosen, fetch>>
  BY DEF Drop, rowsOfChat
<1>2. ScreenTypes /\ Kept /\ Listening /\ Numbered /\ LiveMessageShown
  BY DEF Chat
<1>3. ASSUME NEW p \in posts
      PROVE  /\ Posted(Cut(p)) /\ Cut(p).seq = p.seq /\ Cut(p).stored = p.stored
             /\ Cut(p).id = p.id /\ (Live(p) => Live(Cut(p)))
  BY <1>2 DEF ScreenTypes, Posted, Live
<1> HIDE DEF Cut
<1>4. /\ due' \in [Screens -> SUBSET Nat] /\ hub' \in [Screens -> {"none", "listed", "open"}]
      /\ link' \in [Screens -> {"off", "connecting", "open"}]
      /\ sent' \in [Screens -> SUBSET Frames]
      /\ \A x \in Screens : /\ due'[x] = IF x = s THEN due[s] \cap shown[s] ELSE due[x]
                            /\ hub'[x] = IF x = s THEN "none" ELSE hub[x]
                            /\ link'[x] = IF x = s THEN "connecting" ELSE link[x]
                            /\ sent'[x] \subseteq sent[x]
  BY <1>1, <1>2 DEF ScreenTypes
<1>5. ScreenTypes'
  BY <1>1, <1>2, <1>3, <1>4 DEF ScreenTypes
<1>6. Kept'
  <2>1. \A p \in posts' : p.stored => Stored(log', p.id)
    BY <1>1, <1>2, <1>3 DEF Kept
  <2>2. QED
    BY <1>1, <1>2, <2>1, KeptStays
<1>7. Listening'
  BY <1>1, <1>2, <1>4 DEF Listening
<1>9. Numbered'
  <2>1. \A x \in Screens : \A q \in due'[x] : q <= drawn'
    BY <1>1, <1>2, <1>4 DEF Numbered
  <2>2. \A p \in posts' : p.seq <= drawn'
    BY <1>1, <1>2, <1>3 DEF Numbered
  <2>3. ASSUME NEW p \in posts', NEW r \in posts', p.seq = r.seq PROVE p = r
    BY <1>1, <1>2, <1>3, <2>3 DEF Numbered
  <2>4. ASSUME NEW x \in Screens, NEW p \in posts', p.seq \in due'[x]
        PROVE  p.stored /\ Live(p)
    BY <1>1, <1>2, <1>3, <1>4, <2>4 DEF Numbered
  <2>5. QED
    BY <2>1, <2>2, <2>3, <2>4 DEF Numbered, Live
<1>10. LiveMessageShown'
  BY <1>1, <1>2, <1>3, <1>4 DEF LiveMessageShown
<1>11. QED
  BY <1>5, <1>6, <1>7, <1>9, <1>10 DEF Chat

(* The row of the conversation, the marks, the pings and the clock take no  *)
(* part in it.                                                              *)
LEMMA QuietChat ==
  ASSUME Chat, UNCHANGED <<log, posts, hub, bus, due, drawn, shown, typed, pending, link,
                           chosen, sent, fetch>>
  PROVE  Chat'
<1>1. ScreenTypes'
  BY DEF Chat, ScreenTypes
<1>2. Kept' /\ Listening'
  BY DEF Chat, Kept, Listening
<1>3. Numbered' /\ LiveMessageShown'
  BY DEF Chat, Numbered, Live, LiveMessageShown
<1>4. QED
  BY <1>1, <1>2, <1>3 DEF Chat

-----------------------------------------------------------------------------
(* Handlers *)

LEMMA PostsChat ==
  ASSUME Chat, NEW s \in Screens, NEW f \in sent[s], Posts(s, f) PROVE Chat'
<1> DEFINE row == Drawn(s, f)
<1>1. /\ sent' = [sent EXCEPT ![s] = @ \ {f}] /\ drawn' = drawn + 1
      /\ posts' = posts \cup {row}
      /\ UNCHANGED <<log, hub, bus, due, shown, typed, pending, link, chosen, fetch>>
  BY DEF Posts
<1>2. ScreenTypes /\ Kept /\ Listening /\ Numbered /\ LiveMessageShown
  BY DEF Chat
<1>3. f \in Frames /\ drawn \in Nat
  BY <1>2 DEF ScreenTypes
<1>4. Posted(row) /\ row.seq = drawn + 1 /\ ~row.stored
  BY <1>3 DEF Drawn, Posted, Frames
<1> HIDE DEF row
<1>5. \A p \in posts : p.seq \in Nat /\ p.seq <= drawn
  BY <1>2 DEF ScreenTypes, Posted, Numbered
<1>6. \A x \in Screens : \A q \in due[x] : q \in Nat /\ q <= drawn
  BY <1>2 DEF ScreenTypes, Numbered
<1>7. /\ sent' \in [Screens -> SUBSET Frames]
      /\ \A x \in Screens : sent'[x] \subseteq sent[x]
  BY <1>1, <1>2 DEF ScreenTypes
<1>8. ScreenTypes'
  BY <1>1, <1>2, <1>4, <1>7 DEF ScreenTypes
<1>9. Kept'
  <2>1. \A p \in posts' : p.stored => Stored(log', p.id)
    BY <1>1, <1>2, <1>4 DEF Kept
  <2>2. QED
    BY <1>1, <1>2, <2>1, KeptStays
<1>10. Listening'
  BY <1>1, <1>2, <1>7 DEF Listening
<1>11. Numbered'
  <2>1. \A x \in Screens : \A q \in due'[x] : q <= drawn'
    BY <1>1, <1>3, <1>6
  <2>2. \A p \in posts' : p.seq <= drawn'
    BY <1>1, <1>3, <1>4, <1>5
  <2>3. ASSUME NEW p \in posts', NEW r \in posts', p.seq = r.seq PROVE p = r
    <3>1. CASE p \in posts /\ r \in posts
      BY <1>2, <2>3, <3>1 DEF Numbered
    <3>2. CASE p \notin posts \/ r \notin posts
      BY <1>1, <1>3, <1>4, <1>5, <2>3, <3>2
    <3>3. QED
      BY <3>1, <3>2
  <2>4. ASSUME NEW x \in Screens, NEW p \in posts', p.seq \in due'[x]
        PROVE  p.stored /\ Live(p)
    <3>1. p \in posts
      BY <1>1, <1>3, <1>4, <1>6, <2>4
    <3>2. QED
      BY <1>1, <1>2, <2>4, <3>1 DEF Numbered
  <2>5. QED
    BY <2>1, <2>2, <2>3, <2>4 DEF Numbered, Live
<1>12. LiveMessageShown'
  BY <1>1, <1>2 DEF LiveMessageShown
<1>13. QED
  BY <1>8, <1>9, <1>10, <1>11, <1>12 DEF Chat

(* The commit is the moment a screen becomes due the message: its handler    *)
(* still has to deliver it.                                                 *)
LEMMA CommitsChat ==
  ASSUME Chat, NEW p \in posts, Commits(p) PROVE Chat'
<1> DEFINE row == [seq |-> p.seq, by |-> p.by, at |-> p.at, id |-> p.id]
           done == [p EXCEPT !.stored = TRUE]
<1>1. /\ ~p.stored /\ log' = log \cup {row} /\ posts' = (posts \ {p}) \cup {done}
      /\ due' = [s \in Screens |->
           IF Live(p) /\ hub[s] = "open" THEN due[s] \cup {p.seq} ELSE due[s]]
      /\ UNCHANGED <<drawn, hub, bus, shown, typed, pending, link, chosen, fetch, sent>>
  BY DEF Commits, screenVars
<1>2. ScreenTypes /\ Kept /\ Listening /\ Numbered /\ LiveMessageShown
  BY DEF Chat
<1>3. Posted(p) /\ p.seq \in Nat /\ row.seq = p.seq /\ row.id = p.id
  BY <1>2 DEF ScreenTypes, Posted
<1>4. /\ Posted(done) /\ done.seq = p.seq /\ done.stored /\ done.id = p.id
      /\ Live(p) => Live(done)
  BY <1>3 DEF Posted, Live
<1> HIDE DEF row, done
<1>5. /\ due' \in [Screens -> SUBSET Nat]
      /\ \A s \in Screens : \/ due'[s] = due[s]
                            \/ /\ Live(p) /\ hub[s] = "open"
                               /\ due'[s] = due[s] \cup {p.seq}
  <2>1. \A s \in Screens : due[s] \subseteq Nat
    BY <1>2 DEF ScreenTypes
  <2>2. QED
    BY <1>1, <1>3, <2>1
<1>6. ScreenTypes'
  BY <1>1, <1>2, <1>3, <1>4, <1>5 DEF ScreenTypes
<1>7. Kept'
  <2>1. \A r \in posts' : r.stored => Stored(log', r.id)
    BY <1>1, <1>2, <1>3, <1>4 DEF Kept, Stored
  <2>2. QED
    BY <1>1, <1>2, <2>1, KeptStays
<1>8. Listening'
  BY <1>1, <1>2, <1>5 DEF Listening
<1>10. Numbered'
  <2>1. \A s \in Screens : \A q \in due'[s] : q <= drawn'
    BY <1>1, <1>2, <1>5 DEF Numbered
  <2>2. \A r \in posts' : r.seq <= drawn'
    BY <1>1, <1>2, <1>4 DEF Numbered
  <2>3. ASSUME NEW r \in posts', NEW q \in posts', r.seq = q.seq PROVE r = q
    BY <1>1, <1>2, <1>4, <2>3 DEF Numbered
  <2>4. ASSUME NEW s \in Screens, NEW r \in posts', r.seq \in due'[s]
        PROVE  r.stored /\ Live(r)
    <3>1. CASE r = done
      <4>1. p.seq \notin due[s]
        BY <1>1, <1>2 DEF Numbered
      <4>2. QED
        BY <1>4, <1>5, <2>4, <3>1, <4>1
    <3>2. CASE r # done
      <4>1. r \in posts /\ r # p
        BY <1>1, <3>2
      <4>2. r.seq # p.seq
        BY <1>2, <4>1 DEF Numbered
      <4>3. r.seq \in due[s]
        BY <1>5, <2>4, <4>2
      <4>4. QED
        BY <1>2, <4>1, <4>3 DEF Numbered
    <3>3. QED
      BY <3>1, <3>2
  <2>5. QED
    BY <2>1, <2>2, <2>3, <2>4 DEF Numbered, Live
<1>11. LiveMessageShown'
  <2>1. ASSUME NEW s \in Screens, NEW q \in due'[s]
        PROVE  q \in shown'[s] \/ q \in bus'[Of[s]] \/ \E r \in posts' : r.seq = q
    <3>1. CASE q = p.seq
      BY <1>1, <1>4, <3>1
    <3>2. CASE q # p.seq
      <4>1. q \in due[s]
        BY <1>5, <2>1, <3>2
      <4>2. q \in shown[s] \/ q \in bus[Of[s]] \/ \E r \in posts : r.seq = q
        BY <1>2, <4>1 DEF LiveMessageShown
      <4>3. QED
        BY <1>1, <3>2, <4>2
    <3>3. QED
      BY <3>1, <3>2
  <2>2. QED
    BY <2>1 DEF LiveMessageShown
<1>12. QED
  BY <1>6, <1>7, <1>8, <1>10, <1>11 DEF Chat

(* A handler that ends leaves the stored text in the table, and a live      *)
(* message on the bus of every worker.                                      *)
LEMMA LeavesChat ==
  ASSUME Chat, NEW p \in posts, posts' = posts \ {p},
         NEW rows \in SUBSET TextRows, pending' = [pending EXCEPT ![p.by] = rows],
         \A t \in pending[p.by] : (\E u \in rows : u.id = t.id) \/ Stored(log, t.id),
         shown' \in [Screens -> SUBSET Nat], bus' \in [Workers -> SUBSET Nat],
         \A s \in Screens : shown[s] \subseteq shown'[s],
         \A w \in Workers : bus[w] \subseteq bus'[w],
         p.stored /\ Live(p) => \A w \in Workers : p.seq \in bus'[w],
         UNCHANGED <<log, hub, due, drawn, typed, link, chosen, fetch, sent>>
  PROVE  Chat'
<1>1. ScreenTypes /\ Kept /\ Listening /\ Numbered /\ LiveMessageShown
  BY DEF Chat
<1>2. p.by \in Screens
  BY <1>1 DEF ScreenTypes, Posted
<1>3. \A r \in posts' : r.stored => Stored(log', r.id)
  BY <1>1 DEF Kept
<1>4. Kept' /\ pending' \in [Screens -> SUBSET TextRows]
  BY <1>1, <1>2, <1>3, KeptSet
<1>5. ScreenTypes'
  BY <1>1, <1>4 DEF ScreenTypes
<1>6. Listening'
  BY <1>1 DEF Listening
<1>7. Numbered'
  BY <1>1 DEF Numbered, Live
<1>8. LiveMessageShown'
  <2>1. ASSUME NEW s \in Screens, NEW q \in due'[s]
        PROVE  q \in shown'[s] \/ q \in bus'[Of[s]] \/ \E r \in posts' : r.seq = q
    <3>1. q \in shown[s] \/ q \in bus[Of[s]] \/ \E r \in posts : r.seq = q
      BY <1>1 DEF LiveMessageShown
    <3>2. Of[s] \in Workers
      BY ChatAssumption
    <3>3. p.seq = q => p.stored /\ Live(p)
      BY <1>1 DEF Numbered
    <3>4. QED
      BY <3>1, <3>2, <3>3
  <2>2. QED
    BY <2>1 DEF LiveMessageShown
<1>9. QED
  BY <1>4, <1>5, <1>6, <1>7, <1>8 DEF Chat

LEMMA FailsChat ==
  ASSUME Chat, NEW p \in posts, Fails(p) PROVE Chat'
<1> DEFINE rows == IF p.via = "gone" THEN pending[p.by] ELSE Marked(p.by, p.id, "failed")
<1>1. /\ ~p.stored /\ posts' = posts \ {p} /\ pending' = [pending EXCEPT ![p.by] = rows]
      /\ UNCHANGED <<log, hub, bus, due, drawn, shown, typed, link, chosen, fetch, sent>>
  BY DEF Fails, rowsOfChat
<1>2. ScreenTypes /\ p.by \in Screens /\ pending[p.by] \subseteq TextRows
  BY DEF Chat, ScreenTypes, Posted
<1>3. rows \in SUBSET TextRows /\ \A t \in pending[p.by] : \E u \in rows : u.id = t.id
  BY <1>2, MarkedIs
<1> HIDE DEF rows
<1>4. shown' \in [Screens -> SUBSET Nat] /\ bus' \in [Workers -> SUBSET Nat]
  BY <1>1, <1>2 DEF ScreenTypes
<1>5. QED
  BY <1>1, <1>3, <1>4, LeavesChat

LEMMA ToldRows ==
  ASSUME Chat, NEW p \in posts, p.stored, TellsByFrame(p) \/ TellsByAnswer(p)
  PROVE  \E rows \in SUBSET TextRows :
           /\ pending' = [pending EXCEPT ![p.by] = rows]
           /\ \A t \in pending[p.by] : (\E u \in rows : u.id = t.id) \/ Stored(log, t.id)
<1>1. /\ pending \in [Screens -> SUBSET TextRows] /\ p.by \in Screens
      /\ pending[p.by] \subseteq TextRows /\ Stored(log, p.id)
  BY DEF Chat, ScreenTypes, Posted, Kept
<1>2. CASE UNCHANGED pending
  <2>1. pending' = [pending EXCEPT ![p.by] = pending[p.by]]
    BY <1>1, <1>2
  <2>2. QED
    BY <1>1, <2>1
<1>3. CASE Told(p)
  <2>1. /\ Confirmed(p.by, p.id) \in SUBSET TextRows
        /\ \A t \in pending[p.by] : t.id # p.id => t \in Confirmed(p.by, p.id)
    BY <1>1, ConfirmedIs
  <2>2. pending' = [pending EXCEPT ![p.by] = Confirmed(p.by, p.id)]
    BY <1>3 DEF Told
  <2>3. QED
    BY <1>1, <2>1, <2>2
<1>4. CASE pending' = [pending EXCEPT ![p.by] = Marked(p.by, p.id, "failed")]
  <2>1. /\ Marked(p.by, p.id, "failed") \in SUBSET TextRows
        /\ \A t \in pending[p.by] : \E u \in Marked(p.by, p.id, "failed") : u.id = t.id
    BY <1>1, MarkedIs
  <2>2. QED
    BY <1>4, <2>1
<1>5. QED
  BY <1>2, <1>3, <1>4 DEF TellsByFrame, TellsByAnswer

LEMMA SeesIs ==
  ASSUME Chat, NEW p \in posts, NEW others, Sees(p, others)
  PROVE  shown' \in [Screens -> SUBSET Nat] /\ \A s \in Screens : shown[s] \subseteq shown'[s]
<1> DEFINE On(s) == s \in others \/ (s = p.by /\ pending'[s] = Confirmed(s, p.id))
<1>1. shown' = [s \in Screens |-> IF On(s) THEN shown[s] \cup {p.seq} ELSE shown[s]]
  BY DEF Sees
<1>2. p.seq \in Nat /\ \A s \in Screens : shown[s] \subseteq Nat
  BY DEF Chat, ScreenTypes, Posted
<1> HIDE DEF On
<1>3. QED
  BY <1>1, <1>2

LEMMA PublishedIs ==
  ASSUME Chat, NEW p \in posts, bus' = Published(p.seq)
  PROVE  /\ bus' \in [Workers -> SUBSET Nat]
         /\ \A w \in Workers : bus[w] \subseteq bus'[w] /\ p.seq \in bus'[w]
<1>1. p.seq \in Nat /\ \A w \in Workers : bus[w] \subseteq Nat
  BY DEF Chat, ScreenTypes, Posted
<1>2. QED
  BY <1>1 DEF Published

LEMMA EndsChat ==
  ASSUME Chat, NEW p \in posts,
         \/ ClientFrameEnds(p) \/ ClientCallEnds(p) \/ OperatorFrameEnds(p)
         \/ \E w \in Workers : OperatorCallEnds(p, w)
  PROVE  Chat'
<1>1. /\ p.stored /\ posts' = posts \ {p}
      /\ UNCHANGED <<log, hub, due, drawn, typed, link, chosen, fetch, sent>>
      /\ TellsByFrame(p) \/ TellsByAnswer(p)
  BY DEF ClientFrameEnds, ClientCallEnds, OperatorFrameEnds, OperatorCallEnds, Ends, rowsOfChat
<1>2. \E others : Sees(p, others)
  BY DEF ClientFrameEnds, ClientCallEnds, OperatorFrameEnds, OperatorCallEnds
<1>3. bus' = Published(p.seq) \/ (UNCHANGED bus /\ p.by \in Widgets /\ p.via = "rest")
  BY DEF ClientFrameEnds, ClientCallEnds, OperatorFrameEnds, OperatorCallEnds
<1>4. PICK rows \in SUBSET TextRows :
        /\ pending' = [pending EXCEPT ![p.by] = rows]
        /\ \A t \in pending[p.by] : (\E u \in rows : u.id = t.id) \/ Stored(log, t.id)
  BY <1>1, ToldRows
<1>5. shown' \in [Screens -> SUBSET Nat] /\ \A s \in Screens : shown[s] \subseteq shown'[s]
  BY <1>2, SeesIs
<1>6. /\ bus' \in [Workers -> SUBSET Nat]
      /\ \A w \in Workers : bus[w] \subseteq bus'[w]
      /\ Live(p) => \A w \in Workers : p.seq \in bus'[w]
  <2>1. CASE bus' = Published(p.seq)
    BY <2>1, PublishedIs
  <2>2. CASE UNCHANGED bus /\ p.by \in Widgets /\ p.via = "rest"
    BY <2>2, ChatAssumption DEF Chat, ScreenTypes, Live
  <2>3. QED
    BY <1>3, <2>1, <2>2
<1>7. QED
  BY <1>1, <1>4, <1>5, <1>6, LeavesChat

(* What is taken off the bus of a worker is shown by its listening screens.  *)
LEMMA DispatchChat ==
  ASSUME Chat, NEW w \in Workers, NEW seq \in bus[w], Dispatch(w, seq) PROVE Chat'
<1>1. /\ bus' = [bus EXCEPT ![w] = @ \ {seq}]
      /\ shown' = [s \in Screens |->
           IF s \in Recipients(w) THEN shown[s] \cup {seq} ELSE shown[s]]
      /\ UNCHANGED <<log, posts, hub, due, drawn, typed, pending, link, chosen, fetch, sent>>
  BY DEF Dispatch, rowsOfChat
<1>2. ScreenTypes /\ Kept /\ Listening /\ Numbered /\ LiveMessageShown
  BY DEF Chat
<1>3. seq \in Nat /\ \A s \in Screens : shown[s] \subseteq Nat
  BY <1>2 DEF ScreenTypes
<1>4. /\ bus' \in [Workers -> SUBSET Nat]
      /\ \A v \in Workers : bus'[v] = IF v = w THEN bus[w] \ {seq} ELSE bus[v]
  BY <1>1, <1>2 DEF ScreenTypes
<1>5. shown' \in [Screens -> SUBSET Nat] /\ \A s \in Screens : shown[s] \subseteq shown'[s]
  BY <1>1, <1>3
<1>6. ScreenTypes'
  BY <1>1, <1>2, <1>4, <1>5 DEF ScreenTypes
<1>7. Kept'
  BY <1>1, <1>2, KeptStays DEF Kept
<1>8. Listening' /\ Numbered'
  BY <1>1, <1>2, <1>5 DEF Listening, Numbered, Live
<1>9. LiveMessageShown'
  <2>1. ASSUME NEW s \in Screens, NEW q \in due'[s]
        PROVE  q \in shown'[s] \/ q \in bus'[Of[s]] \/ \E r \in posts' : r.seq = q
    <3>1. q \in shown[s] \/ q \in bus[Of[s]] \/ \E r \in posts : r.seq = q
      BY <1>1, <1>2 DEF LiveMessageShown
    <3>2. CASE q = seq /\ Of[s] = w
      <4>1. q \in shown[s] \/ s \in Recipients(w)
        BY <1>1, <1>2, <3>2 DEF Recipients, Listening
      <4>2. QED
        BY <1>1, <1>5, <3>2, <4>1
    <3>3. CASE q # seq \/ Of[s] # w
      <4>1. Of[s] \in Workers
        BY ChatAssumption
      <4>2. QED
        BY <1>1, <1>4, <1>5, <3>1, <3>3, <4>1
    <3>4. QED
      BY <3>2, <3>3
  <2>2. QED
    BY <2>1 DEF LiveMessageShown
<1>10. QED
  BY <1>6, <1>7, <1>8, <1>9 DEF Chat

LEMMA BusFailsChat ==
  ASSUME Chat, BusFails PROVE Chat'
<1>1. /\ bus' = [w \in Workers |-> {}]
      /\ due' = [s \in Screens |-> due[s] \cap shown[s]]
      /\ UNCHANGED <<log, posts, hub, drawn, shown, typed, pending, link, chosen, fetch, sent>>
  BY DEF BusFails, rowsOfChat, screenVars
<1>2. ScreenTypes /\ Kept /\ Listening /\ Numbered /\ LiveMessageShown
  BY DEF Chat
<1>3. /\ due' \in [Screens -> SUBSET Nat] /\ bus' \in [Workers -> SUBSET Nat]
      /\ \A s \in Screens : due'[s] = due[s] \cap shown[s]
  BY <1>1, <1>2 DEF ScreenTypes
<1>4. ScreenTypes'
  BY <1>1, <1>2, <1>3 DEF ScreenTypes
<1>5. Kept'
  BY <1>1, <1>2, KeptStays DEF Kept
<1>6. Listening' /\ Numbered'
  BY <1>1, <1>2, <1>3 DEF Listening, Numbered, Live
<1>7. LiveMessageShown'
  BY <1>1, <1>3 DEF LiveMessageShown
<1>8. QED
  BY <1>4, <1>5, <1>6, <1>7 DEF Chat

-----------------------------------------------------------------------------
(* The invariant *)

LEMMA ChatAtFirst == ChatInit => Chat
<1> SUFFICES ASSUME ChatInit PROVE Chat
  OBVIOUS
<1>1. /\ log = {} /\ drawn = 0 /\ posts = {} /\ typed = 0
      /\ bus = [w \in Workers |-> {}] /\ shown = [s \in Screens |-> {}]
      /\ fetch = [s \in Screens |-> {}] /\ pending = [s \in Screens |-> {}]
      /\ sent = [s \in Screens |-> {}] /\ due = [s \in Screens |-> {}]
  BY DEF ChatInit
<1> DEFINE Ready(s) == chatBudget.ready /\ s \in chatBudget.who
<1>2. /\ hub = [s \in Screens |-> IF Ready(s) THEN "open" ELSE "none"]
      /\ link = [s \in Screens |-> IF Ready(s) THEN "open" ELSE "off"]
      /\ chosen = [s \in Screens |-> Ready(s)]
  BY DEF ChatInit
<1>3. chatBudget.ready \in BOOLEAN
  BY ChatAssumption DEF ChatInit
<1>4. \A s \in Screens : Ready(s) \in BOOLEAN
  BY <1>3
<1> HIDE DEF Ready
<1>5. ScreenTypes
  BY <1>1, <1>2, <1>4 DEF ScreenTypes
<1>6. Kept /\ Numbered /\ LiveMessageShown
  BY <1>1 DEF Kept, Numbered, LiveMessageShown
<1>7. Listening
  BY <1>1, <1>2, <1>4 DEF Listening
<1>8. QED
  BY <1>5, <1>6, <1>7 DEF Chat

LEMMA ChatStep == Chat /\ [ChatNext]_chatVars => Chat'
<1> SUFFICES ASSUME Chat, [ChatNext]_chatVars PROVE Chat'
  OBVIOUS
<1>1. ASSUME NEW s \in Screens,
             \/ OpenWidget(s) \/ OpenWorkspace(s) \/ OpenConversation(s) \/ Connected(s)
             \/ Drop(s) \/ AskOlder(s) \/ Type(s)
      PROVE  Chat'
  BY <1>1, OpenWidgetChat, OpenWorkspaceChat, OpenConversationChat, ConnectedChat, DropChat,
     AskOlderChat, TypeChat
<1>2. ASSUME NEW s \in Screens,
             RegisterClient(s) \/ RegisterOperator(s) \/ OpensOnSocket(s)
      PROVE  Chat'
  BY <1>2, RegisterClientChat, RegisterOperatorChat, OpensOnSocketChat
<1>3. ASSUME NEW s \in Screens, NEW r \in fetch[s],
             \/ ClientReads(s, r) \/ OperatorReads(s, r) \/ Arrives(s, r) \/ IsLost(s, r)
      PROVE  Chat'
  <2>1. CASE ClientReads(s, r) \/ OperatorReads(s, r)
    <3>1. /\ Answer(s, r)
          /\ UNCHANGED <<log, posts, hub, bus, due, drawn, shown, typed, pending, link,
                         chosen, sent>>
      BY <2>1 DEF ClientReads, OperatorReads
    <3>2. QED
      BY <3>1, AnswerChat
  <2>2. QED
    BY <1>3, <2>1, ArrivesChat, IsLostChat
<1>4. ASSUME NEW s \in Screens, NEW t \in pending[s], Retry(s, t) PROVE Chat'
  BY <1>4, RetryChat
<1>5. ASSUME NEW s \in Screens, NEW f \in sent[s], PostClient(s, f) \/ PostOperator(s, f)
      PROVE  Chat'
  BY <1>5, PostsChat DEF PostClient, PostOperator
<1>6. ASSUME NEW s \in Screens,
             \/ \E status \in Statuses : SetsStatus(s, status)
             \/ \E whom \in Panels \cup {"nobody"} : Assigns(s, whom)
             \/ MarksRead(s)
      PROVE  Chat'
  <2>1. UNCHANGED <<log, posts, hub, bus, due, drawn, shown, typed, pending, link, chosen,
                    sent, fetch>>
    BY <1>6 DEF SetsStatus, Assigns, MarksRead, ActOnly, screenVars
  <2>2. QED
    BY <2>1, QuietChat
<1>7. ASSUME NEW p \in posts, Commits(p) \/ Fails(p) PROVE Chat'
  BY <1>7, CommitsChat, FailsChat
<1>8. ASSUME NEW p \in posts,
             \/ ClientFrameEnds(p) \/ ClientCallEnds(p) \/ OperatorFrameEnds(p)
             \/ \E w \in Workers : OperatorCallEnds(p, w)
      PROVE  Chat'
  BY <1>8, EndsChat
<1>9. ASSUME NEW w \in Workers, NEW q \in bus[w], Dispatch(w, q) PROVE Chat'
  BY <1>9, DispatchChat
<1>10. CASE BusFails
  BY <1>10, BusFailsChat
<1>11. CASE Tick
  <2>1. UNCHANGED <<log, posts, hub, bus, due, drawn, shown, typed, pending, link, chosen,
                    sent, fetch>>
    BY <1>11 DEF Tick, screenVars, rowsOfChat
  <2>2. QED
    BY <2>1, QuietChat
<1>12. CASE UNCHANGED chatVars
  <2>1. UNCHANGED <<log, posts, hub, bus, due, drawn, shown, typed, pending, link, chosen,
                    sent, fetch>>
    BY <1>12 DEF chatVars
  <2>2. QED
    BY <2>1, QuietChat
<1>13. QED
  BY <1>1, <1>2, <1>3, <1>4, <1>5, <1>6, <1>7, <1>8, <1>9, <1>10, <1>11, <1>12 DEF ChatNext

LEMMA ChatHolds == ChatSpec => []Chat
<1>1. QED
  BY ChatAtFirst, ChatStep, PTL DEF ChatSpec

(* No text is lost between the keyboard and the database, for any tabs,      *)
(* panels, workers, texts and failures: while it is not stored, its screen   *)
(* still shows it as being sent or not sent.                                *)
THEOREM TextsAreKept == ChatSpec => []TypedIsKept
<1>1. Chat => TypedIsKept
  BY DEF Chat, Kept, Stored, OnScreen, TypedIsKept
<1>2. QED
  BY <1>1, ChatHolds, PTL

(* A message stored while a screen listens to the conversation, also while    *)
(* its first page is under way, is on that screen or on its way to it, unless *)
(* it was on its way when the connection or the bus broke, or the first page, *)
(* read before it was stored, replaced it.  What is shown stays over          *)
(* reconnections and later pages.                                           *)
THEOREM LiveMessagesArrive == ChatSpec => []LiveMessageShown
<1>1. Chat => LiveMessageShown
  BY DEF Chat
<1>2. QED
  BY <1>1, ChatHolds, PTL

-----------------------------------------------------------------------------
(* The pings of the staff.                                                  *)
(*                                                                         *)
(* A message of the client that no ping covers has the time of now, and a    *)
(* handler that saw an earlier message, or none, has not ended (Announced):  *)
(* it will ping, or the message it saw was covered a moment before.  The row *)
(* tells the time of a ping, or of the one its creator will send (RowTrue).  *)

ConvRows == [status : Statuses, created : Nat, last : Nat, assigned : Panels \cup {"nobody"}]
ClientTimes == {m.at : m \in ByClient(log)}

(* At time a the client was not silent for a cooldown since a ping of G.     *)
Covered(a, G, T) ==
  \E g \in G :
    /\ g <= a
    /\ \A t \in T \cup {g} : g <= t /\ t + Cooldown <= a =>
         \E n \in T \cup {g} : t < n /\ n < t + Cooldown

Latest ==
  \/ ByClient(log) = {}
  \/ \E n \in ByClient(log) : \A m \in ByClient(log) : m.seq <= n.seq

RowTrue ==
  /\ conv = NoRow => log = {}
  /\ conv # NoRow =>
       \/ conv.created \in pings
       \/ \E p \in posts : p.by \in Widgets /\ p.stored /\ p.created /\ conv.created = p.at
PostTrue(p) ==
  /\ p.at = now
  /\ IF p.created THEN p.by \in Widgets /\ p.previous = -1 ELSE conv # NoRow
  /\ p.previous = -1 \/ p.previous \in ClientTimes

(* A handler that saw an earlier message, or none, has not ended yet.        *)
Announcing(a) ==
  a = now /\ \E q \in posts : q.by \in Widgets /\ q.stored /\ q.previous # now

Times ==
  /\ now \in Nat /\ pings \subseteq 0..now
  /\ conv \in ConvRows \cup {NoRow} /\ conv.created \in 0..now
  /\ \A m \in log : m.at \in 0..now
Announced ==
  /\ Times /\ Latest /\ RowTrue /\ \A p \in posts : PostTrue(p)
  /\ \A a \in ClientTimes : Covered(a, pings, ClientTimes) \/ Announcing(a)

-----------------------------------------------------------------------------
(* Pings that cover a time.                                                 *)
LEMMA CoveredNear ==
  ASSUME NEW a \in Nat, NEW g \in Nat, NEW G, NEW T \in SUBSET Nat,
         g \in G, g <= a, a - g < Cooldown
  PROVE  Covered(a, G, T)
BY ChatAssumption DEF Covered

LEMMA CoveredLater ==
  ASSUME NEW a \in Nat, NEW G \in SUBSET Nat, NEW T \in SUBSET Nat, NEW b \in T,
         Covered(b, G, T), b <= a, a - b < Cooldown
  PROVE  Covered(a, G, T)
<1>1. PICK g \in G :
        /\ g <= b
        /\ \A t \in T \cup {g} : g <= t /\ t + Cooldown <= b =>
             \E n \in T \cup {g} : t < n /\ n < t + Cooldown
  BY DEF Covered
<1>2. ASSUME NEW t \in T \cup {g}, g <= t, t + Cooldown <= a
      PROVE  \E n \in T \cup {g} : t < n /\ n < t + Cooldown
  <2>1. CASE t + Cooldown <= b
    BY <1>1, <1>2, <2>1
  <2>2. CASE ~(t + Cooldown <= b)
    <3>1. t < b /\ b < t + Cooldown
      BY <1>2, <2>2, ChatAssumption
    <3> QED  BY <3>1
  <2> QED  BY <2>1, <2>2
<1>3. g <= a
  BY <1>1
<1> QED  BY <1>2, <1>3 DEF Covered

LEMMA CoveredStill ==
  ASSUME NEW a \in Nat, NEW G \in SUBSET Nat, NEW H, G \subseteq H,
         NEW T \in SUBSET Nat, NEW U \in SUBSET Nat, T \subseteq U,
         \A u \in U : u \in T \/ u >= a, Covered(a, G, T)
  PROVE  Covered(a, H, U)
<1>1. PICK g \in G :
        /\ g <= a
        /\ \A t \in T \cup {g} : g <= t /\ t + Cooldown <= a =>
             \E n \in T \cup {g} : t < n /\ n < t + Cooldown
  BY DEF Covered
<1>2. ASSUME NEW t \in U \cup {g}, g <= t, t + Cooldown <= a
      PROVE  \E n \in U \cup {g} : t < n /\ n < t + Cooldown
  <2>1. t \in T \cup {g}
    BY <1>2, ChatAssumption
  <2> QED  BY <1>1, <1>2, <2>1
<1> QED  BY <1>1, <1>2 DEF Covered

-----------------------------------------------------------------------------
(* What the server does.                                                    *)
LEMMA TimesAre ==
  ASSUME Times
  PROVE  ClientTimes \in SUBSET (0..now) /\ ClientTimes \in SUBSET Nat /\ pings \in SUBSET Nat
BY DEF Times, ClientTimes, ByClient

LEMMA RowIs ==
  ASSUME NEW c \in ConvRows
  PROVE  c # NoRow
BY DEF ConvRows, NoRow, Statuses

LEMMA RestPing ==
  ASSUME Announced, UNCHANGED <<conv, log, pings, now, posts>>
  PROVE  Announced'
BY DEF Announced, Times, Latest, RowTrue, PostTrue, Announcing, ClientTimes, ByClient

(* A screen that drops its socket leaves its messages to their handlers.     *)
LEMMA DropPing ==
  ASSUME Chat, Announced, NEW s \in Screens, Drop(s)
  PROVE  Announced'
<1> DEFINE Cut(p) == IF p.by = s /\ p.via = "ws" THEN [p EXCEPT !.via = "gone"] ELSE p
<1>1. posts' = {Cut(p) : p \in posts} /\ UNCHANGED <<conv, log, pings, now>>
  BY DEF Drop, rowsOfChat
<1>2. ASSUME NEW p \in posts
      PROVE  /\ Cut(p).by = p.by /\ Cut(p).at = p.at /\ Cut(p).created = p.created
             /\ Cut(p).previous = p.previous /\ Cut(p).stored = p.stored
  BY DEF Chat, ScreenTypes, Posted
<1> HIDE DEF Cut
<1>3. ClientTimes' = ClientTimes
  BY <1>1 DEF ClientTimes, ByClient
<1>4. Times' /\ Latest'
  BY <1>1 DEF Announced, Times, Latest, ByClient
<1>5. RowTrue'
  BY <1>1, <1>2 DEF Announced, RowTrue
<1>6. \A p \in posts' : PostTrue(p)'
  BY <1>1, <1>2, <1>3 DEF Announced, PostTrue
<1>7. \A a : Announcing(a) => Announcing(a)'
  BY <1>1, <1>2 DEF Announcing
<1> QED  BY <1>1, <1>3, <1>4, <1>5, <1>6, <1>7 DEF Announced

LEMMA CreatePing ==
  ASSUME Announced, GetOrCreate, UNCHANGED <<log, posts, now>>
  PROVE  Announced'
<1>1. CASE conv # NoRow
  BY <1>1, RestPing DEF GetOrCreate
<1>2. CASE conv = NoRow
  <2>1. conv' = Created /\ pings' = pings \cup {now} /\ now \in Nat
    BY <1>2 DEF GetOrCreate, Announced, Times
  <2>2. conv' \in ConvRows /\ conv'.created = now /\ conv' # NoRow
    BY <2>1, RowIs DEF Created, ConvRows, NoRow, Statuses
  <2>3. ClientTimes' = ClientTimes /\ ClientTimes \in SUBSET Nat /\ pings \in SUBSET Nat
    BY TimesAre DEF Announced, ClientTimes, ByClient
  <2>4. Times' /\ Latest'
    BY <2>1, <2>2 DEF Announced, Times, Latest, ByClient
  <2>5. RowTrue' /\ \A p \in posts' : PostTrue(p)'
    BY <1>2, <2>1, <2>2, <2>3 DEF Announced, RowTrue, PostTrue
  <2>6. \A a \in ClientTimes : Covered(a, pings, ClientTimes) => Covered(a, pings', ClientTimes')
    BY <2>1, <2>3, CoveredStill
  <2>7. \A a : Announcing(a) => Announcing(a)'
    BY DEF Announcing
  <2> QED  BY <2>3, <2>4, <2>5, <2>6, <2>7 DEF Announced
<1> QED  BY <1>1, <1>2

(* The last message of the client, as the flush finds it.                    *)
LEMMA LastIs ==
  ASSUME Chat, Announced
  PROVE  \/ LastClientAt = -1 /\ ByClient(log) = {}
         \/ LastClientAt \in ClientTimes
<1>1. CASE ByClient(log) = {}
  BY <1>1 DEF LastClientAt
<1>2. CASE ByClient(log) # {}
  <2>1. PICK n \in ByClient(log) : \A m \in ByClient(log) : m.seq <= n.seq
    BY <1>2 DEF Announced, Latest
  <2>2. \A m \in ByClient(log) : m.seq \in Nat
    BY DEF Chat, ScreenTypes, ByClient
  <2>3. /\ n.seq \in Seqs(ByClient(log)) \cup {0}
        /\ \A q \in Seqs(ByClient(log)) \cup {0} : n.seq >= q /\ q \in Nat
    BY <2>1, <2>2 DEF Seqs
  <2>4. Newest(Seqs(ByClient(log))) = n.seq
    <3>1. \A q \in Seqs(ByClient(log)) \cup {0} :
             (\A y \in Seqs(ByClient(log)) \cup {0} : q >= y) => q = n.seq
      BY <2>3
    <3> QED  BY <2>3, <3>1 DEF Newest, Max
  <2>5. LastClientAt = (CHOOSE m \in ByClient(log) : m.seq = n.seq).at
    BY <1>2, <2>4 DEF LastClientAt
  <2>6. (CHOOSE m \in ByClient(log) : m.seq = n.seq) \in ByClient(log)
    BY <2>1
  <2> QED  BY <2>5, <2>6 DEF ClientTimes
<1> QED  BY <1>1, <1>2

LEMMA PostPing ==
  ASSUME Chat, Announced, NEW s \in Screens, NEW f, Posts(s, f),
         s \in Widgets \/ conv # NoRow
  PROVE  Announced'
<1> DEFINE row == Drawn(s, f)
<1>1. posts' = posts \cup {row} /\ UNCHANGED <<conv, log, pings, now>>
  BY DEF Posts
<1>2. /\ row.by = s /\ row.at = now /\ row.created = (conv = NoRow)
      /\ row.previous = LastClientAt
  BY DEF Drawn
<1> HIDE DEF row
<1>3. ClientTimes' = ClientTimes
  BY <1>1 DEF ClientTimes, ByClient
<1>4. Times' /\ Latest' /\ RowTrue'
  BY <1>1 DEF Announced, Times, Latest, RowTrue, ByClient
<1>5. conv = NoRow => LastClientAt = -1
  BY DEF Announced, RowTrue, LastClientAt, ByClient
<1>6. PostTrue(row)
  BY <1>2, <1>5, LastIs DEF PostTrue
<1>7. \A p \in posts' : PostTrue(p)'
  BY <1>1, <1>3, <1>6 DEF Announced, PostTrue
<1>8. \A a : Announcing(a) => Announcing(a)'
  BY <1>1 DEF Announcing
<1> QED  BY <1>1, <1>3, <1>4, <1>7, <1>8 DEF Announced

LEMMA FailPing ==
  ASSUME Announced, NEW p \in posts, Fails(p)
  PROVE  Announced'
<1>1. /\ ~p.stored /\ posts' = posts \ {p} /\ UNCHANGED <<conv, log, pings, now>>
  BY DEF Fails, rowsOfChat
<1>2. ClientTimes' = ClientTimes
  BY <1>1 DEF ClientTimes, ByClient
<1>3. Times' /\ Latest' /\ RowTrue'
  BY <1>1 DEF Announced, Times, Latest, RowTrue, ByClient
<1>4. \A q \in posts' : PostTrue(q)'
  BY <1>1, <1>2 DEF Announced, PostTrue
<1>5. \A a : Announcing(a) => Announcing(a)'
  BY <1>1 DEF Announcing
<1> QED  BY <1>1, <1>2, <1>3, <1>4, <1>5 DEF Announced

LEMMA CommitPing ==
  ASSUME Chat, Announced, NEW p \in posts, Commits(p)
  PROVE  Announced'
<1> DEFINE m == [seq |-> p.seq, by |-> p.by, at |-> p.at, id |-> p.id]
           kept == [p EXCEPT !.stored = TRUE]
<1>1. /\ ~p.stored /\ log' = log \cup {m} /\ posts' = (posts \ {p}) \cup {kept}
      /\ UNCHANGED <<pings, now>>
  BY DEF Commits
<1>2. p.by \in Screens /\ p.seq \in Nat /\ p.at = now /\ now \in Nat
  BY DEF Chat, ScreenTypes, Posted, Announced, PostTrue, Times
<1>3. /\ kept.by = p.by /\ kept.at = now /\ kept.created = p.created
      /\ kept.previous = p.previous /\ kept.stored
  BY <1>2 DEF Chat, ScreenTypes, Posted
<1>4. m.by = p.by /\ m.at = now /\ m.seq \in Nat
  BY <1>2
<1>5. /\ conv' \in ConvRows
      /\ conv'.created = IF p.created THEN now ELSE conv.created
  <2>1. CASE p.created
    BY <1>2, <2>1 DEF Commits, Created, NoRow, ConvRows, Statuses
  <2>2. CASE ~p.created
    <3>1. conv \in ConvRows
      BY <2>2 DEF Announced, PostTrue, Times
    <3> QED  BY <1>2, <2>2, <3>1 DEF Commits, ConvRows, Statuses
  <2> QED  BY <2>1, <2>2
<1> HIDE DEF m, kept
<1>6. /\ ByClient(log') = ByClient(log) \cup (IF p.by \in Widgets THEN {m} ELSE {})
      /\ ClientTimes' = ClientTimes \cup (IF p.by \in Widgets THEN {now} ELSE {})
  BY <1>1, <1>4 DEF ClientTimes, ByClient
<1>7. ClientTimes \in SUBSET (0..now) /\ ClientTimes \in SUBSET Nat /\ pings \in SUBSET Nat
  BY TimesAre DEF Announced
<1>8. Times'
  BY <1>1, <1>2, <1>4, <1>5 DEF Announced, Times
<1>9. Latest'
  <2>1. CASE ByClient(log') = ByClient(log)
    BY <2>1 DEF Announced, Latest
  <2>2. CASE ByClient(log') = ByClient(log) \cup {m}
    <3>1. CASE ByClient(log) = {}
      BY <1>4, <2>2, <3>1 DEF Latest
    <3>2. ASSUME NEW n \in ByClient(log), \A x \in ByClient(log) : x.seq <= n.seq
          PROVE  Latest'
      <4>1. n.seq \in Nat /\ \A x \in ByClient(log) : x.seq \in Nat
        BY DEF Chat, ScreenTypes, ByClient
      <4>2. CASE m.seq <= n.seq
        BY <2>2, <3>2, <4>1, <4>2 DEF Latest
      <4>3. CASE n.seq <= m.seq
        BY <1>4, <2>2, <3>2, <4>1, <4>3 DEF Latest
      <4> QED  BY <1>4, <4>1, <4>2, <4>3
    <3> QED  BY <3>1, <3>2 DEF Announced, Latest
  <2> QED  BY <1>6, <2>1, <2>2
<1>10. RowTrue'
  <2>1. conv' # NoRow
    BY <1>5, RowIs
  <2>2. CASE p.created
    <3>1. p.by \in Widgets
      BY <2>2 DEF Announced, PostTrue
    <3> QED  BY <1>1, <1>3, <1>5, <2>1, <2>2, <3>1 DEF RowTrue
  <2>3. CASE ~p.created
    <3>1. conv # NoRow /\ conv'.created = conv.created
      BY <1>5, <2>3 DEF Announced, PostTrue
    <3> QED  BY <1>1, <2>1, <3>1 DEF Announced, RowTrue
  <2> QED  BY <2>2, <2>3
<1>11. \A q \in posts' : PostTrue(q)'
  <2>1. conv' # NoRow
    BY <1>5, RowIs
  <2>2. ASSUME NEW q \in posts PROVE PostTrue(q)'
    BY <1>1, <1>6, <2>1 DEF Announced, PostTrue
  <2>3. PostTrue(kept)'
    BY <1>1, <1>3, <1>6, <2>1 DEF Announced, PostTrue
  <2> QED  BY <1>1, <2>2, <2>3
<1>12. ASSUME NEW a \in ClientTimes
       PROVE  Covered(a, pings', ClientTimes') \/ Announcing(a)'
  <2>1. CASE Covered(a, pings, ClientTimes)
    <3>1. a \in Nat /\ a <= now /\ pings' = pings
      BY <1>1, <1>2, <1>7
    <3>2. ClientTimes' \in SUBSET Nat
      BY <1>2, <1>6, <1>7
    <3>3. ClientTimes \subseteq ClientTimes' /\ \A u \in ClientTimes' : u \in ClientTimes \/ u >= a
      BY <1>2, <1>6, <3>1
    <3> QED  BY <1>7, <2>1, <3>1, <3>2, <3>3, CoveredStill
  <2>2. CASE Announcing(a)
    BY <1>1, <2>2 DEF Announcing
  <2> QED  BY <2>1, <2>2 DEF Announced
<1>13. ASSUME p.by \in Widgets, NEW a, a = now
       PROVE  Covered(a, pings', ClientTimes') \/ Announcing(a)'
  <2>1. CASE p.previous = now
    <3>1. a \in ClientTimes
      BY <1>2, <1>13, <2>1 DEF Announced, PostTrue
    <3> QED  BY <1>12, <3>1
  <2>2. CASE p.previous # now
    BY <1>1, <1>3, <1>13, <2>2 DEF Announcing
  <2> QED  BY <2>1, <2>2
<1>14. \A a \in ClientTimes' : Covered(a, pings', ClientTimes') \/ Announcing(a)'
  BY <1>6, <1>12, <1>13
<1> QED  BY <1>8, <1>9, <1>10, <1>11, <1>14 DEF Announced

(* The end of a client's message: a ping, or a reason to be silent.          *)
LEMMA ClientEndsPing ==
  ASSUME Announced, NEW p \in posts, p.by \in Widgets, p.stored,
         posts' = posts \ {p}, UNCHANGED <<conv, log, now>>,
         pings' = IF Pings(p) THEN pings \cup {p.at} ELSE pings
  PROVE  Announced'
<1>1. p.at = now /\ now \in Nat /\ ClientTimes' = ClientTimes
  BY DEF Announced, PostTrue, Times, ClientTimes, ByClient
<1>2. ClientTimes \in SUBSET (0..now) /\ ClientTimes \in SUBSET Nat /\ pings \in SUBSET Nat
  BY TimesAre DEF Announced
<1>3. /\ pings \subseteq pings' /\ pings' \subseteq 0..now /\ pings' \in SUBSET Nat
      /\ Pings(p) => now \in pings'
  BY <1>1, <1>2 DEF Announced, Times
<1>4. Times' /\ Latest'
  BY <1>3 DEF Announced, Times, Latest, ByClient
<1>5. RowTrue'
  <2>1. p.created => p.at \in pings'
    BY <1>1, <1>3 DEF Pings
  <2> QED  BY <1>3, <2>1 DEF Announced, RowTrue
<1>6. \A q \in posts' : PostTrue(q)'
  BY <1>1 DEF Announced, PostTrue
<1>7. ASSUME NEW a \in ClientTimes, Covered(a, pings, ClientTimes)
      PROVE  Covered(a, pings', ClientTimes')
  BY <1>1, <1>2, <1>3, <1>7, CoveredStill
<1>8. ASSUME p.previous # now, ~Announcing(now)'
      PROVE  Covered(now, pings', ClientTimes')
  <2>1. CASE Pings(p)
    BY <1>1, <1>2, <1>3, <2>1, CoveredNear, ChatAssumption
  <2>2. ASSUME ~Pings(p), p.previous = -1
        PROVE  Covered(now, pings', ClientTimes')
    <3>1. ~p.created /\ conv # NoRow /\ ~(now - conv.created >= Cooldown)
      BY <1>1, <2>2 DEF Pings, Anchor, Announced, PostTrue
    <3>2. conv.created \in Nat /\ conv.created <= now
      BY DEF Announced, Times
    <3>3. \A q \in posts : q.by \in Widgets /\ q.stored /\ q.created => q = p
      BY <1>1, <1>8 DEF Announcing, Announced, PostTrue
    <3>4. conv.created \in pings'
      BY <1>3, <3>1, <3>3 DEF Announced, RowTrue
    <3> QED  BY <1>1, <1>2, <3>1, <3>2, <3>4, CoveredNear, ChatAssumption
  <2>3. ASSUME ~Pings(p), p.previous \in ClientTimes
        PROVE  Covered(now, pings', ClientTimes')
    <3>1. p.previous \in Nat /\ p.previous <= now
      <4>1. p.previous \in ClientTimes
        BY <2>3
      <4>2. p.previous \in 0..now
        BY <1>2, <4>1
      <4> QED  BY <1>1, <4>2
    <3>2. ~(now - p.previous >= Cooldown)
      BY <1>1, <2>3, <3>1 DEF Pings, Anchor
    <3>3. Covered(p.previous, pings, ClientTimes)
      BY <1>8, <2>3 DEF Announced, Announcing
    <3>4. Covered(p.previous, pings', ClientTimes')
      BY <1>7, <2>3, <3>3
    <3> QED  BY <1>1, <1>2, <1>3, <2>3, <3>1, <3>2, <3>4, CoveredLater, ChatAssumption
  <2> QED  BY <2>1, <2>2, <2>3 DEF Announced, PostTrue
<1>9. ASSUME NEW a \in ClientTimes
      PROVE  Covered(a, pings', ClientTimes') \/ Announcing(a)'
  <2>1. CASE Covered(a, pings, ClientTimes)
    BY <1>7, <2>1
  <2>2. CASE Announcing(a)
    <3>1. a = now
      BY <2>2 DEF Announcing
    <3>2. PICK q \in posts : q.by \in Widgets /\ q.stored /\ q.previous # now
      BY <2>2 DEF Announcing
    <3>3. CASE q = p
      BY <1>8, <3>1, <3>2, <3>3
    <3>4. CASE q # p
      BY <3>1, <3>2, <3>4 DEF Announcing
    <3> QED  BY <3>3, <3>4
  <2> QED  BY <2>1, <2>2 DEF Announced
<1> QED  BY <1>1, <1>4, <1>5, <1>6, <1>9 DEF Announced

LEMMA OperatorEndsPing ==
  ASSUME Announced, NEW p \in posts, p.by \notin Widgets,
         posts' = posts \ {p}, UNCHANGED <<conv, log, now, pings>>
  PROVE  Announced'
<1>1. ClientTimes' = ClientTimes
  BY DEF ClientTimes, ByClient
<1>2. Times' /\ Latest' /\ RowTrue'
  BY DEF Announced, Times, Latest, RowTrue, ByClient
<1>3. \A q \in posts' : PostTrue(q)'
  BY <1>1 DEF Announced, PostTrue
<1>4. \A a : Announcing(a) => Announcing(a)'
  BY DEF Announcing
<1> QED  BY <1>1, <1>2, <1>3, <1>4 DEF Announced

LEMMA ActPing ==
  ASSUME Announced, conv # NoRow, conv' \in ConvRows, conv'.created = conv.created,
         UNCHANGED <<log, posts, pings, now>>
  PROVE  Announced'
<1>1. ClientTimes' = ClientTimes /\ conv' # NoRow
  BY RowIs DEF ClientTimes, ByClient
<1>2. Times' /\ Latest' /\ RowTrue'
  BY <1>1 DEF Announced, Times, Latest, RowTrue, ByClient
<1>3. \A q \in posts' : PostTrue(q)'
  BY <1>1 DEF Announced, PostTrue
<1>4. \A a : Announcing(a) => Announcing(a)'
  BY DEF Announcing
<1> QED  BY <1>1, <1>2, <1>3, <1>4 DEF Announced

LEMMA TickPing ==
  ASSUME Announced, Tick
  PROVE  Announced'
<1>1. posts = {} /\ now' = now + 1 /\ UNCHANGED <<conv, log, posts, pings>>
  BY DEF Tick, rowsOfChat
<1>2. ClientTimes' = ClientTimes
  BY <1>1 DEF ClientTimes, ByClient
<1>3. Times' /\ Latest' /\ RowTrue'
  BY <1>1 DEF Announced, Times, Latest, RowTrue, ByClient
<1>4. \A a : ~Announcing(a)
  BY <1>1 DEF Announcing
<1> QED  BY <1>1, <1>2, <1>3, <1>4 DEF Announced

-----------------------------------------------------------------------------
LEMMA PingAtFirst == ChatInit => Announced
<1> SUFFICES ASSUME ChatInit PROVE Announced
  OBVIOUS
<1>1. log = {} /\ posts = {} /\ now = 0
  BY DEF ChatInit
<1>2. \/ conv = [NoRow EXCEPT !.status = "OPEN"] /\ pings = {0}
      \/ conv = NoRow /\ pings = {}
  BY DEF ChatInit
<1>3. conv \in ConvRows \cup {NoRow} /\ conv.created = 0
  BY <1>2 DEF ConvRows, NoRow, Statuses
<1>4. Times
  BY <1>1, <1>2, <1>3 DEF Times
<1>5. conv = [NoRow EXCEPT !.status = "OPEN"] => conv # NoRow
  BY DEF NoRow
<1>6. Latest /\ RowTrue /\ ClientTimes = {}
  BY <1>1, <1>2, <1>3, <1>5 DEF Latest, RowTrue, ClientTimes, ByClient
<1> QED  BY <1>1, <1>4, <1>6 DEF Announced

(* What an operator does to the row changes neither its creation nor the     *)
(* messages.                                                                *)
LEMMA ActsPing ==
  ASSUME Announced, NEW s \in Screens,
         \/ \E status \in Statuses : SetsStatus(s, status)
         \/ \E whom \in Panels \cup {"nobody"} : Assigns(s, whom)
  PROVE  Announced'
<1>1. /\ conv # NoRow
      /\ \/ \E status \in Statuses : conv' = [conv EXCEPT !.status = status]
         \/ \E whom \in Panels \cup {"nobody"} : conv' = [conv EXCEPT !.assigned = whom]
      /\ UNCHANGED <<log, posts, pings, now>>
  BY DEF SetsStatus, Assigns, MayAct, ActOnly
<1>2. conv \in ConvRows
  BY <1>1 DEF Announced, Times
<1>3. conv' \in ConvRows /\ conv'.created = conv.created
  BY <1>1, <1>2 DEF ConvRows
<1> QED  BY <1>1, <1>3, ActPing

LEMMA EndsPing ==
  ASSUME Chat, Announced, NEW p \in posts,
         \/ ClientFrameEnds(p) \/ ClientCallEnds(p) \/ OperatorFrameEnds(p)
         \/ \E w \in Workers : OperatorCallEnds(p, w)
  PROVE  Announced'
<1>1. CASE ClientFrameEnds(p) \/ ClientCallEnds(p)
  <2>1. /\ p.by \in Widgets /\ p.stored /\ posts' = posts \ {p}
        /\ UNCHANGED <<conv, log, now>>
        /\ pings' = IF Pings(p) THEN pings \cup {p.at} ELSE pings
    BY <1>1 DEF ClientFrameEnds, ClientCallEnds, Ends, rowsOfChat
  <2> QED  BY <2>1, ClientEndsPing
<1>2. CASE OperatorFrameEnds(p) \/ \E w \in Workers : OperatorCallEnds(p, w)
  <2>1. /\ p.by \in Panels /\ posts' = posts \ {p}
        /\ UNCHANGED <<conv, log, now, pings>>
    BY <1>2 DEF OperatorFrameEnds, OperatorCallEnds, Ends, rowsOfChat
  <2>2. p.by \notin Widgets
    BY <2>1, ChatAssumption
  <2> QED  BY <2>1, <2>2, OperatorEndsPing
<1> QED  BY <1>1, <1>2

LEMMA PingStep == Chat /\ Announced /\ [ChatNext]_chatVars => Announced'
<1> SUFFICES ASSUME Chat, Announced, [ChatNext]_chatVars PROVE Announced'
  OBVIOUS
<1>1. ASSUME NEW s \in Screens,
             \/ OpenWidget(s) \/ OpenWorkspace(s) \/ OpenConversation(s) \/ Connected(s)
             \/ AskOlder(s) \/ Type(s)
      PROVE  Announced'
  <2>1. UNCHANGED <<conv, log, pings, now, posts>>
    BY <1>1 DEF OpenWidget, OpenWorkspace, OpenConversation, Connected, AskOlder, Type,
       rowsOfChat
  <2> QED  BY <2>1, RestPing
<1>2. ASSUME NEW s \in Screens, Drop(s) PROVE Announced'
  BY <1>2, DropPing
<1>3. ASSUME NEW s \in Screens,
             RegisterOperator(s) \/ OpensOnSocket(s) \/ MarksRead(s)
      PROVE  Announced'
  <2>1. UNCHANGED <<conv, log, pings, now, posts>>
    BY <1>3 DEF RegisterOperator, OpensOnSocket, MarksRead, ActOnly, rowsOfChat
  <2> QED  BY <2>1, RestPing
<1>4. ASSUME NEW s \in Screens,
             RegisterClient(s) \/ \E r \in fetch[s] : ClientReads(s, r)
      PROVE  Announced'
  <2>1. GetOrCreate /\ UNCHANGED <<log, posts, now>>
    BY <1>4 DEF RegisterClient, ClientReads
  <2> QED  BY <2>1, CreatePing
<1>5. ASSUME NEW s \in Screens, NEW r \in fetch[s],
             OperatorReads(s, r) \/ Arrives(s, r) \/ IsLost(s, r)
      PROVE  Announced'
  <2>1. UNCHANGED <<conv, log, pings, now, posts>>
    BY <1>5 DEF OperatorReads, Arrives, IsLost, rowsOfChat
  <2> QED  BY <2>1, RestPing
<1>6. ASSUME NEW s \in Screens, NEW t \in pending[s], Retry(s, t) PROVE Announced'
  <2>1. UNCHANGED <<conv, log, pings, now, posts>>
    BY <1>6 DEF Retry, rowsOfChat
  <2> QED  BY <2>1, RestPing
<1>7. ASSUME NEW s \in Screens, NEW f \in sent[s], PostClient(s, f) \/ PostOperator(s, f)
      PROVE  Announced'
  BY <1>7, PostPing DEF PostClient, PostOperator
<1>8. ASSUME NEW s \in Screens,
             \/ \E status \in Statuses : SetsStatus(s, status)
             \/ \E whom \in Panels \cup {"nobody"} : Assigns(s, whom)
      PROVE  Announced'
  BY <1>8, ActsPing
<1>9. ASSUME NEW p \in posts, Commits(p) \/ Fails(p) PROVE Announced'
  BY <1>9, CommitPing, FailPing
<1>10. ASSUME NEW p \in posts,
              \/ ClientFrameEnds(p) \/ ClientCallEnds(p) \/ OperatorFrameEnds(p)
              \/ \E w \in Workers : OperatorCallEnds(p, w)
       PROVE  Announced'
  BY <1>10, EndsPing
<1>11. ASSUME (\E w \in Workers : \E q \in bus[w] : Dispatch(w, q)) \/ BusFails
              \/ UNCHANGED chatVars
       PROVE  Announced'
  <2>1. UNCHANGED <<conv, log, pings, now, posts>>
    BY <1>11 DEF Dispatch, BusFails, chatVars, rowsOfChat
  <2> QED  BY <2>1, RestPing
<1>12. CASE Tick
  BY <1>12, TickPing
<1> QED
  BY <1>1, <1>2, <1>3, <1>4, <1>5, <1>6, <1>7, <1>8, <1>9, <1>10, <1>11, <1>12 DEF ChatNext

LEMMA PingHolds == ChatSpec => [](Chat /\ Announced)
<1> QED  BY ChatAtFirst, ChatStep, PingAtFirst, PingStep, PTL DEF ChatSpec

LEMMA BurstsCovered == Announced => PingPerBurst
<1> SUFFICES ASSUME Announced, posts = {}, NEW m \in ByClient(log)
             PROVE  \E g \in pings :
                      LET times == {g} \cup {n.at : n \in ByClient(log)} IN
                      /\ g <= m.at
                      /\ \A t \in times : g <= t /\ t + Cooldown <= m.at =>
                           \E n \in times : t < n /\ n < t + Cooldown
  BY DEF PingPerBurst
<1>1. m.at \in ClientTimes
  BY DEF ClientTimes
<1>2. ~Announcing(m.at)
  BY DEF Announcing
<1>3. Covered(m.at, pings, ClientTimes)
  BY <1>1, <1>2 DEF Announced
<1>4. PICK g \in pings :
        /\ g <= m.at
        /\ \A t \in ClientTimes \cup {g} : g <= t /\ t + Cooldown <= m.at =>
             \E n \in ClientTimes \cup {g} : t < n /\ n < t + Cooldown
  BY <1>3 DEF Covered
<1>5. {g} \cup {n.at : n \in ByClient(log)} = ClientTimes \cup {g}
  BY DEF ClientTimes
<1> QED  BY <1>4, <1>5

(* When all handlers have ended, every message of the client lies in a burst *)
(* that a ping announced, for any number of tabs, messages and overlaps, any *)
(* cooldown, and whatever operators write or close in between.              *)
THEOREM BurstsAreAnnounced == ChatSpec => []PingPerBurst
<1> QED  BY BurstsCovered, PingHolds, PTL

LEMMA LeastOf ==
  ASSUME NEW S \in SUBSET Nat, S # {}
  PROVE  \E c \in S : \A d \in S : c <= d
<1>1. PICK c \in S : \A d \in S : ~(<<d, c>> \in OpToRel(<, Nat))
  BY NatLessThanWellFounded, WFMin
<1>2. ASSUME NEW d \in S PROVE c <= d
  <2>1. ~(d < c)
    BY <1>1 DEF OpToRel
  <2> QED  BY <2>1
<1> QED  BY <1>2

-----------------------------------------------------------------------------
(* The types of the chat.  Whatever number a row, a mark, a screen, a page or *)
(* the bus holds is one that was drawn, or that is in the table (Given,      *)
(* Reaches); a list of texts names each once (Distinct).                     *)

Given ==
  /\ conv.last \in 0..drawn /\ marks \in [Panels -> 0..drawn]
  /\ \A m \in log : /\ m.seq \in 1..drawn /\ m.by \in Screens
                    /\ \A n \in log : n.seq = m.seq => n = m
  /\ \A p \in posts : p.seq \in 1..drawn /\ (p.stored <=> p.seq \in Seqs(log))
Reaches ==
  /\ \A s \in Screens : /\ shown[s] \cup due[s] \subseteq Seqs(log)
                        /\ \A r \in fetch[s] : r.page \subseteq Seqs(log)
  /\ \A w \in Workers : bus[w] \subseteq Seqs(log)
Named(rows, last) ==
  \A t \in rows : t.id \in 1..last /\ \A u \in rows : u.id = t.id => u = t
Distinct == \A s \in Screens : Named(pending[s], typed)

-----------------------------------------------------------------------------
(* Lists of texts                                                           *)
LEMMA MarkedNamed ==
  ASSUME NEW s, pending[s] \subseteq TextRows, NEW id, NEW state \in {"sending", "failed"},
         Named(pending[s], typed)
  PROVE  Named(Marked(s, id, state), typed)
<1> DEFINE New(t) == IF t.id = id THEN [t EXCEPT !.state = state] ELSE t
<1>1. Marked(s, id, state) = {New(t) : t \in pending[s]}
  BY DEF Marked
<1>2. ASSUME NEW t \in pending[s] PROVE New(t).id = t.id
  BY DEF TextRows
<1> HIDE DEF New
<1> QED  BY <1>1, <1>2 DEF Named

LEMMA ConfirmedNamed ==
  ASSUME NEW s, NEW id, Named(pending[s], typed)
  PROVE  Named(Confirmed(s, id), typed)
BY DEF Named, Confirmed

LEMMA RowsNamed ==
  ASSUME ScreenTypes, Distinct, typed' = typed, NEW s, NEW rows,
         pending' = [pending EXCEPT ![s] = rows], Named(rows, typed)
  PROVE  Distinct'
<1>1. \A x \in Screens : pending'[x] = IF x = s THEN rows ELSE pending[x]
  BY DEF ScreenTypes
<1> QED  BY <1>1 DEF Distinct

LEMMA TypeNamed ==
  ASSUME ScreenTypes, Distinct, NEW s \in Screens, Type(s)
  PROVE  Distinct'
<1> DEFINE row == [id |-> typed', state |-> IF Waiting(s) THEN "failed" ELSE "sending"]
<1>1. typed' = typed + 1 /\ pending' = [pending EXCEPT ![s] = pending[s] \cup {row}]
  BY DEF Type
<1>2. row.id = typed'
  OBVIOUS
<1> HIDE DEF row
<1>3. /\ \A x \in Screens : pending'[x] = IF x = s THEN pending[s] \cup {row} ELSE pending[x]
      /\ typed \in Nat
  BY <1>1 DEF ScreenTypes
<1>4. ASSUME NEW x \in Screens PROVE Named(pending'[x], typed')
  <2>1. \A t \in pending[x] : t.id \in 1..typed /\ t.id # typed' /\ t.id \in 1..typed'
    BY <1>1, <1>3 DEF Distinct, Named
  <2>2. CASE x # s
    BY <1>3, <2>1, <2>2 DEF Distinct, Named
  <2>3. CASE x = s
    BY <1>1, <1>2, <1>3, <2>1, <2>3 DEF Distinct, Named
  <2> QED  BY <2>2, <2>3
<1> QED  BY <1>4 DEF Distinct

LEMMA PostNamed ==
  ASSUME Chat, Distinct, NEW p \in posts,
         \/ Fails(p) \/ ClientFrameEnds(p) \/ ClientCallEnds(p) \/ OperatorFrameEnds(p)
         \/ \E w \in Workers : OperatorCallEnds(p, w)
  PROVE  Distinct'
<1>1. /\ ScreenTypes /\ p.by \in Screens /\ pending[p.by] \subseteq TextRows
      /\ Named(pending[p.by], typed)
  BY DEF Chat, ScreenTypes, Posted, Distinct
<1>2. typed' = typed
  BY DEF Fails, ClientFrameEnds, ClientCallEnds, OperatorFrameEnds, OperatorCallEnds, Ends
<1>3. CASE UNCHANGED pending
  BY <1>2, <1>3 DEF Distinct
<1>4. CASE pending' = [pending EXCEPT ![p.by] = Confirmed(p.by, p.id)]
  BY <1>1, <1>2, <1>4, ConfirmedNamed, RowsNamed
<1>5. CASE pending' = [pending EXCEPT ![p.by] = Marked(p.by, p.id, "failed")]
  BY <1>1, <1>2, <1>5, MarkedNamed, RowsNamed
<1>6. CASE pending' = [pending EXCEPT ![p.by] = pending[p.by]]
  BY <1>1, <1>2, <1>6, RowsNamed
<1> QED
  <2>1. CASE Fails(p)
    BY <1>5, <1>6, <2>1 DEF Fails
  <2>2. CASE TellsByFrame(p) \/ TellsByAnswer(p)
    BY <1>3, <1>4, <1>5, <2>2 DEF TellsByFrame, TellsByAnswer, Told
  <2> QED
    BY <2>1, <2>2 DEF ClientFrameEnds, ClientCallEnds, OperatorFrameEnds, OperatorCallEnds

LEMMA DistinctStep == Chat /\ Distinct /\ [ChatNext]_chatVars => Distinct'
<1> SUFFICES ASSUME Chat, Distinct, [ChatNext]_chatVars PROVE Distinct'
  OBVIOUS
<1>0. ScreenTypes
  BY DEF Chat
<1>1. CASE UNCHANGED <<typed, pending>>
  BY <1>1 DEF Distinct
<1>2. ASSUME NEW s \in Screens, Type(s) PROVE Distinct'
  BY <1>0, <1>2, TypeNamed
<1>3. ASSUME NEW s \in Screens, NEW t \in pending[s], Retry(s, t) PROVE Distinct'
  <2>1. pending' = [pending EXCEPT ![s] = Marked(s, t.id, "sending")] /\ typed' = typed
    BY <1>3 DEF Retry
  <2>2. pending[s] \subseteq TextRows /\ Named(pending[s], typed)
    BY <1>0 DEF ScreenTypes, Distinct
  <2> QED  BY <1>0, <2>1, <2>2, MarkedNamed, RowsNamed
<1>4. ASSUME NEW p \in posts,
             \/ Fails(p) \/ ClientFrameEnds(p) \/ ClientCallEnds(p) \/ OperatorFrameEnds(p)
             \/ \E w \in Workers : OperatorCallEnds(p, w)
      PROVE  Distinct'
  BY <1>4, PostNamed
<1>5. ASSUME NEW s \in Screens,
             \/ OpenWidget(s) \/ OpenWorkspace(s) \/ OpenConversation(s) \/ Connected(s)
             \/ Drop(s) \/ AskOlder(s)
             \/ RegisterClient(s) \/ RegisterOperator(s) \/ OpensOnSocket(s)
      PROVE  Distinct'
  <2>1. UNCHANGED <<typed, pending>>
    BY <1>5 DEF OpenWidget, OpenWorkspace, OpenConversation, Connected, Drop, AskOlder,
       RegisterClient, RegisterOperator, OpensOnSocket, screenVars
  <2> QED  BY <1>1, <2>1
<1>6. ASSUME NEW s \in Screens, NEW r \in fetch[s],
             \/ ClientReads(s, r) \/ OperatorReads(s, r) \/ Arrives(s, r) \/ IsLost(s, r)
      PROVE  Distinct'
  BY <1>1, <1>6 DEF ClientReads, OperatorReads, Arrives, IsLost
<1>7. ASSUME NEW s \in Screens,
             \/ \E f \in sent[s] : PostClient(s, f) \/ PostOperator(s, f)
             \/ \E status \in Statuses : SetsStatus(s, status)
             \/ \E whom \in Panels \cup {"nobody"} : Assigns(s, whom)
             \/ MarksRead(s)
      PROVE  Distinct'
  <2>1. UNCHANGED <<typed, pending>>
    BY <1>7 DEF PostClient, PostOperator, Posts, SetsStatus, Assigns, MarksRead, ActOnly,
       screenVars
  <2> QED  BY <1>1, <2>1
<1>8. ASSUME NEW p \in posts, Commits(p) PROVE Distinct'
  BY <1>1, <1>8 DEF Commits, screenVars
<1>9. CASE (\E w \in Workers : \E q \in bus[w] : Dispatch(w, q)) \/ BusFails \/ Tick
           \/ UNCHANGED chatVars
  BY <1>1, <1>9 DEF Dispatch, BusFails, Tick, screenVars, chatVars
<1> QED  BY <1>2, <1>3, <1>4, <1>5, <1>6, <1>7, <1>8, <1>9 DEF ChatNext

-----------------------------------------------------------------------------
(* Numbers of messages                                                      *)
LEMMA NewestIs ==
  ASSUME NEW n \in Nat, NEW seqs \in SUBSET (1..n)
  PROVE  Newest(seqs) \in 0..n
<1> DEFINE S == seqs \cup {0}
           gaps == {n - q : q \in S}
<1>1. S \subseteq 0..n /\ S # {} /\ gaps \in SUBSET Nat /\ gaps # {}
  OBVIOUS
<1>2. PICK g \in gaps : \A h \in gaps : g <= h
  BY <1>1, LeastOf
<1>3. PICK q \in S : g = n - q
  OBVIOUS
<1>4. ASSUME NEW r \in S PROVE q >= r
  BY <1>1, <1>2, <1>3
<1>5. Max(S) \in S
  BY <1>3, <1>4 DEF Max
<1> QED  BY <1>1, <1>5 DEF Newest

LEMMA SeqsAre ==
  ASSUME Given
  PROVE  Seqs(log) \in SUBSET (1..drawn)
BY DEF Given, Seqs

LEMMA GivenStays ==
  ASSUME Given, UNCHANGED <<conv, log, drawn, posts, marks>>
  PROVE  Given'
BY DEF Given, Seqs

(* The mark of a screen moves to the newest message.                         *)
LEMMA MarkGiven ==
  ASSUME Chat, Given, NEW s, MarkRead(s) \/ UNCHANGED marks,
         UNCHANGED <<conv, log, drawn, posts>>
  PROVE  Given'
<1>1. Newest(Seqs(log)) \in 0..drawn
  BY SeqsAre, NewestIs DEF Chat, ScreenTypes
<1>2. marks' \in [Panels -> 0..drawn']
  BY <1>1 DEF MarkRead, Given
<1> QED  BY <1>2 DEF Given, Seqs

(* The row of the conversation keeps its newest message or has none.         *)
LEMMA RowGiven ==
  ASSUME Chat, Given, conv'.last \in {0, conv.last}, UNCHANGED <<log, drawn, posts, marks>>
  PROVE  Given'
<1>1. drawn \in Nat
  BY DEF Chat, ScreenTypes
<1> QED  BY <1>1 DEF Given, Seqs

LEMMA CreateGiven ==
  ASSUME Chat, Given, GetOrCreate, UNCHANGED <<log, drawn, posts, marks>>
  PROVE  Given'
<1>1. conv'.last \in {0, conv.last}
  BY DEF GetOrCreate, Created, NoRow
<1> QED  BY <1>1, RowGiven

LEMMA ActsGiven ==
  ASSUME Chat, Announced, Given, NEW s \in Screens,
         \/ \E status \in Statuses : SetsStatus(s, status)
         \/ \E whom \in Panels \cup {"nobody"} : Assigns(s, whom)
  PROVE  Given'
<1>1. /\ conv # NoRow
      /\ \/ \E status \in Statuses : conv' = [conv EXCEPT !.status = status]
         \/ \E whom \in Panels \cup {"nobody"} : conv' = [conv EXCEPT !.assigned = whom]
      /\ UNCHANGED <<log, drawn, posts, marks>>
  BY DEF SetsStatus, Assigns, MayAct, ActOnly
<1>2. conv'.last = conv.last
  BY <1>1 DEF Announced, Times, ConvRows
<1> QED  BY <1>1, <1>2, RowGiven

LEMMA DropGiven ==
  ASSUME Chat, Given, NEW s \in Screens, Drop(s)
  PROVE  Given'
<1> DEFINE Cut(p) == IF p.by = s /\ p.via = "ws" THEN [p EXCEPT !.via = "gone"] ELSE p
<1>1. posts' = {Cut(p) : p \in posts} /\ UNCHANGED <<conv, log, drawn, marks>>
  BY DEF Drop, rowsOfChat
<1>2. ASSUME NEW p \in posts PROVE Cut(p).seq = p.seq /\ Cut(p).stored = p.stored
  BY DEF Chat, ScreenTypes, Posted
<1> HIDE DEF Cut
<1> QED  BY <1>1, <1>2 DEF Given, Seqs

LEMMA PostsGiven ==
  ASSUME Chat, Given, NEW s \in Screens, NEW f, Posts(s, f)
  PROVE  Given'
<1> DEFINE row == Drawn(s, f)
<1>1. /\ drawn' = drawn + 1 /\ posts' = posts \cup {row} /\ UNCHANGED <<conv, log, marks>>
  BY DEF Posts
<1>2. drawn \in Nat /\ row.seq = drawn + 1 /\ row.stored = FALSE
  BY DEF Chat, ScreenTypes, Drawn
<1> HIDE DEF row
<1>3. 0..drawn \subseteq 0..drawn' /\ 1..drawn \subseteq 1..drawn' /\ row.seq \in 1..drawn'
  BY <1>1, <1>2
<1>4. row.seq \notin Seqs(log) /\ Seqs(log)' = Seqs(log)
  BY <1>1, <1>2, SeqsAre DEF Seqs
<1>5. conv'.last \in 0..drawn' /\ marks' \in [Panels -> 0..drawn']
  BY <1>1, <1>3 DEF Given
<1>6. \A m \in log' : /\ m.seq \in 1..drawn' /\ m.by \in Screens
                      /\ \A n \in log' : n.seq = m.seq => n = m
  BY <1>1, <1>3 DEF Given
<1>7. \A p \in posts' : p.seq \in 1..drawn' /\ (p.stored <=> p.seq \in Seqs(log)')
  BY <1>1, <1>2, <1>3, <1>4 DEF Given
<1> QED  BY <1>5, <1>6, <1>7 DEF Given, Seqs

LEMMA CommitGiven ==
  ASSUME Chat, Given, Announced, NEW p \in posts, Commits(p)
  PROVE  Given' /\ Seqs(log)' = Seqs(log) \cup {p.seq}
<1> DEFINE m == [seq |-> p.seq, by |-> p.by, at |-> p.at, id |-> p.id]
           kept == [p EXCEPT !.stored = TRUE]
<1>1. /\ ~p.stored /\ log' = log \cup {m} /\ posts' = (posts \ {p}) \cup {kept}
      /\ UNCHANGED <<drawn, marks>>
  BY DEF Commits
<1>2. /\ Posted(p) /\ m.seq = p.seq /\ m.by = p.by /\ p.by \in Screens
      /\ p.seq \in 1..drawn /\ p.seq \notin Seqs(log)
  BY <1>1 DEF Chat, ScreenTypes, Posted, Given
<1>3. kept.seq = p.seq /\ kept.stored = TRUE
  BY <1>2 DEF Posted
<1>4. conv'.last = p.seq
  <2>1. CASE p.created
    BY <2>1 DEF Commits, Created, NoRow
  <2>2. CASE ~p.created
    <3>1. conv \in ConvRows
      BY <2>2 DEF Announced, PostTrue, Times
    <3> QED  BY <2>2, <3>1 DEF Commits, ConvRows
  <2> QED  BY <2>1, <2>2
<1> HIDE DEF m, kept
<1>5. Seqs(log)' = Seqs(log) \cup {p.seq}
  BY <1>1, <1>2 DEF Seqs
<1>6. conv'.last \in 0..drawn' /\ marks' \in [Panels -> 0..drawn']
  BY <1>1, <1>2, <1>4 DEF Given
<1>7. \A n \in log : n.seq # p.seq
  BY <1>2 DEF Seqs
<1>8. \A x \in log' : /\ x.seq \in 1..drawn' /\ x.by \in Screens
                      /\ \A n \in log' : n.seq = x.seq => n = x
  BY <1>1, <1>2, <1>7 DEF Given
<1>9. \A q \in posts : q # p => q.seq # p.seq
  BY DEF Chat, Numbered
<1>10. \A q \in posts' : q.seq \in 1..drawn' /\ (q.stored <=> q.seq \in Seqs(log)')
  BY <1>1, <1>2, <1>3, <1>5, <1>9 DEF Given
<1> QED  BY <1>5, <1>6, <1>8, <1>10 DEF Given, Seqs

LEMMA EndGiven ==
  ASSUME Given, NEW p \in posts, posts' = posts \ {p}, UNCHANGED <<conv, log, drawn, marks>>
  PROVE  Given'
BY DEF Given, Seqs

LEMMA GivenStep == Chat /\ Announced /\ Given /\ [ChatNext]_chatVars => Given'
<1> SUFFICES ASSUME Chat, Announced, Given, [ChatNext]_chatVars PROVE Given'
  OBVIOUS
<1>1. ASSUME NEW s \in Screens,
             \/ OpenWidget(s) \/ OpenWorkspace(s) \/ OpenConversation(s) \/ Connected(s)
             \/ AskOlder(s) \/ Type(s) \/ RegisterOperator(s)
      PROVE  Given'
  <2>1. UNCHANGED <<conv, log, drawn, posts, marks>>
    BY <1>1 DEF OpenWidget, OpenWorkspace, OpenConversation, Connected, AskOlder, Type,
       RegisterOperator, rowsOfChat
  <2> QED  BY <2>1, GivenStays
<1>2. ASSUME NEW s \in Screens, Drop(s) PROVE Given'
  BY <1>2, DropGiven
<1>3. ASSUME NEW s \in Screens,
             \/ OpensOnSocket(s) \/ MarksRead(s)
             \/ \E r \in fetch[s] : OperatorReads(s, r)
      PROVE  Given'
  <2>1. (MarkRead(s) \/ UNCHANGED marks) /\ UNCHANGED <<conv, log, drawn, posts>>
    BY <1>3 DEF OpensOnSocket, MarksRead, ActOnly, OperatorReads
  <2> QED  BY <2>1, MarkGiven
<1>4. ASSUME NEW s \in Screens,
             RegisterClient(s) \/ \E r \in fetch[s] : ClientReads(s, r)
      PROVE  Given'
  <2>1. GetOrCreate /\ UNCHANGED <<log, drawn, posts, marks>>
    BY <1>4 DEF RegisterClient, ClientReads
  <2> QED  BY <2>1, CreateGiven
<1>5. ASSUME NEW s \in Screens,
             \/ \E r \in fetch[s] : Arrives(s, r) \/ IsLost(s, r)
             \/ \E t \in pending[s] : Retry(s, t)
      PROVE  Given'
  <2>1. UNCHANGED <<conv, log, drawn, posts, marks>>
    BY <1>5 DEF Arrives, IsLost, Retry, rowsOfChat
  <2> QED  BY <2>1, GivenStays
<1>6. ASSUME NEW s \in Screens, NEW f \in sent[s], PostClient(s, f) \/ PostOperator(s, f)
      PROVE  Given'
  BY <1>6, PostsGiven DEF PostClient, PostOperator
<1>7. ASSUME NEW s \in Screens,
             \/ \E status \in Statuses : SetsStatus(s, status)
             \/ \E whom \in Panels \cup {"nobody"} : Assigns(s, whom)
      PROVE  Given'
  BY <1>7, ActsGiven
<1>8. ASSUME NEW p \in posts, Commits(p) PROVE Given'
  BY <1>8, CommitGiven
<1>9. ASSUME NEW p \in posts,
             \/ Fails(p) \/ ClientFrameEnds(p) \/ ClientCallEnds(p) \/ OperatorFrameEnds(p)
             \/ \E w \in Workers : OperatorCallEnds(p, w)
      PROVE  Given'
  <2>1. posts' = posts \ {p} /\ UNCHANGED <<conv, log, drawn, marks>>
    BY <1>9 DEF Fails, ClientFrameEnds, ClientCallEnds, OperatorFrameEnds, OperatorCallEnds,
       Ends, rowsOfChat
  <2> QED  BY <2>1, EndGiven
<1>10. CASE (\E w \in Workers : \E q \in bus[w] : Dispatch(w, q)) \/ BusFails \/ Tick
            \/ UNCHANGED chatVars
  <2>1. UNCHANGED <<conv, log, drawn, posts, marks>>
    BY <1>10 DEF Dispatch, BusFails, Tick, rowsOfChat, chatVars
  <2> QED  BY <2>1, GivenStays
<1> QED  BY <1>1, <1>2, <1>3, <1>4, <1>5, <1>6, <1>7, <1>8, <1>9, <1>10 DEF ChatNext

-----------------------------------------------------------------------------
(* What screens, pages and the bus hold                                     *)
LEMMA FetchReaches ==
  ASSUME Chat, Reaches, NEW s \in Screens, NEW rows, fetch' = [fetch EXCEPT ![s] = rows],
         \A r \in rows : r \in fetch[s] \/ r.page \subseteq Seqs(log),
         UNCHANGED <<log, shown, due, bus>>
  PROVE  Reaches'
<1>1. \A x \in Screens : fetch'[x] = IF x = s THEN rows ELSE fetch[x]
  BY DEF Chat, ScreenTypes
<1> QED  BY <1>1 DEF Reaches, Seqs

LEMMA AskReaches ==
  ASSUME Chat, Reaches, NEW s \in Screens,
         OpenWidget(s) \/ OpenConversation(s) \/ Connected(s) \/ AskOlder(s)
  PROVE  Reaches'
<1>1. UNCHANGED <<log, shown, due, bus>>
  BY DEF OpenWidget, OpenConversation, Connected, AskOlder, rowsOfChat
<1>2. CASE UNCHANGED fetch
  BY <1>1, <1>2 DEF Reaches, Seqs
<1>3. ASSUME NEW old, NEW what, old \subseteq fetch[s],
             fetch' = [fetch EXCEPT ![s] = old \cup {Request(what)}]
      PROVE  Reaches'
  <2>1. \A r \in old \cup {Request(what)} : r \in fetch[s] \/ r.page \subseteq Seqs(log)
    BY <1>3 DEF Request
  <2> QED  BY <1>1, <1>3, <2>1, FetchReaches
<1>4. CASE OpenWidget(s) \/ OpenConversation(s)
  <2>1. fetch' = [fetch EXCEPT ![s] = {Request("load")}]
    BY <1>4 DEF OpenWidget, OpenConversation
  <2>2. \A r \in {Request("load")} : r \in fetch[s] \/ r.page \subseteq Seqs(log)
    BY DEF Request
  <2> QED  BY <1>1, <2>1, <2>2, FetchReaches
<1>5. CASE Connected(s)
  <2>1. \/ UNCHANGED fetch
        \/ fetch' = [fetch EXCEPT ![s] =
             {r \in fetch[s] : r.what # "reconcile"} \cup {Request("reconcile")}]
    BY <1>5 DEF Connected
  <2>2. {r \in fetch[s] : r.what # "reconcile"} \subseteq fetch[s]
    OBVIOUS
  <2> QED  BY <1>2, <1>3, <2>1, <2>2
<1>6. CASE AskOlder(s)
  <2>1. fetch' = [fetch EXCEPT ![s] = fetch[s] \cup {Request("older")}]
    BY <1>6 DEF AskOlder
  <2> QED  BY <1>3, <2>1
<1> QED  BY <1>4, <1>5, <1>6

LEMMA AnswerReaches ==
  ASSUME Chat, Reaches, NEW s \in Screens, NEW r \in fetch[s], Answer(s, r),
         UNCHANGED <<log, shown, due, bus>>
  PROVE  Reaches'
<1> DEFINE page == IF r.what = "older" THEN Older(Seqs(log), oldest[s]) ELSE Page(Seqs(log))
           answer == [r EXCEPT !.read = TRUE, !.page = page]
<1>1. fetch' = [fetch EXCEPT ![s] = (fetch[s] \ {r}) \cup {answer}]
  BY DEF Answer
<1>2. page \subseteq Seqs(log)
  BY DEF Page, Older
<1> HIDE DEF page
<1>3. answer.page = page
  BY DEF Chat, ScreenTypes, Requests
<1> HIDE DEF answer
<1>4. \A x \in (fetch[s] \ {r}) \cup {answer} : x \in fetch[s] \/ x.page \subseteq Seqs(log)
  BY <1>2, <1>3
<1> QED  BY <1>1, <1>4, FetchReaches

LEMMA ArrivesReaches ==
  ASSUME Chat, Reaches, NEW s \in Screens, NEW r \in fetch[s], Arrives(s, r)
  PROVE  Reaches'
<1> DEFINE there == CASE r.what = "load" -> r.page
                      [] r.what = "reconcile" -> Reconciled(shown[s], r.page)
                      [] r.what = "older" -> shown[s] \cup r.page
<1>1. /\ fetch' = [fetch EXCEPT ![s] = fetch[s] \ {r}]
      /\ shown' = [shown EXCEPT ![s] = there] /\ due' = Unwiped(s, r)
      /\ UNCHANGED <<log, bus>>
  BY DEF Arrives, rowsOfChat
<1>2. r \in Requests /\ r.page \subseteq Seqs(log) /\ shown[s] \subseteq Seqs(log)
  BY DEF Chat, ScreenTypes, Reaches
<1>3. there \subseteq Seqs(log)
  BY <1>2 DEF Requests, Reconciled
<1> HIDE DEF there
<1>4. \A x \in Screens : /\ fetch'[x] \subseteq fetch[x]
                         /\ shown'[x] = IF x = s THEN there ELSE shown[x]
                         /\ due'[x] \subseteq due[x]
  BY <1>1 DEF Chat, ScreenTypes, Unwiped
<1> QED  BY <1>1, <1>3, <1>4 DEF Reaches, Seqs

LEMMA CommitReaches ==
  ASSUME Chat, Announced, Given, Reaches, NEW p \in posts, Commits(p)
  PROVE  Reaches'
<1>1. Seqs(log)' = Seqs(log) \cup {p.seq}
  BY CommitGiven
<1>2. /\ due' = [s \in Screens |-> IF Live(p) /\ hub[s] = "open"
                                   THEN due[s] \cup {p.seq} ELSE due[s]]
      /\ UNCHANGED <<shown, fetch, bus>>
  BY DEF Commits, screenVars
<1>3. \A s \in Screens : due'[s] \subseteq due[s] \cup {p.seq}
  BY <1>2
<1> QED  BY <1>1, <1>2, <1>3 DEF Reaches

LEMMA EndReaches ==
  ASSUME Chat, Given, Reaches, NEW p \in posts,
         \/ ClientFrameEnds(p) \/ ClientCallEnds(p) \/ OperatorFrameEnds(p)
         \/ \E w \in Workers : OperatorCallEnds(p, w)
  PROVE  Reaches'
<1>1. p.stored /\ UNCHANGED <<log, fetch, due>>
  BY DEF ClientFrameEnds, ClientCallEnds, OperatorFrameEnds, OperatorCallEnds, Ends,
         rowsOfChat
<1>2. p.seq \in Seqs(log)
  BY <1>1 DEF Given
<1>3. \E others : Sees(p, others)
  BY DEF ClientFrameEnds, ClientCallEnds, OperatorFrameEnds, OperatorCallEnds
<1>4. bus' = Published(p.seq) \/ UNCHANGED bus
  BY DEF ClientFrameEnds, ClientCallEnds, OperatorFrameEnds, OperatorCallEnds
<1>5. \A s \in Screens : shown'[s] \subseteq shown[s] \cup {p.seq}
  BY <1>3 DEF Sees
<1>6. \A w \in Workers : bus'[w] \subseteq bus[w] \cup {p.seq}
  BY <1>4 DEF Published
<1> QED  BY <1>1, <1>2, <1>5, <1>6 DEF Reaches, Seqs

LEMMA DispatchReaches ==
  ASSUME Chat, Reaches, NEW w \in Workers, NEW seq \in bus[w], Dispatch(w, seq)
  PROVE  Reaches'
<1>1. /\ bus' = [bus EXCEPT ![w] = @ \ {seq}]
      /\ shown' = [s \in Screens |->
           IF s \in Recipients(w) THEN shown[s] \cup {seq} ELSE shown[s]]
      /\ UNCHANGED <<log, due, fetch>>
  BY DEF Dispatch, rowsOfChat
<1>2. /\ \A s \in Screens : shown'[s] \subseteq shown[s] \cup {seq}
      /\ \A v \in Workers : bus'[v] \subseteq bus[v]
      /\ seq \in Seqs(log)
  BY <1>1 DEF Chat, ScreenTypes, Reaches
<1> QED  BY <1>1, <1>2 DEF Reaches, Seqs

LEMMA LessReaches ==
  ASSUME Reaches, UNCHANGED <<log, shown>>,
         \A s \in Screens : due'[s] \subseteq due[s] /\ fetch'[s] \subseteq fetch[s],
         \A w \in Workers : bus'[w] \subseteq bus[w]
  PROVE  Reaches'
BY DEF Reaches, Seqs

LEMMA ReachesStep == Chat /\ Announced /\ Given /\ Reaches /\ [ChatNext]_chatVars => Reaches'
<1> SUFFICES ASSUME Chat, Announced, Given, Reaches, [ChatNext]_chatVars PROVE Reaches'
  OBVIOUS
<1>1. CASE UNCHANGED <<log, shown, due, bus, fetch>>
  BY <1>1 DEF Reaches, Seqs
<1>2. ASSUME NEW s \in Screens,
             OpenWidget(s) \/ OpenConversation(s) \/ Connected(s) \/ AskOlder(s)
      PROVE  Reaches'
  BY <1>2, AskReaches
<1>3. ASSUME NEW s \in Screens,
             \/ OpenWorkspace(s) \/ Type(s) \/ RegisterClient(s) \/ RegisterOperator(s)
             \/ OpensOnSocket(s) \/ MarksRead(s) \/ \E t \in pending[s] : Retry(s, t)
      PROVE  Reaches'
  <2>1. UNCHANGED <<log, shown, due, bus, fetch>>
    BY <1>3 DEF OpenWorkspace, Type, RegisterClient, RegisterOperator, OpensOnSocket,
       MarksRead, ActOnly, Retry, rowsOfChat, screenVars
  <2> QED  BY <1>1, <2>1
<1>4. ASSUME NEW s \in Screens,
             \/ \E f \in sent[s] : PostClient(s, f) \/ PostOperator(s, f)
             \/ \E status \in Statuses : SetsStatus(s, status)
             \/ \E whom \in Panels \cup {"nobody"} : Assigns(s, whom)
      PROVE  Reaches'
  <2>1. UNCHANGED <<log, shown, due, bus, fetch>>
    BY <1>4 DEF PostClient, PostOperator, Posts, SetsStatus, Assigns, ActOnly, screenVars
  <2> QED  BY <1>1, <2>1
<1>5. ASSUME NEW s \in Screens, Drop(s) PROVE Reaches'
  <2>1. /\ due' = [due EXCEPT ![s] = @ \cap shown[s]]
        /\ UNCHANGED <<log, shown, bus, fetch>>
    BY <1>5 DEF Drop, rowsOfChat
  <2>2. \A x \in Screens : due'[x] \subseteq due[x]
    BY <2>1 DEF Chat, ScreenTypes
  <2> QED  BY <2>1, <2>2, LessReaches
<1>6. ASSUME NEW s \in Screens, NEW r \in fetch[s], ClientReads(s, r) \/ OperatorReads(s, r)
      PROVE  Reaches'
  <2>1. Answer(s, r) /\ UNCHANGED <<log, shown, due, bus>>
    BY <1>6 DEF ClientReads, OperatorReads
  <2> QED  BY <2>1, AnswerReaches
<1>7. ASSUME NEW s \in Screens, NEW r \in fetch[s], Arrives(s, r) PROVE Reaches'
  BY <1>7, ArrivesReaches
<1>8. ASSUME NEW s \in Screens, NEW r \in fetch[s], IsLost(s, r) PROVE Reaches'
  <2>1. fetch' = [fetch EXCEPT ![s] = @ \ {r}] /\ UNCHANGED <<log, shown, due, bus>>
    BY <1>8 DEF IsLost, rowsOfChat
  <2>2. \A x \in Screens : fetch'[x] \subseteq fetch[x]
    BY <2>1 DEF Chat, ScreenTypes
  <2> QED  BY <2>1, <2>2, LessReaches
<1>9. ASSUME NEW p \in posts, Commits(p) PROVE Reaches'
  BY <1>9, CommitReaches
<1>10. ASSUME NEW p \in posts, Fails(p) PROVE Reaches'
  BY <1>1, <1>10 DEF Fails, rowsOfChat
<1>11. ASSUME NEW p \in posts,
             \/ ClientFrameEnds(p) \/ ClientCallEnds(p) \/ OperatorFrameEnds(p)
             \/ \E w \in Workers : OperatorCallEnds(p, w)
       PROVE  Reaches'
  BY <1>11, EndReaches
<1>12. ASSUME NEW w \in Workers, NEW q \in bus[w], Dispatch(w, q) PROVE Reaches'
  BY <1>12, DispatchReaches
<1>13. CASE BusFails
  <2>1. /\ bus' = [w \in Workers |-> {}] /\ due' = [s \in Screens |-> due[s] \cap shown[s]]
        /\ UNCHANGED <<log, shown, fetch>>
    BY <1>13 DEF BusFails, rowsOfChat, screenVars
  <2> QED  BY <2>1, LessReaches
<1>14. CASE Tick \/ UNCHANGED chatVars
  BY <1>1, <1>14 DEF Tick, rowsOfChat, screenVars, chatVars
<1> QED  BY <1>2, <1>3, <1>4, <1>5, <1>6, <1>7, <1>8, <1>9, <1>10, <1>11, <1>12, <1>13,
            <1>14 DEF ChatNext

-----------------------------------------------------------------------------
LEMMA GivenAtFirst == ChatInit => Given /\ Reaches /\ Distinct
<1> SUFFICES ASSUME ChatInit PROVE Given /\ Reaches /\ Distinct
  OBVIOUS
<1>1. /\ log = {} /\ posts = {} /\ drawn = 0 /\ marks = [p \in Panels |-> 0]
      /\ bus = [w \in Workers |-> {}] /\ shown = [s \in Screens |-> {}]
      /\ fetch = [s \in Screens |-> {}] /\ pending = [s \in Screens |-> {}]
      /\ due = [s \in Screens |-> {}]
  BY DEF ChatInit
<1>2. conv.last = 0
  BY DEF ChatInit, NoRow
<1> QED  BY <1>1, <1>2 DEF Given, Reaches, Distinct, Named

LEMMA EachOnce ==
  ASSUME NEW rows, NEW last \in Nat, Named(rows, last)
  PROVE  Cardinality({t.id : t \in rows}) = Cardinality(rows)
<1> DEFINE ids == {t.id : t \in rows}
           f == [t \in rows |-> t.id]
<1>1. IsFiniteSet(ids)
  <2>1. IsFiniteSet(1..last)
    BY FS_Interval
  <2>2. ids \subseteq 1..last
    BY DEF Named
  <2> HIDE DEF ids
  <2> QED  BY <2>1, <2>2, FS_Subset
<1>2. f \in [rows -> ids] /\ \A t \in rows : f[t] = t.id
  OBVIOUS
<1>3. \A id \in ids : \E t \in rows : f[t] = id
  BY <1>2
<1>4. \A t, u \in rows : f[t] = f[u] => t = u
  BY <1>2 DEF Named
<1> HIDE DEF ids, f
<1>5. f \in Injection(rows, ids) /\ f \in Surjection(rows, ids)
  BY <1>2, <1>3, <1>4 DEF Injection, Surjection, IsInjective
<1>6. Cardinality(ids) = Cardinality(rows)
  BY <1>1, <1>5, FS_Injection
<1> QED  BY <1>6 DEF ids

LEMMA ChatTyped == Chat /\ Announced /\ Given /\ Reaches /\ Distinct => ChatTypeOK
<1> SUFFICES ASSUME Chat, Announced, Given, Reaches, Distinct PROVE ChatTypeOK
  OBVIOUS
<1>1. conv \in [status : Statuses \cup {"none"}, created : 0..now,
                last : 0..drawn, assigned : Panels \cup {"nobody"}]
  <2>1. conv \in ConvRows \/ conv = NoRow
    BY DEF Announced, Times
  <2>2. conv.created \in 0..now /\ conv.last \in 0..drawn
    BY DEF Announced, Times, Given
  <2> QED  BY <2>1, <2>2 DEF ConvRows, NoRow
<1>2. conv = NoRow <=> conv.status = "none"
  BY DEF Announced, Times, ConvRows, Statuses, NoRow
<1>3. \A m \in log : /\ m.seq \in 1..drawn /\ m.by \in Screens /\ m.at \in 0..now
                     /\ \A n \in log : n.seq = m.seq => n = m
  BY DEF Announced, Times, Given
<1>4. \A p \in posts : p.stored <=> p.seq \in Seqs(log)
  BY DEF Given
<1>5. marks \in [Panels -> 0..drawn] /\ hub \in [Screens -> {"none", "listed", "open"}]
  BY DEF Given, Chat, ScreenTypes
<1>6. ASSUME NEW s \in Screens
      PROVE  /\ hub[s] # "none" => link[s] = "open"
             /\ shown[s] \cup due[s] \subseteq Seqs(log)
             /\ Cardinality({t.id : t \in pending[s]}) = Cardinality(pending[s])
  <2>1. typed \in Nat /\ Named(pending[s], typed)
    BY DEF Chat, ScreenTypes, Distinct
  <2>2. Cardinality({t.id : t \in pending[s]}) = Cardinality(pending[s])
    BY <2>1, EachOnce
  <2> QED  BY <2>2 DEF Chat, Listening, Reaches
<1> QED  BY <1>1, <1>2, <1>3, <1>4, <1>5, <1>6 DEF ChatTypeOK

(* The conversation, its messages, marks and screens agree on the numbers of  *)
(* messages, and a screen lists a text once, for any tabs, workers, texts     *)
(* and failures: no two messages get one number, no mark is ahead of the      *)
(* sequence, and nothing is shown that is not stored.                        *)
THEOREM NothingShownUnstored == ChatSpec => []ChatTypeOK
<1>1. Chat /\ Announced /\ Given /\ Reaches /\ Distinct /\ [ChatNext]_chatVars
        => (Chat /\ Announced /\ Given /\ Reaches /\ Distinct)'
  BY ChatStep, PingStep, GivenStep, ReachesStep, DistinctStep
<1>2. ChatInit => Chat /\ Announced /\ Given /\ Reaches /\ Distinct
  BY ChatAtFirst, PingAtFirst, GivenAtFirst
<1> QED  BY <1>1, <1>2, ChatTyped, PTL DEF ChatSpec

-----------------------------------------------------------------------------
(* PublicForm                                                               *)

(* What a limiter still holds of what it admitted: all but a first part, of  *)
(* which nothing is in the window any more.                                 *)
Remembers(bucket, seen, window, at) ==
  \E k \in 0..Len(seen) :
    /\ bucket \in Seq(Nat) /\ Len(bucket) = Len(seen) - k
    /\ \A i \in 1..Len(bucket) : bucket[i] = seen[i + k]
    /\ \A i \in 1..k : at - seen[i] > window
Spread(seen, limit, window) ==
  \A i, j \in DOMAIN seen : j - i >= limit => seen[j] - seen[i] > window
DoorsKeep ==
  \A d \in Doors :
    /\ admitted[d] \in Seq(Nat)
    /\ Remembers(everybody[d], admitted[d], Limit[d].window, second)
    /\ Spread(admitted[d], Limit[d].all, Limit[d].window)
DoorsFit ==
  /\ DOMAIN byAddress = Doors /\ DOMAIN everybody = Doors /\ DOMAIN admitted = Doors
  /\ \A d \in Doors :
       /\ DOMAIN byAddress[d] \subseteq Addresses /\ IsFiniteSet(DOMAIN byAddress[d])
       /\ Cardinality(DOMAIN byAddress[d]) <= MaxTracked
(* An answered picture is remembered, or it has expired.                     *)
PicturesSpent ==
  /\ DOMAIN issued \subseteq Pictures /\ \A p \in DOMAIN issued : issued[p] \in Nat
  /\ DOMAIN used \subseteq DOMAIN issued /\ \A p \in DOMAIN used : used[p] = issued[p]
  /\ judged \in [Pictures -> 0..2] /\ forgotten \in BOOLEAN
  /\ ~forgotten => \A p \in Pictures :
       /\ judged[p] <= 1
       /\ judged[p] # 0 => p \in DOMAIN issued /\ (p \in DOMAIN used \/ issued[p] < second)
Guarded ==
  /\ second \in Nat /\ formBudget.addresses \subseteq Addresses
  /\ DoorsKeep /\ DoorsFit /\ PicturesSpent

-----------------------------------------------------------------------------
LEMMA LimitIs ==
  ASSUME NEW d \in Doors
  PROVE  Limit[d].all \in Nat /\ Limit[d].window \in Nat
<1>1. Limit[d] \in [each : Nat \ {0}, eachWindow : Nat, all : Nat, window : Nat]
  BY FormAssumption
<1> DEFINE l == Limit[d]
<1> HIDE DEF l
<1>2. l.all \in Nat /\ l.window \in Nat
  BY <1>1 DEF l
<1> QED  BY <1>2 DEF l

LEMMA PruneKeeps ==
  ASSUME NEW seen \in Seq(Nat), NEW bucket, NEW window \in Nat, second \in Nat,
         Remembers(bucket, seen, window, second)
  PROVE  Remembers(Pruned(bucket, window), seen, window, second)
<1> DEFINE n == Len(seen)
           young == {i \in DOMAIN bucket : second - bucket[i] <= window}
           left == Pruned(bucket, window)
<1>1. PICK k \in 0..n : /\ bucket \in Seq(Nat) /\ Len(bucket) = n - k
                        /\ \A i \in 1..Len(bucket) : bucket[i] = seen[i + k]
                        /\ \A i \in 1..k : second - seen[i] > window
  BY DEF Remembers
<1>2. /\ n \in Nat /\ \A i \in 1..n : seen[i] \in Nat
      /\ DOMAIN bucket = 1..n - k /\ \A i \in 1..n - k : bucket[i] = seen[i + k]
  BY <1>1
<1>3. CASE young = {}
  <2>1. left = <<>>
    BY <1>3 DEF Pruned
  <2>2. left \in Seq(Nat) /\ Len(left) = n - n /\ 1..Len(left) = {}
    BY <1>2, <2>1
  <2>3. ASSUME NEW i \in 1..n PROVE second - seen[i] > window
    <3>1. CASE i \in 1..k
      BY <1>1, <3>1
    <3>2. CASE i > k
      <4>1. i - k \in 1..n - k /\ (i - k) + k = i
        BY <1>2, <3>2
      <4>2. bucket[i - k] = seen[i]
        BY <1>2, <4>1
      <4>3. ~(second - bucket[i - k] <= window)
        BY <1>2, <1>3, <4>1
      <4> QED  BY <1>2, <4>2, <4>3
    <3> QED  BY <1>2, <3>1, <3>2
  <2>4. n \in 0..n
    BY <1>2
  <2> QED  BY <2>2, <2>3, <2>4 DEF Remembers
<1>4. CASE young # {}
  <2> DEFINE y == CHOOSE i \in young : \A j \in young : i <= j
             m == k + y - 1
  <2>1. young \subseteq Nat
    BY <1>2
  <2>2. y \in young /\ \A j \in young : y <= j
    BY <1>4, <2>1, LeastOf
  <2>3. left = SubSeq(bucket, y, n - k)
    BY <1>1, <1>4 DEF Pruned
  <2> HIDE DEF y
  <2>4. y \in 1..n - k
    BY <1>2, <2>2
  <2>5. ASSUME NEW j \in 1..n - k, j < y PROVE second - seen[j + k] > window
    <3>1. second - bucket[j] > window
      <4>1. j \notin young
        <5> HIDE DEF young
        <5> QED  BY <2>2, <2>4, <2>5
      <4>2. j \in DOMAIN bucket
        BY <1>2
      <4>3. ~(second - bucket[j] <= window)
        BY <4>1, <4>2
      <4>4. bucket[j] \in Nat
        <5>1. j \in 1..Len(bucket) /\ bucket \in Seq(Nat)
          BY <1>1, <1>2
        <5> QED  BY <5>1, ElementOfSeq
      <4> QED  BY <4>3, <4>4
    <3> QED  BY <1>2, <3>1
  <2>6. m \in 0..n
    BY <1>2, <2>4
  <2>7. /\ left \in Seq(Nat) /\ Len(left) = n - m
        /\ \A i \in 1..Len(left) : left[i] = seen[i + m]
    <3>1. y \in Int /\ n - k \in Int /\ y <= n - k /\ (n - k) - y + 1 = n - m
      BY <1>2, <2>4
    <3>2. \A i \in y..n - k : bucket[i] \in Nat
      BY <1>1, <2>4
    <3>3. /\ left \in Seq(Nat) /\ Len(left) = (n - k) - y + 1
          /\ \A i \in 1..(n - k) - y + 1 : left[i] = bucket[y + i - 1]
      <4> HIDE DEF left, n
      <4> QED  BY <2>3, <3>1, <3>2, SubSeqProperties
    <3>4. ASSUME NEW i \in 1..n - m PROVE bucket[y + i - 1] = seen[i + m]
      <4>1. y + i - 1 \in 1..n - k /\ (y + i - 1) + k = i + m
        BY <1>2, <2>4
      <4> QED  BY <1>2, <4>1
    <3> HIDE DEF left, n, m
    <3> QED  BY <3>1, <3>3, <3>4
  <2>8. ASSUME NEW i \in 1..m PROVE second - seen[i] > window
    <3>1. CASE i \in 1..k
      BY <1>1, <3>1
    <3>2. CASE i > k
      <4>1. i - k \in 1..n - k /\ i - k < y /\ (i - k) + k = i
        BY <1>2, <2>4, <3>2
      <4> QED  BY <2>5, <4>1
    <3> QED  BY <2>6, <3>1, <3>2
  <2> HIDE DEF left, m
  <2> QED  BY <2>6, <2>7, <2>8 DEF Remembers, left
<1> QED  BY <1>3, <1>4

LEMMA RemembersMore ==
  ASSUME NEW seen \in Seq(Nat), NEW bucket, NEW window \in Nat, NEW limit \in Nat,
         NEW at \in Nat, Remembers(bucket, seen, window, at), Spread(seen, limit, window),
         Len(bucket) < limit
  PROVE  /\ Remembers(Append(bucket, at), Append(seen, at), window, at)
         /\ Spread(Append(seen, at), limit, window)
<1> DEFINE n == Len(seen)
           more == Append(seen, at)
           left == Append(bucket, at)
<1>1. PICK k \in 0..n : /\ bucket \in Seq(Nat) /\ Len(bucket) = n - k
                        /\ \A i \in 1..Len(bucket) : bucket[i] = seen[i + k]
                        /\ \A i \in 1..k : at - seen[i] > window
  BY DEF Remembers
<1>2. /\ n \in Nat /\ \A i \in 1..n : seen[i] \in Nat /\ more[i] = seen[i]
      /\ more \in Seq(Nat) /\ Len(more) = n + 1 /\ more[n + 1] = at
      /\ DOMAIN more = 1..n + 1 /\ DOMAIN seen = 1..n
  OBVIOUS
<1>3. /\ left \in Seq(Nat) /\ Len(left) = (n - k) + 1 /\ left[(n - k) + 1] = at
      /\ \A i \in 1..n - k : left[i] = bucket[i]
  <2>1. bucket \in Seq(Nat) /\ n - k = Len(bucket)
    BY <1>1, <1>2
  <2> HIDE DEF n
  <2> QED  BY <2>1, AppendProperties
<1> HIDE DEF n, more, left
<1>4. Remembers(left, more, window, at)
  <2>1. k \in 0..Len(more) /\ Len(more) - k = Len(left)
    BY <1>2, <1>3
  <2>2. \A i \in 1..k : at - more[i] > window
    BY <1>1, <1>2
  <2>3. ASSUME NEW i \in 1..Len(left) PROVE left[i] = more[i + k]
    <3>1. CASE i = (n - k) + 1
      <4>1. i + k = n + 1
        BY <1>2, <3>1
      <4> QED  BY <1>2, <1>3, <3>1, <4>1
    <3>2. CASE i # (n - k) + 1
      <4>1. i \in 1..n - k /\ i + k \in 1..n
        BY <1>2, <1>3, <3>2
      <4> QED  BY <1>1, <1>2, <1>3, <4>1
    <3> QED  BY <3>1, <3>2
  <2> QED  BY <1>3, <2>1, <2>2, <2>3 DEF Remembers
<1>5. ASSUME NEW i \in 1..n + 1, NEW j \in 1..n + 1, j - i >= limit
      PROVE  more[j] - more[i] > window
  <2>1. CASE j \in 1..n
    <3>1. i \in 1..n
      BY <1>2, <1>5, <2>1
    <3> QED  BY <1>2, <1>5, <2>1, <3>1 DEF Spread
  <2>2. CASE j = n + 1
    <3>1. i \in 1..k /\ i \in 1..n
      BY <1>1, <1>2, <1>5, <2>2
    <3> QED  BY <1>1, <1>2, <2>2, <3>1
  <2> QED  BY <1>2, <2>1, <2>2
<1>6. Spread(more, limit, window)
  BY <1>2, <1>5 DEF Spread
<1> QED  BY <1>4, <1>6 DEF more, left

LEMMA RemembersLonger ==
  ASSUME NEW seen \in Seq(Nat), NEW bucket, NEW window \in Nat,
         NEW at \in Nat, NEW later \in Nat, at <= later, Remembers(bucket, seen, window, at)
  PROVE  Remembers(bucket, seen, window, later)
<1>1. PICK k \in 0..Len(seen) : /\ bucket \in Seq(Nat) /\ Len(bucket) = Len(seen) - k
                                /\ \A i \in 1..Len(bucket) : bucket[i] = seen[i + k]
                                /\ \A i \in 1..k : at - seen[i] > window
  BY DEF Remembers
<1>2. \A i \in 1..k : seen[i] \in Nat
  OBVIOUS
<1>3. ASSUME NEW i \in 1..k PROVE later - seen[i] > window
  <2>1. at - seen[i] > window /\ seen[i] \in Nat
    BY <1>1, <1>2
  <2> QED  BY <2>1
<1> QED  BY <1>1, <1>3 DEF Remembers

LEMMA RemembersNothing ==
  ASSUME NEW window \in Nat, NEW limit \in Nat, NEW at
  PROVE  Remembers(<<>>, <<>>, window, at) /\ Spread(<<>>, limit, window)
<1>1. 0 \in 0..Len(<<>>) /\ <<>> \in Seq(Nat) /\ Len(<<>>) = Len(<<>>) - 0
      /\ 1..Len(<<>>) = {} /\ 1..0 = {} /\ DOMAIN <<>> = {}
  OBVIOUS
<1> QED  BY <1>1 DEF Remembers, Spread

(* What is spread out leaves no window with more than the limit.             *)
LEMMA SpreadHolds ==
  ASSUME NEW seen \in Seq(Nat), NEW limit \in Nat, NEW window \in Nat, NEW from \in Nat,
         Spread(seen, limit, window)
  PROVE  Cardinality({i \in DOMAIN seen : seen[i] \in from..(from + window)}) <= limit
<1> DEFINE S == {i \in DOMAIN seen : seen[i] \in from..(from + window)}
<1>1. S \in SUBSET Nat /\ \A i \in S : i \in DOMAIN seen /\ seen[i] \in from..(from + window)
  OBVIOUS
<1> HIDE DEF S
<1>2. CASE S = {}
  <2>1. Cardinality(S) = 0
    BY <1>2, FS_EmptySet
  <2> QED  BY <2>1 DEF S
<1>3. CASE S # {}
  <2>1. PICK m \in S : \A j \in S : m <= j
    BY <1>1, <1>3, LeastOf
  <2> DEFINE last == m + limit - 1
  <2>2. ASSUME NEW j \in S PROVE j \in m..last
    <3>1. /\ j \in DOMAIN seen /\ m \in DOMAIN seen /\ m <= j /\ j \in Nat /\ m \in Nat
          /\ seen[j] \in from..(from + window) /\ seen[m] \in from..(from + window)
      BY <1>1, <2>1
    <3>2. seen[j] - seen[m] <= window
      BY <3>1
    <3>3. ASSUME j - m >= limit PROVE FALSE
      BY <3>1, <3>2, <3>3 DEF Spread
    <3> QED  BY <3>1, <3>3
  <2>3. m \in Int /\ last \in Int /\ limit = IF m > last THEN 0 ELSE last - m + 1
    BY <1>1
  <2> HIDE DEF last
  <2>4. IsFiniteSet(m..last) /\ Cardinality(m..last) = limit
    BY <2>3, FS_Interval
  <2>5. S \in SUBSET (m..last)
    BY <2>2
  <2>6. Cardinality(S) <= Cardinality(m..last)
    BY <2>4, <2>5, FS_Subset
  <2> QED  BY <2>4, <2>6 DEF S
<1> QED  BY <1>2, <1>3
LEMMA TrackedFits ==
  ASSUME NEW d \in Doors, NEW a \in Addresses,
         DOMAIN byAddress[d] \subseteq Addresses, IsFiniteSet(DOMAIN byAddress[d]),
         Cardinality(DOMAIN byAddress[d]) <= MaxTracked
  PROVE  /\ DOMAIN Tracked(d, a) \subseteq Addresses /\ IsFiniteSet(DOMAIN Tracked(d, a))
         /\ Cardinality(DOMAIN Tracked(d, a)) <= MaxTracked
<1> DEFINE known == byAddress[d]
           stay == {b \in DOMAIN known : Pruned(known[b], Limit[d].eachWindow) # <<>>}
           kept == IF a \in DOMAIN known \/ Cardinality(DOMAIN known) < MaxTracked
                   THEN DOMAIN known
                   ELSE IF Cardinality(stay) < MaxTracked THEN stay ELSE {}
           K == DOMAIN known
<1>1. DOMAIN Tracked(d, a) = kept \cup {a}
  BY DEF Tracked
<1>2. stay \in SUBSET K
  OBVIOUS
<1>3. MaxTracked \in Nat /\ MaxTracked > 0
  BY FormAssumption
<1>4. K \subseteq Addresses /\ IsFiniteSet(K) /\ Cardinality(K) <= MaxTracked
  OBVIOUS
<1> HIDE DEF known, stay, K
<1>5. kept \in SUBSET K
  BY <1>2 DEF K
<1>6. IsFiniteSet(kept) /\ IsFiniteSet(kept \cup {a})
  <2> HIDE DEF kept
  <2> QED  BY <1>4, <1>5, FS_Subset, FS_AddElement
<1>7. Cardinality(kept \cup {a}) <= MaxTracked
  <2>1. CASE a \in K
    <3>1. kept \cup {a} = K
      BY <2>1 DEF K
    <3> QED  BY <1>4, <3>1
  <2>2. CASE Cardinality(kept) < MaxTracked
    <3> HIDE DEF kept
    <3>1. Cardinality(kept) \in Nat
      BY <1>6, FS_CardinalityType
    <3>2. Cardinality(kept \cup {a}) = IF a \in kept THEN Cardinality(kept)
                                       ELSE Cardinality(kept) + 1
      BY <1>6, FS_AddElement
    <3> QED  BY <1>3, <2>2, <3>1, <3>2
  <2>3. a \in K \/ Cardinality(kept) < MaxTracked
    BY <1>3, FS_EmptySet DEF K
  <2> QED  BY <2>1, <2>2, <2>3
<1> HIDE DEF kept
<1> QED  BY <1>1, <1>4, <1>5, <1>6, <1>7

LEMMA AdmitKeeps ==
  ASSUME Guarded, NEW d \in Doors, NEW a \in Addresses, Allows(d, a), Admit(d, a),
         second' = second
  PROVE  DoorsKeep' /\ DoorsFit'
<1> DEFINE pruned == Pruned(everybody[d], Limit[d].window)
           tracked == [Tracked(d, a) EXCEPT
                         ![a] = Append(Pruned(@, Limit[d].eachWindow), second)]
<1>1. /\ byAddress' = [byAddress EXCEPT ![d] = tracked]
      /\ everybody' = [everybody EXCEPT ![d] = Append(pruned, second)]
      /\ admitted' = [admitted EXCEPT ![d] = Append(admitted[d], second)]
      /\ Len(pruned) < Limit[d].all
  BY DEF Admit, Allows
<1>2. /\ DOMAIN byAddress = Doors /\ DOMAIN everybody = Doors /\ DOMAIN admitted = Doors
      /\ second \in Nat
  BY DEF Guarded, DoorsFit
<1>3. Limit[d].all \in Nat /\ Limit[d].window \in Nat
  BY LimitIs
<1>4. /\ admitted[d] \in Seq(Nat) /\ Spread(admitted[d], Limit[d].all, Limit[d].window)
      /\ Remembers(everybody[d], admitted[d], Limit[d].window, second)
  BY DEF Guarded, DoorsKeep
<1>5. Remembers(pruned, admitted[d], Limit[d].window, second)
  BY <1>2, <1>3, <1>4, PruneKeeps
<1>6. DOMAIN tracked = DOMAIN Tracked(d, a)
  OBVIOUS
<1> HIDE DEF pruned, tracked
<1>7. /\ Append(admitted[d], second) \in Seq(Nat)
      /\ Remembers(Append(pruned, second), Append(admitted[d], second),
                   Limit[d].window, second)
      /\ Spread(Append(admitted[d], second), Limit[d].all, Limit[d].window)
  BY <1>1, <1>2, <1>3, <1>4, <1>5, RemembersMore
<1>8. \A e \in Doors :
        /\ byAddress'[e] = IF e = d THEN tracked ELSE byAddress[e]
        /\ everybody'[e] = IF e = d THEN Append(pruned, second) ELSE everybody[e]
        /\ admitted'[e] = IF e = d THEN Append(admitted[d], second) ELSE admitted[e]
  BY <1>1, <1>2
<1>9. ASSUME NEW e \in Doors
      PROVE  /\ admitted'[e] \in Seq(Nat)
             /\ Remembers(everybody'[e], admitted'[e], Limit[e].window, second')
             /\ Spread(admitted'[e], Limit[e].all, Limit[e].window)
  <2>1. CASE e = d
    BY <1>7, <1>8, <2>1
  <2>2. CASE e # d
    BY <1>8, <2>2 DEF Guarded, DoorsKeep
  <2> QED  BY <2>1, <2>2
<1>10. DoorsKeep'
  BY <1>9 DEF DoorsKeep
<1>11. /\ DOMAIN byAddress' = Doors /\ DOMAIN everybody' = Doors
       /\ DOMAIN admitted' = Doors
  BY <1>1, <1>2
<1>12. ASSUME NEW e \in Doors
       PROVE  /\ DOMAIN byAddress'[e] \subseteq Addresses
              /\ IsFiniteSet(DOMAIN byAddress'[e])
              /\ Cardinality(DOMAIN byAddress'[e]) <= MaxTracked
  <2>1. CASE e = d
    <3>1. /\ DOMAIN byAddress[d] \subseteq Addresses /\ IsFiniteSet(DOMAIN byAddress[d])
          /\ Cardinality(DOMAIN byAddress[d]) <= MaxTracked
      BY DEF Guarded, DoorsFit
    <3> QED  BY <1>6, <1>8, <2>1, <3>1, TrackedFits
  <2>2. CASE e # d
    BY <1>8, <2>2 DEF Guarded, DoorsFit
  <2> QED  BY <2>1, <2>2
<1> QED  BY <1>10, <1>11, <1>12 DEF DoorsFit

LEMMA DoorsStay ==
  ASSUME Guarded, UNCHANGED <<second, byAddress, everybody, admitted>>
  PROVE  DoorsKeep' /\ DoorsFit'
BY DEF Guarded, DoorsKeep, DoorsFit

LEMMA GetCaptchaKept ==
  ASSUME Guarded, NEW a \in Addresses, NEW p \in Pictures, GetCaptcha(a, p)
  PROVE  Guarded'
<1>1. /\ Allows("captcha", a) /\ Admit("captcha", a) /\ p \notin DOMAIN issued
      /\ issued' = [q \in DOMAIN issued \cup {p} |->
                      IF q = p THEN second + Ttl ELSE issued[q]]
      /\ UNCHANGED <<second, used, judged, forgotten, formBudget>>
  BY DEF GetCaptcha
<1>2. DoorsKeep' /\ DoorsFit'
  BY <1>1, AdmitKeeps DEF Doors
<1>3. PicturesSpent'
  <2>1. /\ DOMAIN issued' = DOMAIN issued \cup {p} /\ second + Ttl \in Nat
        /\ \A q \in DOMAIN issued : issued'[q] = issued[q]
        /\ issued'[p] = second + Ttl
    BY <1>1, FormAssumption DEF Guarded
  <2> QED  BY <1>1, <2>1 DEF Guarded, PicturesSpent
<1> QED  BY <1>1, <1>2, <1>3 DEF Guarded

LEMMA RememberSpent ==
  ASSUME Guarded, NEW p \in Pictures, Accepts(p), Remember(p),
         judged' = [judged EXCEPT ![p] = IF @ = 0 THEN 1 ELSE 2],
         UNCHANGED <<second, issued>>
  PROVE  PicturesSpent'
<1> DEFINE full == Cardinality(DOMAIN used) >= MaxUsed
           stay == IF full THEN StillUsed ELSE DOMAIN used
           kept == IF Cardinality(stay) >= MaxUsed THEN {} ELSE stay
<1>1. /\ used' = [q \in kept \cup {p} |-> issued[q]]
      /\ forgotten' = (forgotten \/ (full /\ kept = {} /\ StillUsed # {}))
  BY DEF Remember
<1>2. /\ p \in DOMAIN issued /\ issued[p] >= second /\ p \notin DOMAIN used
      /\ second \in Nat /\ PicturesSpent
  BY DEF Accepts, Guarded
<1>3. kept \subseteq DOMAIN used
  BY DEF StillUsed
<1>4. ASSUME ~forgotten', NEW q \in DOMAIN used, q \notin kept PROVE issued[q] < second
  <2>1. full /\ q \notin StillUsed
    <3>1. CASE ~full
      BY <1>4, <3>1
    <3>2. CASE full /\ kept = {}
      BY <1>1, <1>4, <3>2
    <3>3. CASE full /\ kept # {}
      BY <1>4, <3>3
    <3> QED  BY <3>1, <3>2, <3>3
  <2> QED  BY <1>2, <2>1 DEF StillUsed, PicturesSpent
<1> HIDE DEF full, stay, kept
<1>5. /\ DOMAIN used' = kept \cup {p}
      /\ \A q \in DOMAIN used' : used'[q] = issued[q]
      /\ forgotten' \in BOOLEAN /\ (forgotten => forgotten')
  BY <1>1, <1>2 DEF PicturesSpent
<1>6. /\ judged' \in [Pictures -> 0..2]
      /\ \A q \in Pictures : judged'[q] = IF q # p THEN judged[q]
                                          ELSE IF judged[q] = 0 THEN 1 ELSE 2
  BY <1>2 DEF PicturesSpent
<1>7. ASSUME ~forgotten', NEW q \in Pictures
      PROVE  /\ judged'[q] <= 1
             /\ judged'[q] # 0 => /\ q \in DOMAIN issued
                                  /\ q \in DOMAIN used' \/ issued[q] < second
  <2>1. ~forgotten
    BY <1>5, <1>7
  <2>2. CASE q = p
    <3>1. judged[p] = 0
      BY <1>2, <2>1 DEF PicturesSpent
    <3> QED  BY <1>2, <1>5, <1>6, <2>2, <3>1
  <2>3. CASE q # p
    BY <1>2, <1>4, <1>5, <1>6, <1>7, <2>1, <2>3 DEF PicturesSpent
  <2> QED  BY <2>2, <2>3
<1> QED  BY <1>2, <1>3, <1>5, <1>6, <1>7 DEF PicturesSpent

LEMMA SendIdeaKept ==
  ASSUME Guarded, NEW a \in Addresses, NEW p \in Pictures, NEW right \in BOOLEAN,
         SendIdea(a, p, right)
  PROVE  Guarded'
<1>1. /\ Accepts(p) /\ Remember(p)
      /\ judged' = [judged EXCEPT ![p] = IF @ = 0 THEN 1 ELSE 2]
      /\ UNCHANGED <<second, issued, formBudget>>
  BY DEF SendIdea
<1>2. PicturesSpent'
  BY <1>1, RememberSpent
<1>3. DoorsKeep' /\ DoorsFit'
  <2>1. CASE right /\ Allows("idea", a)
    BY <1>1, <2>1, AdmitKeeps DEF SendIdea, Doors
  <2>2. CASE ~(right /\ Allows("idea", a))
    BY <1>1, <2>2, DoorsStay DEF SendIdea
  <2> QED  BY <2>1, <2>2
<1> QED  BY <1>1, <1>2, <1>3 DEF Guarded

LEMMA SendLeadKept ==
  ASSUME Guarded, NEW a \in Addresses, SendLead(a)
  PROVE  Guarded'
<1>1. DoorsKeep' /\ DoorsFit'
  BY AdmitKeeps DEF SendLead, Doors
<1>2. UNCHANGED <<second, issued, used, judged, forgotten, formBudget>>
  BY DEF SendLead
<1>3. PicturesSpent'
  BY <1>2 DEF Guarded, PicturesSpent
<1> QED  BY <1>1, <1>2, <1>3 DEF Guarded

LEMMA SecondPassesKept ==
  ASSUME Guarded, SecondPasses
  PROVE  Guarded'
<1>1. /\ second \in Nat /\ second' = second + 1
      /\ UNCHANGED <<issued, used, judged, forgotten, byAddress, everybody, admitted,
                     formBudget>>
  BY DEF SecondPasses, Guarded, memory
<1>2. ASSUME NEW d \in Doors
      PROVE  /\ admitted[d] \in Seq(Nat)
             /\ Remembers(everybody[d], admitted[d], Limit[d].window, second')
             /\ Spread(admitted[d], Limit[d].all, Limit[d].window)
  <2>1. /\ admitted[d] \in Seq(Nat) /\ Spread(admitted[d], Limit[d].all, Limit[d].window)
        /\ Remembers(everybody[d], admitted[d], Limit[d].window, second)
    BY DEF Guarded, DoorsKeep
  <2>2. second' \in Nat /\ second <= second'
    BY <1>1
  <2> QED  BY <1>1, <2>1, <2>2, LimitIs, RemembersLonger
<1>3. DoorsKeep'
  BY <1>1, <1>2 DEF DoorsKeep
<1>4. DoorsFit'
  BY <1>1 DEF Guarded, DoorsFit
<1>5. PicturesSpent'
  BY <1>1 DEF Guarded, PicturesSpent
<1>6. second' \in Nat
  BY <1>1
<1> QED  BY <1>1, <1>3, <1>4, <1>5, <1>6 DEF Guarded

LEMMA NobodyIs == DOMAIN Nobody = {} /\ IsFiniteSet({}) /\ Cardinality({}) = 0
BY FS_EmptySet DEF Nobody

LEMMA RestartedKept ==
  ASSUME Guarded, Restarted
  PROVE  Guarded'
<1>1. /\ formBudget' = [formBudget EXCEPT !.restarts = @ - 1]
      /\ used' = Nobody /\ forgotten' = (forgotten \/ StillUsed # {})
      /\ byAddress' = [d \in Doors |-> Nobody]
      /\ everybody' = [d \in Doors |-> <<>>] /\ admitted' = [d \in Doors |-> <<>>]
      /\ UNCHANGED <<second, issued, judged>>
  BY DEF Restarted
<1>2. DoorsFit'
  BY <1>1, NobodyIs, FormAssumption DEF DoorsFit
<1>3. ASSUME NEW d \in Doors
      PROVE  /\ admitted'[d] \in Seq(Nat)
             /\ Remembers(everybody'[d], admitted'[d], Limit[d].window, second')
             /\ Spread(admitted'[d], Limit[d].all, Limit[d].window)
  <2>1. admitted'[d] = <<>> /\ everybody'[d] = <<>> /\ <<>> \in Seq(Nat)
    BY <1>1
  <2> QED  BY <2>1, LimitIs, RemembersNothing
<1>4. DoorsKeep'
  BY <1>3 DEF DoorsKeep
<1>5. PicturesSpent'
  <2>1. DOMAIN used' = {} /\ PicturesSpent
    BY <1>1, NobodyIs DEF Guarded
  <2>2. ASSUME ~forgotten', NEW p \in DOMAIN used PROVE issued[p] < second
    <3>1. p \notin StillUsed
      BY <1>1, <2>2
    <3>2. ~(used[p] >= second) /\ used[p] = issued[p] /\ issued[p] \in Nat
      BY <2>1, <3>1 DEF StillUsed, PicturesSpent
    <3> QED  BY <3>2 DEF Guarded
  <2> QED  BY <1>1, <2>1, <2>2 DEF PicturesSpent
<1>6. formBudget'.addresses = formBudget.addresses
  BY <1>1
<1> QED  BY <1>1, <1>2, <1>4, <1>5, <1>6 DEF Guarded

LEMMA InitKept == FormInit => Guarded
<1> SUFFICES ASSUME FormInit PROVE Guarded
  OBVIOUS
<1>1. DoorsFit
  BY NobodyIs, FormAssumption DEF FormInit, DoorsFit
<1>2. ASSUME NEW d \in Doors
      PROVE  /\ admitted[d] \in Seq(Nat)
             /\ Remembers(everybody[d], admitted[d], Limit[d].window, second)
             /\ Spread(admitted[d], Limit[d].all, Limit[d].window)
  <2>1. admitted[d] = <<>> /\ everybody[d] = <<>> /\ <<>> \in Seq(Nat)
    BY DEF FormInit
  <2> QED  BY <2>1, LimitIs, RemembersNothing
<1>3. DoorsKeep
  BY <1>2 DEF DoorsKeep
<1>4. PicturesSpent
  <2>1. DOMAIN issued = {} /\ DOMAIN used = {} /\ forgotten = FALSE
        /\ judged = [p \in Pictures |-> 0]
    BY NobodyIs DEF FormInit
  <2>2. judged \in [Pictures -> 0..2] /\ \A p \in Pictures : judged[p] = 0
    BY <2>1
  <2>3. forgotten \in BOOLEAN
    BY <2>1
  <2>4. \A p \in Pictures : judged[p] <= 1 /\ ~(judged[p] # 0)
    BY <2>2
  <2>5. /\ DOMAIN issued \subseteq Pictures /\ \A p \in DOMAIN issued : issued[p] \in Nat
        /\ DOMAIN used \subseteq DOMAIN issued /\ \A p \in DOMAIN used : used[p] = issued[p]
    BY <2>1
  <2> QED  BY <2>2, <2>3, <2>4, <2>5 DEF PicturesSpent
<1>5. second \in Nat /\ formBudget.addresses \subseteq Addresses
  BY FormAssumption DEF FormInit
<1> QED  BY <1>1, <1>3, <1>4, <1>5 DEF Guarded

LEMMA NextKept == Guarded /\ [FormNext]_formVars => Guarded'
<1> SUFFICES ASSUME Guarded, [FormNext]_formVars PROVE Guarded'
  OBVIOUS
<1>1. \A a \in formBudget.addresses : a \in Addresses
  BY DEF Guarded
<1>2. ASSUME NEW a \in formBudget.addresses, SendLead(a) PROVE Guarded'
  BY <1>1, <1>2, SendLeadKept
<1>3. ASSUME NEW a \in formBudget.addresses, NEW p \in Pictures, GetCaptcha(a, p)
      PROVE  Guarded'
  BY <1>1, <1>3, GetCaptchaKept
<1>4. ASSUME NEW a \in formBudget.addresses, NEW p \in Pictures, NEW right \in BOOLEAN,
             SendIdea(a, p, right)
      PROVE  Guarded'
  BY <1>1, <1>4, SendIdeaKept
<1>5. CASE SecondPasses
  BY <1>5, SecondPassesKept
<1>6. CASE Restarted
  BY <1>6, RestartedKept
<1>7. CASE UNCHANGED formVars
  <2>1. /\ UNCHANGED <<second, byAddress, everybody, admitted>>
        /\ UNCHANGED <<issued, used, judged, forgotten, formBudget>>
    BY <1>7 DEF formVars, memory
  <2>2. PicturesSpent'
    BY <2>1 DEF Guarded, PicturesSpent
  <2> QED  BY <2>1, <2>2, DoorsStay DEF Guarded
<1> QED  BY <1>2, <1>3, <1>4, <1>5, <1>6, <1>7 DEF FormNext

LEMMA GuardedForms == Guarded => FormTypeOK /\ FormsGuarded
<1> SUFFICES ASSUME Guarded PROVE FormTypeOK /\ FormsGuarded
  OBVIOUS
<1>1. FormTypeOK
  BY DEF Guarded, PicturesSpent, DoorsFit, FormTypeOK
<1>2. OneAnswerPerPicture
  BY DEF Guarded, PicturesSpent, OneAnswerPerPicture
<1>3. ASSUME NEW d \in Doors, NEW from \in 0..LastSecond
      PROVE  Cardinality({i \in DOMAIN admitted[d] :
                 admitted[d][i] \in from..(from + Limit[d].window)}) <= Limit[d].all
  <2>1. from \in Nat
    BY FormAssumption
  <2>2. admitted[d] \in Seq(Nat) /\ Spread(admitted[d], Limit[d].all, Limit[d].window)
    BY DEF Guarded, DoorsKeep
  <2> QED  BY <2>1, <2>2, LimitIs, SpreadHolds
<1>4. WindowHolds
  BY <1>3 DEF WindowHolds
<1> QED  BY <1>1, <1>2, <1>4 DEF FormsGuarded

(* The public forms, whatever restarts and however many addresses, pictures   *)
(* and limits: one answer is compared for each picture the process has not    *)
(* had to forget, and no window of a door holds more than its limit          *)
(* (verify_captcha, RateLimiter.allow).                                     *)
THEOREM FormsStayGuarded == FormSpec => [](FormTypeOK /\ FormsGuarded)
<1> QED  BY GuardedForms, InitKept, NextKept, PTL DEF FormSpec
=============================================================================
