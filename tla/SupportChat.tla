----------------------------- MODULE SupportChat -----------------------------
(***************************************************************************)
(* The support chat of one client: the conversation and its messages in    *)
(* the database, the sockets registered with the hub of each worker, the    *)
(* Redis bus between the workers, the ping of the staff bots, and the two   *)
(* kinds of screens that show it: the client's widget and the operators'    *)
(* panel.  Both load a page over HTTP, follow the socket and reconcile when *)
(* the socket comes back.                                                  *)
(***************************************************************************)
EXTENDS Integers, FiniteSets, FiniteSetsExt

CONSTANTS
  Widgets, Panels,  \* tabs of the client, panels of operators
  Workers, Of,      \* Of[s]: the worker that holds the socket of s
  PageLimit,        \* DEFAULT_PAGE_LIMIT
  Cooldown,         \* _ROUTINE_NOTIFY_COOLDOWN
  ChatBudgets       \* bounds of a behaviour: texts typed (texts), answers,
                    \* sockets and buses lost (drops), acts of operators
                    \* (acts), hours that pass (ticks); who: the screens in
                    \* use; overlap: transactions of two messages may
                    \* overlap; ready: everybody is connected at the start

Screens == Widgets \cup Panels

ASSUME ChatAssumption ==
  /\ Widgets \cap Panels = {} /\ Of \in [Screens -> Workers]
  /\ PageLimit \in Nat \ {0} /\ Cooldown \in Nat \ {0}
  /\ ChatBudgets \subseteq
       [texts : Nat, drops : Nat, acts : Nat, ticks : Nat, overlap : BOOLEAN,
        ready : BOOLEAN, who : SUBSET Screens]

VARIABLES
  conv,     \* the SupportConversation row
  log,      \* SupportMessage rows
  drawn,    \* support_message_seq: the last value drawn
  posts,    \* messages whose handler has not ended
  marks,    \* SupportConversationRead.last_read_seq
  hub,      \* "none", "listed": connected, "open": with this conversation
  bus,      \* message.new events each worker has not received yet
  pings,    \* when the staff was pinged
  now,
  link,     \* the browser's socket: "off", "connecting", "open"
  conns,    \* how often it has been open
  chosen,   \* the conversation is on the screen
  shown,    \* seqs of the messages on the screen
  oldest,   \* its cursor for older pages, 0: none
  fetch,    \* its HTTP requests for messages under way
  typed,    \* texts typed so far, numbered
  pending,  \* texts typed and not confirmed
  sent,     \* frames and requests that carry them or open the conversation
  due,      \* messages that came to it by its socket, or will, and that no
            \* first page has wiped
  chatBudget

rowsOfChat == <<conv, log, drawn, marks>>
screenVars == <<link, conns, chosen, shown, oldest, fetch, typed, pending, sent>>
chatVars == <<conv, log, drawn, posts, marks, hub, bus, pings, now, link,
              conns, chosen, shown, oldest, fetch, typed, pending, sent, due, chatBudget>>

Statuses == {"OPEN", "IN_PROGRESS", "CLOSED"}
NoRow == [status |-> "none", created |-> 0, last |-> 0, assigned |-> "nobody"]
Seqs(messages) == {m.seq : m \in messages}
ByClient(messages) == {m \in messages : m.by \in Widgets}
Newest(seqs) == Max(seqs \cup {0})

(* list_messages: the newest PageLimit messages, or those before a cursor.  *)
Page(seqs) == {q \in seqs : Cardinality({r \in seqs : r > q}) < PageLimit}
Older(seqs, cursor) == Page({q \in seqs : q < cursor})
(* The reducers of messageList.ts.                                          *)
Reconciled(local, page) ==
  local \cup (IF local = {} THEN page ELSE {q \in page : q > Max(local)})

(* Nobody has opened anything, or the client has opened the widget, and the *)
(* operator an empty conversation, and both are connected.                  *)
ChatInit ==
  /\ chatBudget \in ChatBudgets
  /\ LET Ready(s) == chatBudget.ready /\ s \in chatBudget.who IN
       /\ hub = [s \in Screens |-> IF Ready(s) THEN "open" ELSE "none"]
       /\ link = [s \in Screens |-> IF Ready(s) THEN "open" ELSE "off"]
       /\ conns = [s \in Screens |-> IF Ready(s) THEN 1 ELSE 0]
       /\ chosen = [s \in Screens |-> Ready(s)]
  /\ conv = IF chatBudget.ready THEN [NoRow EXCEPT !.status = "OPEN"] ELSE NoRow
  /\ pings = IF chatBudget.ready THEN {0} ELSE {}
  /\ log = {} /\ drawn = 0 /\ posts = {} /\ now = 0 /\ typed = 0
  /\ marks = [p \in Panels |-> 0] /\ bus = [w \in Workers |-> {}]
  /\ shown = [s \in Screens |-> {}] /\ oldest = [s \in Screens |-> 0]
  /\ fetch = [s \in Screens |-> {}] /\ pending = [s \in Screens |-> {}]
  /\ sent = [s \in Screens |-> {}] /\ due = [s \in Screens |-> {}]

Spend(what) ==
  /\ chatBudget[what] > 0
  /\ chatBudget' = [chatBudget EXCEPT ![what] = @ - 1]

(***************************************************************************)
(* The screens                                                             *)
(***************************************************************************)
Request(what) == [what |-> what, read |-> FALSE, page |-> {}]
OpenFrame == [kind |-> "open", id |-> 0, via |-> "ws"]
Frame(id) == [kind |-> "send", id |-> id, via |-> "ws"]
Call(id) == [kind |-> "send", id |-> id, via |-> "rest"]

(* The widget is opened: it loads the conversation and connects.            *)
OpenWidget(s) ==
  /\ s \in Widgets \cap chatBudget.who /\ link[s] = "off"
  /\ link' = [link EXCEPT ![s] = "connecting"]
  /\ fetch' = [fetch EXCEPT ![s] = {Request("load")}]
  /\ chosen' = [chosen EXCEPT ![s] = TRUE]
  /\ UNCHANGED <<typed, rowsOfChat, posts, hub, bus, pings, now, conns, shown, oldest,
                 pending, sent, due, chatBudget>>

(* The operator's workspace connects; a conversation is chosen later, or by *)
(* a link from a ping before the socket is open: then the frame that opens  *)
(* it is not sent.                                                          *)
OpenWorkspace(s) ==
  /\ s \in Panels \cap chatBudget.who /\ link[s] = "off"
  /\ link' = [link EXCEPT ![s] = "connecting"]
  /\ UNCHANGED <<typed, chosen, rowsOfChat, posts, hub, bus, pings, now, conns, shown, oldest,
                 fetch, pending, sent, due, chatBudget>>

OpenConversation(s) ==
  /\ s \in Panels /\ link[s] # "off" /\ ~chosen[s] /\ conv # NoRow
  /\ fetch' = [fetch EXCEPT ![s] = {Request("load")}]
  /\ sent' = [sent EXCEPT ![s] = IF link[s] = "open" THEN {OpenFrame} ELSE {}]
  /\ chosen' = [chosen EXCEPT ![s] = TRUE]
  /\ UNCHANGED <<typed, rowsOfChat, posts, hub, bus, pings, now, link, conns, shown,
                 oldest, pending, due, chatBudget>>

(* onopen: the server has accepted the socket and not yet registered it.  A *)
(* socket that was open before makes the screen reconcile.                  *)
Connected(s) ==
  /\ link[s] = "connecting"
  /\ link' = [link EXCEPT ![s] = "open"]
  /\ conns' = [conns EXCEPT ![s] = @ + 1]
  /\ IF conns[s] > 0 /\ chosen[s]
       THEN /\ fetch' = [fetch EXCEPT ![s] =
                           {r \in @ : r.what # "reconcile"} \cup {Request("reconcile")}]
            /\ sent' = [sent EXCEPT ![s] =
                          @ \cup (IF s \in Panels THEN {OpenFrame} ELSE {})]
       ELSE UNCHANGED <<fetch, sent>>
  /\ UNCHANGED <<typed, chosen, rowsOfChat, posts, hub, bus, pings, now, shown, oldest,
                 pending, due, chatBudget>>

(* Mutant: the finally block of the endpoint forgets to unregister.         *)
DropKeepsHub(s) ==
  /\ link[s] = "open" /\ Spend("drops")
  /\ link' = [link EXCEPT ![s] = "connecting"]
  /\ sent' = [sent EXCEPT ![s] = {f \in @ : f.via = "rest"}]
  /\ due' = [due EXCEPT ![s] = @ \cap shown[s]]
  /\ UNCHANGED <<typed, chosen, rowsOfChat, posts, hub, bus, pings, now, conns,
                 shown, oldest, fetch, pending>>
(* The connection breaks; the screen will connect again.  What the server   *)
(* was about to answer on it is lost, and so are its frames and the events   *)
(* that were on their way; what is shown stays on the screen.               *)
Drop(s) ==
  /\ link[s] = "open" /\ Spend("drops")
  /\ link' = [link EXCEPT ![s] = "connecting"]
  /\ hub' = [hub EXCEPT ![s] = "none"]
  /\ sent' = [sent EXCEPT ![s] = {f \in @ : f.via = "rest"}]
  /\ posts' = {IF p.by = s /\ p.via = "ws" THEN [p EXCEPT !.via = "gone"] ELSE p :
                 p \in posts}
  /\ due' = [due EXCEPT ![s] = @ \cap shown[s]]
  /\ UNCHANGED <<typed, chosen, rowsOfChat, bus, pings, now, conns, shown, oldest, fetch,
                 pending>>

AskOlder(s) ==
  /\ oldest[s] > 0 /\ \E q \in Seqs(log) : q < oldest[s]
  /\ \A r \in fetch[s] : r.what # "older"
  /\ fetch' = [fetch EXCEPT ![s] = @ \cup {Request("older")}]
  /\ UNCHANGED <<typed, chosen, rowsOfChat, posts, hub, bus, pings, now, link, conns, shown,
                 oldest, pending, sent, due, chatBudget>>

(* The first page wipes what the socket had brought before it and what it    *)
(* does not have itself: it was read before the message was stored.         *)
Unwiped(s, r) ==
  IF r.what = "load" THEN [due EXCEPT ![s] = @ \ (shown[s] \ r.page)] ELSE due

(* Mutant: a reconcile shows the page it got instead of merging it.         *)
ArrivesReplacing(s, r) ==
  /\ r.read /\ fetch' = [fetch EXCEPT ![s] = @ \ {r}]
  /\ shown' = [shown EXCEPT ![s] = IF r.what = "older" THEN @ \cup r.page ELSE r.page]
  /\ oldest' = [oldest EXCEPT ![s] = IF r.page = {} THEN @ ELSE Min(r.page)]
  /\ due' = Unwiped(s, r)
  /\ UNCHANGED <<typed, chosen, rowsOfChat, posts, hub, bus, pings, now, link,
                 conns, pending, sent, chatBudget>>
(* An HTTP answer: the first page replaces what is shown, a reconcile adds  *)
(* what is newer than the newest shown, an older page is merged.            *)
Arrives(s, r) ==
  /\ r.read /\ fetch' = [fetch EXCEPT ![s] = @ \ {r}]
  /\ shown' = [shown EXCEPT ![s] =
       CASE r.what = "load" -> r.page
         [] r.what = "reconcile" -> Reconciled(@, r.page)
         [] r.what = "older" -> @ \cup r.page]
  /\ oldest' = [oldest EXCEPT ![s] =
       IF r.what = "reconcile" \/ r.page = {} THEN @ ELSE Min(r.page)]
  /\ due' = Unwiped(s, r)
  /\ UNCHANGED <<typed, chosen, rowsOfChat, posts, hub, bus, pings, now, link, conns, pending,
                 sent, chatBudget>>

IsLost(s, r) ==
  /\ Spend("drops")
  /\ fetch' = [fetch EXCEPT ![s] = @ \ {r}]
  /\ UNCHANGED <<typed, chosen, rowsOfChat, posts, hub, bus, pings, now, link, conns, shown,
                 oldest, pending, sent, due>>

(* A text is sent over an open socket.  Otherwise the panel calls the API,  *)
(* and the widget shows "not sent" until the client retries.                *)
Carrier(s, id) == IF link[s] = "open" THEN Frame(id) ELSE Call(id)
Waiting(s) == s \in Widgets /\ link[s] # "open"
Type(s) ==
  /\ link[s] # "off" /\ chosen[s] /\ Spend("texts")
  /\ typed' = typed + 1
  /\ LET id == typed' IN
       /\ pending' = [pending EXCEPT ![s] = @ \cup
            {[id |-> id, state |-> IF Waiting(s) THEN "failed" ELSE "sending"]}]
       /\ sent' = [sent EXCEPT ![s] =
            IF Waiting(s) THEN @ ELSE @ \cup {Carrier(s, id)}]
  /\ UNCHANGED <<chosen, rowsOfChat, posts, hub, bus, pings, now, link, conns,
                 shown, oldest, fetch, due>>

Marked(s, id, state) ==
  {IF t.id = id THEN [t EXCEPT !.state = state] ELSE t : t \in pending[s]}
Confirmed(s, id) == {t \in pending[s] : t.id # id}

Retry(s, t) ==
  /\ t.state = "failed"
  /\ pending' = [pending EXCEPT ![s] = Marked(s, t.id, "sending")]
  /\ sent' = [sent EXCEPT ![s] = @ \cup {Carrier(s, t.id)}]
  /\ UNCHANGED <<typed, chosen, rowsOfChat, posts, hub, bus, pings, now, link, conns, shown,
                 oldest, fetch, due, chatBudget>>

(***************************************************************************)
(* The server                                                              *)
(***************************************************************************)
(* get_or_create_conversation: creation pings the staff.                    *)
Created == [NoRow EXCEPT !.status = "OPEN", !.created = now]
GetOrCreate ==
  /\ \A p \in posts : ~p.created   \* the unique index waits for it
  /\ IF conv = NoRow
       THEN conv' = Created /\ pings' = pings \cup {now}
       ELSE UNCHANGED <<conv, pings>>

MarkRead(s) == marks' = [marks EXCEPT ![s] = Newest(Seqs(log))]

Answer(s, r) ==
  LET page == IF r.what = "older" THEN Older(Seqs(log), oldest[s])
                                  ELSE Page(Seqs(log))
  IN fetch' = [fetch EXCEPT ![s] =
                 (@ \ {r}) \cup {[r EXCEPT !.read = TRUE, !.page = page]}]

(* The client's two routes create the conversation if there is none.        *)
ClientReads(s, r) ==
  /\ s \in Widgets /\ ~r.read
  /\ GetOrCreate /\ Answer(s, r)
  /\ UNCHANGED <<typed, chosen, log, drawn, posts, marks, hub, bus, now, link, conns, shown,
                 oldest, pending, sent, due, chatBudget>>

(* open_conversation marks before it reads; an older page marks nothing.    *)
OperatorReads(s, r) ==
  /\ s \in Panels /\ ~r.read
  /\ IF r.what = "older" THEN UNCHANGED marks ELSE MarkRead(s)
  /\ Answer(s, r)
  /\ UNCHANGED <<typed, chosen, conv, log, drawn, posts, hub, bus, pings, now, link, conns,
                 shown, oldest, pending, sent, due, chatBudget>>

(* The endpoints register the socket they have accepted: the client's with  *)
(* its conversation, the operator's with none.                              *)
RegisterClient(s) ==
  /\ s \in Widgets /\ link[s] = "open" /\ hub[s] = "none"
  /\ GetOrCreate /\ hub' = [hub EXCEPT ![s] = "open"]
  /\ UNCHANGED <<log, drawn, posts, marks, bus, now, screenVars, due, chatBudget>>

RegisterOperator(s) ==
  /\ s \in Panels /\ link[s] = "open" /\ hub[s] = "none"
  /\ hub' = [hub EXCEPT ![s] = "listed"]
  /\ UNCHANGED <<rowsOfChat, posts, bus, pings, now, screenVars, due, chatBudget>>

(* conversation.open: the hub first, then the mark.                         *)
OpensOnSocket(s) ==
  /\ OpenFrame \in sent[s] /\ hub[s] # "none"
  /\ sent' = [sent EXCEPT ![s] = @ \ {OpenFrame}]
  /\ hub' = [hub EXCEPT ![s] = "open"] /\ MarkRead(s)
  /\ UNCHANGED <<typed, chosen, conv, log, drawn, posts, bus, pings, now, link, conns, shown,
                 oldest, fetch, pending, due, chatBudget>>

(* Mutant: the cooldown runs from conversation.last_message_at, which the    *)
(* operator's replies move as well.                                         *)
LastMessageAt ==
  IF log = {} THEN -1 ELSE (CHOOSE m \in log : m.seq = Newest(Seqs(log))).at
(* post_client_message and post_operator_message up to the flush: the row   *)
(* is read, the sequence drawn, nothing committed.                          *)
LastClientAt == IF ByClient(log) = {} THEN -1
                ELSE (CHOOSE m \in ByClient(log) :
                        m.seq = Newest(Seqs(ByClient(log)))).at
Drawn(s, f) == [by |-> s, id |-> f.id, via |-> f.via, seq |-> drawn + 1, at |-> now,
                created |-> conv = NoRow, closed |-> conv.status = "CLOSED",
                previous |-> LastClientAt, stored |-> FALSE]
Posts(s, f) ==
  /\ f.kind = "send" /\ f.via = "ws" => hub[s] # "none"
  /\ \A p \in posts : p.stored \/ (chatBudget.overlap /\ ~p.created)
  /\ sent' = [sent EXCEPT ![s] = @ \ {f}]
  /\ drawn' = drawn + 1 /\ posts' = posts \cup {Drawn(s, f)}
  /\ UNCHANGED <<typed, chosen, conv, log, marks, hub, bus, pings, now, link, conns, shown,
                 oldest, fetch, pending, due, chatBudget>>
PostClient(s, f) == s \in Widgets /\ Posts(s, f)
PostOperator(s, f) == s \in Panels /\ conv # NoRow /\ Posts(s, f)

Live(p) == p.by \in Panels \/ p.via # "rest"
Commits(p) ==
  /\ ~p.stored
  /\ log' = log \cup {[seq |-> p.seq, by |-> p.by, at |-> p.at, id |-> p.id]}
  /\ conv' = [(IF p.created THEN [Created EXCEPT !.created = p.at] ELSE conv)
                EXCEPT !.last = p.seq,
                       !.status = IF p.closed /\ p.by \in Widgets THEN "OPEN" ELSE @]
  /\ posts' = (posts \ {p}) \cup {[p EXCEPT !.stored = TRUE]}
  /\ due' = [s \in Screens |->
       IF Live(p) /\ hub[s] = "open" THEN due[s] \cup {p.seq} ELSE due[s]]
  /\ UNCHANGED <<drawn, marks, hub, bus, pings, now, screenVars, chatBudget>>

(* Mutant: an error frame takes the text off the screen like an ack.        *)
FailsConfirmed(p) ==
  /\ ~p.stored /\ Spend("drops")
  /\ posts' = posts \ {p}
  /\ pending' = [pending EXCEPT ![p.by] = Confirmed(p.by, p.id)]
  /\ UNCHANGED <<typed, chosen, rowsOfChat, hub, bus, pings, now, link, conns,
                 shown, oldest, fetch, sent, due>>
(* The transaction fails: an error frame or a 500, if it arrives.           *)
Fails(p) ==
  /\ ~p.stored /\ Spend("drops")
  /\ posts' = posts \ {p}
  /\ pending' = [pending EXCEPT ![p.by] =
                   IF p.via = "gone" THEN @ ELSE Marked(p.by, p.id, "failed")]
  /\ UNCHANGED <<typed, chosen, rowsOfChat, hub, bus, pings, now, link, conns, shown, oldest,
                 fetch, sent, due>>

(* select_recipients for message.new on one worker.                         *)
Recipients(w) == {s \in Screens : Of[s] = w /\ hub[s] = "open"}
Published(seq) == [w \in Workers |-> bus[w] \cup {seq}]
(* notify_support_client_message.                                           *)
Anchor(p) == IF p.previous >= 0 THEN p.previous ELSE conv.created
Pings(p) == p.created \/ p.closed \/ p.at - Anchor(p) >= Cooldown
(* After the commit.  The sender is told, by a frame or by an answer that    *)
(* may be lost; then the message is delivered on this worker and published. *)
Told(p) == pending' = [pending EXCEPT ![p.by] = Confirmed(p.by, p.id)]
TellsByFrame(p) ==
  IF p.via = "ws" THEN Told(p) /\ UNCHANGED chatBudget
                  ELSE UNCHANGED <<pending, chatBudget>>
TellsByAnswer(p) ==
  \/ Told(p) /\ UNCHANGED chatBudget
  \/ /\ Spend("drops")
     /\ pending' = [pending EXCEPT ![p.by] = Marked(p.by, p.id, "failed")]
Sees(p, others) ==
  shown' = [s \in Screens |->
    IF s \in others \/ (s = p.by /\ pending'[s] = Confirmed(s, p.id))
      THEN shown[s] \cup {p.seq} ELSE shown[s]]
Ends(p) == /\ p.stored /\ posts' = posts \ {p}
           /\ UNCHANGED <<typed, chosen, rowsOfChat, hub, now, link, conns, oldest, fetch,
                          sent, due>>

(* A client's message on the socket: ack, delivery, ping.                   *)
ClientFrameEnds(p) ==
  /\ p.by \in Widgets /\ p.via # "rest" /\ Ends(p) /\ TellsByFrame(p)
  /\ Sees(p, Recipients(Of[p.by])) /\ bus' = Published(p.seq)
  /\ pings' = IF Pings(p) THEN pings \cup {p.at} ELSE pings
(* The route for clients delivers nothing: panels learn of it later.        *)
ClientCallEnds(p) ==
  /\ p.by \in Widgets /\ p.via = "rest" /\ Ends(p) /\ TellsByAnswer(p)
  /\ Sees(p, {}) /\ UNCHANGED bus
  /\ pings' = IF Pings(p) THEN pings \cup {p.at} ELSE pings
OperatorFrameEnds(p) ==
  /\ p.by \in Panels /\ p.via # "rest" /\ Ends(p) /\ TellsByFrame(p)
  /\ Sees(p, Recipients(Of[p.by])) /\ bus' = Published(p.seq)
  /\ UNCHANGED pings
OperatorCallEnds(p, w) ==
  /\ p.by \in Panels /\ p.via = "rest" /\ Ends(p) /\ TellsByAnswer(p)
  /\ Sees(p, Recipients(w)) /\ bus' = Published(p.seq)
  /\ UNCHANGED pings

Dispatch(w, seq) ==
  /\ seq \in bus[w] /\ bus' = [bus EXCEPT ![w] = @ \ {seq}]
  /\ shown' = [s \in Screens |->
       IF s \in Recipients(w) THEN shown[s] \cup {seq} ELSE shown[s]]
  /\ UNCHANGED <<typed, chosen, rowsOfChat, posts, hub, pings, now, link, conns, oldest, fetch,
                 pending, sent, due, chatBudget>>

(* Redis is down: publish skips, subscribers miss what was on the bus.      *)
BusFails ==
  /\ Spend("drops") /\ bus' = [w \in Workers |-> {}]
  /\ due' = [s \in Screens |-> due[s] \cap shown[s]]
  /\ UNCHANGED <<rowsOfChat, posts, hub, pings, now, screenVars>>

(* What an operator does to the row, over the socket or the API.  Nothing   *)
(* depends on who is assigned, nor on the status a conversation had.        *)
MayAct(s) == s \in Panels /\ conv # NoRow /\ Spend("acts")
ActOnly == UNCHANGED <<log, drawn, posts, hub, bus, pings, now, screenVars, due>>
SetsStatus(s, status) ==
  /\ MayAct(s) /\ conv' = [conv EXCEPT !.status = status]
  /\ UNCHANGED marks /\ ActOnly
Assigns(s, whom) ==
  /\ MayAct(s) /\ whom \in {s, "nobody"} /\ conv' = [conv EXCEPT !.assigned = whom]
  /\ UNCHANGED marks /\ ActOnly
MarksRead(s) == MayAct(s) /\ MarkRead(s) /\ UNCHANGED conv /\ ActOnly

(* Handlers are short next to the cooldown.                                 *)
Tick ==
  /\ Spend("ticks") /\ posts = {} /\ now' = now + 1
  /\ UNCHANGED <<rowsOfChat, posts, hub, bus, pings, screenVars, due>>

ChatNext ==
  \/ \E s \in Screens :
       \/ OpenWidget(s) \/ OpenWorkspace(s) \/ OpenConversation(s)
       \/ Connected(s) \/ Drop(s) \/ AskOlder(s) \/ Type(s)
       \/ RegisterClient(s) \/ RegisterOperator(s) \/ OpensOnSocket(s)
       \/ \E r \in fetch[s] : \/ ClientReads(s, r) \/ OperatorReads(s, r)
                             \/ Arrives(s, r) \/ IsLost(s, r)
       \/ \E t \in pending[s] : Retry(s, t)
       \/ \E f \in sent[s] : PostClient(s, f) \/ PostOperator(s, f)
       \/ \E status \in Statuses : SetsStatus(s, status)
       \/ \E whom \in Panels \cup {"nobody"} : Assigns(s, whom)
       \/ MarksRead(s)
  \/ \E p \in posts : Commits(p) \/ Fails(p)
  \/ \E p \in posts : \/ ClientFrameEnds(p) \/ ClientCallEnds(p) \/ OperatorFrameEnds(p)
                     \/ \E w \in Workers : OperatorCallEnds(p, w)
  \/ \E w \in Workers : \E q \in bus[w] : Dispatch(w, q)
  \/ BusFails \/ Tick
ChatSpec == ChatInit /\ [][ChatNext]_chatVars

(***************************************************************************)
(* Properties                                                              *)
(***************************************************************************)
(* Every variable has its type.                                             *)
ChatTypeOK ==
  /\ conv \in [status : Statuses \cup {"none"}, created : 0..now,
               last : 0..drawn, assigned : Panels \cup {"nobody"}]
  /\ conv = NoRow <=> conv.status = "none"
  /\ \A m \in log : /\ m.seq \in 1..drawn /\ m.by \in Screens /\ m.at \in 0..now
                    /\ \A n \in log : n.seq = m.seq => n = m
  /\ \A p \in posts : p.stored <=> p.seq \in Seqs(log)
  /\ marks \in [Panels -> 0..drawn] /\ hub \in [Screens -> {"none", "listed", "open"}]
  /\ \A s \in Screens : /\ hub[s] # "none" => link[s] = "open"
                         /\ shown[s] \cup due[s] \subseteq Seqs(log)
                         /\ Cardinality({t.id : t \in pending[s]}) = Cardinality(pending[s])

(* What an operator writes, and what a client writes over the socket,        *)
(* reaches every screen whose socket is registered with this conversation    *)
(* when the message is stored, on whatever worker either of them is, also    *)
(* while the screen's first page is under way: it is shown, or still on its   *)
(* way.  Once shown it stays on the screen, whatever pages, events and        *)
(* reconnections follow in whatever order.  It may be lost in three ways      *)
(* only: it is on its way when the socket breaks, or when Redis fails, or it  *)
(* is shown before the first page and that page, read before the message was  *)
(* stored, replaces the list.                                               *)
LiveMessageShown ==
  \A s \in Screens : \A q \in due[s] :
    q \in shown[s] \/ q \in bus[Of[s]] \/ \E p \in posts : p.seq = q

(* No text is lost between the keyboard and the database: while the client   *)
(* or the operator has typed a text that is not stored, the screen still     *)
(* shows it as being sent or not sent, whatever connections, answers and     *)
(* transactions fail.                                                       *)
TypedIsKept ==
  \A id \in 1..typed :
    \/ \E m \in log : m.id = id
    \/ \E s \in Screens : \E t \in pending[s] : t.id = id

(* When all handlers have ended, every message of the client is covered by a *)
(* ping: there was one at its time or before it, and from there to the       *)
(* message the client was never silent for the cooldown.  The bots are       *)
(* silent only inside a burst that they announced, also when messages        *)
(* overlap, the operator writes in between or the conversation was closed.   *)
PingPerBurst ==
  posts = {} =>
    \A m \in ByClient(log) : \E g \in pings :
      LET times == {g} \cup {n.at : n \in ByClient(log)} IN
      /\ g <= m.at
      /\ \A t \in times : g <= t /\ t + Cooldown <= m.at =>
           \E n \in times : t < n /\ n < t + Cooldown
=============================================================================
