------------------------------ MODULE StaffProofs ------------------------------
(***************************************************************************)
(* Proofs about the notifications of the staff, for any subscribers, chats,  *)
(* photos and limits of uploads, and about the cards of the catalogue, for   *)
(* any cards, texts, photos, operators and numbers of edits and deploys, and *)
(* about the lockers and what reservations rest on, for any fleet; last, what *)
(* they and ChatProofs show holds of the five parts in any interleaving.      *)
(*                                                                         *)
(* A target that still has a request before it has not got the text (Untold):*)
(* that is what every branch of the two messengers has to keep, and with it  *)
(* nobody is told twice.                                                    *)
(*                                                                         *)
(* A field that an operator has changed bears its mark (EditsMarked), and what *)
(* a deploy or a handler has read of a card is still so while it matters       *)
(* (Deploying, EditsTrue).                                                  *)
(*                                                                         *)
(* A reservation rests on rows that a commit under work has not read (Rests,  *)
(* Found): what the foreign keys refuse is all that can go wrong in between. *)
(***************************************************************************)
EXTENDS MCStaff, ChatProofs

Awaiting == {"queued", "photo", "document", "failed", "again", "text", "after",
            "held", "media", "mediaPlain", "html", "plain"}
SameMessenger(c, n) == c # NoChat => (c \in OnMax <=> n \in OnMax)
Seen == [Names -> Chats \cup {NoChat}]

BotLimits == [acts : Nat, photos : Nat, sends : BOOLEAN, subs : [Names -> Rows]]

SubTypes ==
  /\ botBudget \in BotLimits
  /\ subs \in [Names -> Rows] /\ started \in Seen /\ updates \in Seen
  /\ fetched \subseteq Seen
  /\ \A n \in Names : SameMessenger(subs[n].chat, n) /\ SameMessenger(updates[n], n)
  /\ \A seen \in fetched, n \in Names : SameMessenger(seen[n], n)

SendTypes ==
  /\ counted \cup unsure \cup refused \subseteq Targets
  /\ step \in [Targets -> Awaiting \cup {"none", "done"}] /\ told \in [Targets -> Nat]
  /\ photos \in Nat /\ media \in Nat /\ left \in Nat /\ media + left <= photos

Unsent == notice = "none" =>
  media = 0 /\ \A t \in Targets : step[t] = "none" /\ told[t] = 0

Untold ==
  \A t \in Targets :
    /\ told[t] <= 1 /\ (t \in counted => told[t] = 1)
    /\ step[t] \in Awaiting => told[t] = 0
    /\ step[t] = "done" => told[t] = 1 \/ t \in unsure \cup refused

Subscribed == SubTypes /\ NewestStartWins
Sending == SendTypes /\ Unsent
Telling == Sending /\ Untold

-----------------------------------------------------------------------------
(* The subscribers *)

LEMMA ActSpends ==
  ASSUME SubTypes, BotAct
  PROVE  botBudget' \in BotLimits /\ botBudget'.photos = botBudget.photos
<1> DEFINE less == [botBudget EXCEPT !.acts = @ - 1]
<1>1. botBudget \in BotLimits /\ botBudget.acts - 1 \in Nat
  BY DEF SubTypes, BotLimits, BotAct
<1>2. less \in BotLimits /\ less.photos = botBudget.photos
  BY <1>1 DEF BotLimits
<1>3. QED
  BY <1>2 DEF BotAct

(* Row n becomes row, and the chat that started it chat.                    *)
LEMMA RowSet ==
  ASSUME Subscribed, NEW n \in Names, NEW row \in Rows, NEW chat \in Chats \cup {NoChat},
         subs' = [subs EXCEPT ![n] = row], started' = [started EXCEPT ![n] = chat],
         botBudget' \in BotLimits,
         SameMessenger(row.chat, n),
         row.exists /\ chat # NoChat => row.chat = chat,
         updates' \in Seen, \A m \in Names : SameMessenger(updates'[m], m),
         fetched' = fetched
  PROVE  Subscribed'
<1>1. SubTypes /\ NewestStartWins
  BY DEF Subscribed
<1>2. subs' \in [Names -> Rows] /\ started' \in Seen
  BY <1>1 DEF SubTypes, Seen
<1>3. \A m \in Names : /\ subs'[m] = IF m = n THEN row ELSE subs[m]
                       /\ started'[m] = IF m = n THEN chat ELSE started[m]
  BY <1>1 DEF SubTypes, Seen
<1>4. SubTypes'
  BY <1>1, <1>2, <1>3 DEF SubTypes
<1>5. NewestStartWins'
  BY <1>1, <1>3 DEF NewestStartWins
<1>6. QED
  BY <1>4, <1>5 DEF Subscribed

LEMMA CreateLinked ==
  ASSUME Subscribed, NEW n \in Names, NEW scope \in Scopes, CreateSubscriber(scope, n)
  PROVE  Subscribed'
<1> DEFINE row == [NoSub EXCEPT !.exists = TRUE, !.city = scope, !.enabled = TRUE]
<1>1. /\ subs' = [subs EXCEPT ![n] = row] /\ started' = [started EXCEPT ![n] = NoChat]
      /\ BotAct /\ UNCHANGED <<updates, fetched>>
  BY DEF CreateSubscriber
<1>2. row \in Rows /\ row.chat = NoChat
  BY DEF NoSub, Rows
<1> HIDE DEF row
<1>3. SameMessenger(row.chat, n)
  BY <1>2 DEF SameMessenger
<1>4. botBudget' \in BotLimits
  BY <1>1, ActSpends DEF Subscribed
<1>5. updates' \in Seen /\ \A m \in Names : SameMessenger(updates'[m], m)
  BY <1>1 DEF Subscribed, SubTypes
<1>6. QED
  BY <1>1, <1>2, <1>3, <1>4, <1>5, RowSet

LEMMA UpdateLinked ==
  ASSUME Subscribed, NEW n \in Names, NEW scope \in Scopes, UpdateSubscriber(scope, n)
  PROVE  Subscribed'
<1> DEFINE row == [subs[n] EXCEPT !.enabled = ~@]
<1>1. subs[n] \in Rows /\ subs \in [Names -> Rows] /\ started \in Seen
  BY DEF Subscribed, SubTypes
<1>2. /\ subs' = [subs EXCEPT ![n] = row] /\ BotAct
      /\ UNCHANGED <<started, updates, fetched>>
  BY <1>1 DEF UpdateSubscriber
<1>3. row \in Rows /\ row.chat = subs[n].chat /\ row.exists = subs[n].exists
  BY <1>1 DEF Rows
<1> HIDE DEF row
<1>4. started' = [started EXCEPT ![n] = started[n]] /\ started[n] \in Chats \cup {NoChat}
  BY <1>1, <1>2 DEF Seen
<1>5. SameMessenger(row.chat, n) /\ (row.exists /\ started[n] # NoChat => row.chat = started[n])
  BY <1>3 DEF Subscribed, SubTypes, NewestStartWins
<1>6. botBudget' \in BotLimits
  BY <1>2, ActSpends DEF Subscribed
<1>7. updates' \in Seen /\ \A m \in Names : SameMessenger(updates'[m], m)
  BY <1>2 DEF Subscribed, SubTypes
<1>8. QED
  BY <1>2, <1>3, <1>4, <1>5, <1>6, <1>7, RowSet

LEMMA DeleteLinked ==
  ASSUME Subscribed, NEW n \in Names, NEW scope \in Scopes, DeleteSubscriber(scope, n)
  PROVE  Subscribed'
<1>1. /\ subs' = [subs EXCEPT ![n] = NoSub] /\ BotAct
      /\ UNCHANGED <<started, updates, fetched>>
  BY DEF DeleteSubscriber
<1>2. NoSub \in Rows /\ ~NoSub.exists /\ NoSub.chat = NoChat
  BY DEF NoSub, Rows, Scopes
<1>3. started' = [started EXCEPT ![n] = started[n]] /\ started[n] \in Chats \cup {NoChat}
  BY <1>1 DEF Subscribed, SubTypes, Seen
<1>4. SameMessenger(NoSub.chat, n)
  BY <1>2 DEF SameMessenger
<1>5. botBudget' \in BotLimits
  BY <1>1, ActSpends DEF Subscribed
<1>6. updates' \in Seen /\ \A m \in Names : SameMessenger(updates'[m], m)
  BY <1>1 DEF Subscribed, SubTypes
<1>7. QED
  BY <1>1, <1>2, <1>3, <1>4, <1>5, <1>6, RowSet

LEMMA WriteSeen ==
  ASSUME SubTypes, NEW n \in Names, NEW c \in Chats, c \in OnMax <=> n \in OnMax,
         updates' = [updates EXCEPT ![n] = c]
  PROVE  updates' \in Seen /\ \A m \in Names : SameMessenger(updates'[m], m)
  BY DEF SubTypes, Seen, SameMessenger

LEMMA WritesLinked ==
  ASSUME Subscribed, NEW n \in Names, NEW c \in Chats, Writes(c, n)
  PROVE  Subscribed'
<1>1. /\ updates' = [updates EXCEPT ![n] = c] /\ (c \in OnMax <=> n \in OnMax)
      /\ BotAct /\ UNCHANGED <<subs, started, fetched>>
  BY DEF Writes
<1>2. SubTypes
  BY DEF Subscribed
<1>3. updates' \in Seen /\ \A m \in Names : SameMessenger(updates'[m], m)
  BY <1>1, <1>2, WriteSeen
<1>4. botBudget' \in BotLimits
  BY <1>1, <1>2, ActSpends
<1>5. QED
  BY <1>1, <1>3, <1>4 DEF Subscribed, SubTypes, NewestStartWins

LEMMA HandleStartLinked ==
  ASSUME Subscribed, NEW n \in Names, NEW c \in Chats, HandleStart(c, n)
  PROVE  Subscribed'
<1>1. /\ updates' = [updates EXCEPT ![n] = c] /\ (c \in OnMax <=> n \in OnMax)
      /\ BotAct /\ fetched' = fetched
  BY DEF HandleStart
<1>2. SubTypes
  BY DEF Subscribed
<1>3. updates' \in Seen /\ \A m \in Names : SameMessenger(updates'[m], m)
  BY <1>1, <1>2, WriteSeen
<1>4. botBudget' \in BotLimits
  BY <1>1, <1>2, ActSpends
<1>5. CASE subs[n].exists
  <2> DEFINE row == [subs[n] EXCEPT !.chat = c]
  <2>1. subs' = [subs EXCEPT ![n] = row] /\ started' = [started EXCEPT ![n] = c]
    BY <1>2, <1>5 DEF HandleStart, SubTypes
  <2>2. row \in Rows /\ row.chat = c
    BY <1>2 DEF SubTypes, Rows
  <2>3. SameMessenger(row.chat, n)
    BY <1>1, <2>2 DEF SameMessenger
  <2> HIDE DEF row
  <2>4. QED
    BY <1>1, <1>3, <1>4, <2>1, <2>2, <2>3, RowSet
<1>6. CASE ~subs[n].exists
  <2>1. UNCHANGED <<subs, started>>
    BY <1>6 DEF HandleStart
  <2>2. QED
    BY <1>1, <1>3, <1>4, <2>1 DEF Subscribed, SubTypes, NewestStartWins
<1>7. QED
  BY <1>5, <1>6

LEMMA FetchLinked ==
  ASSUME Subscribed, FetchUpdates
  PROVE  Subscribed'
<1>1. fetched' = {updates} /\ BotAct /\ UNCHANGED <<subs, started, updates>>
  BY DEF FetchUpdates
<1>2. botBudget' \in BotLimits
  BY <1>1, ActSpends DEF Subscribed
<1>3. QED
  BY <1>1, <1>2 DEF Subscribed, SubTypes, NewestStartWins

LEMMA ResyncLinked ==
  ASSUME Subscribed, Resync
  PROVE  Subscribed'
<1>1. PICK seen \in fetched :
        /\ fetched' = {} /\ UNCHANGED <<started, updates, botBudget>>
        /\ subs' = [n \in Names |->
             IF subs[n].exists /\ subs[n].chat = NoChat
             THEN [subs[n] EXCEPT !.chat = seen[n]] ELSE subs[n]]
  BY DEF Resync
<1>2. SubTypes /\ NewestStartWins
  BY DEF Subscribed
<1>3. seen \in Seen /\ \A n \in Names : SameMessenger(seen[n], n)
  BY <1>2 DEF SubTypes
<1>4. ASSUME NEW n \in Names
      PROVE  /\ subs'[n] \in Rows /\ SameMessenger(subs'[n].chat, n)
             /\ subs'[n].exists /\ started[n] # NoChat => subs'[n].chat = started[n]
  <2>1. subs[n] \in Rows /\ seen[n] \in Chats \cup {NoChat}
    BY <1>2, <1>3 DEF SubTypes, Seen
  <2>2. CASE subs[n].exists /\ subs[n].chat = NoChat
    <3> DEFINE row == [subs[n] EXCEPT !.chat = seen[n]]
    <3>1. row \in Rows /\ row.chat = seen[n] /\ row.exists = subs[n].exists
      BY <2>1 DEF Rows
    <3>2. subs'[n] = row
      BY <1>1, <2>2
    <3>3. started[n] = NoChat
      BY <1>2, <2>2 DEF NewestStartWins
    <3>4. QED
      BY <1>3, <3>1, <3>2, <3>3
  <2>3. CASE ~(subs[n].exists /\ subs[n].chat = NoChat)
    <3>1. subs'[n] = subs[n]
      BY <1>1, <2>3
    <3>2. QED
      BY <1>2, <2>1, <3>1 DEF SubTypes, NewestStartWins
  <2>4. QED
    BY <2>2, <2>3
<1>5. subs' = [n \in Names |-> subs'[n]]
  BY <1>1
<1>6. subs' \in [Names -> Rows]
  BY <1>4, <1>5
<1>7. SubTypes' /\ NewestStartWins'
  BY <1>1, <1>2, <1>4, <1>6 DEF SubTypes, NewestStartWins
<1>8. QED
  BY <1>7 DEF Subscribed

-----------------------------------------------------------------------------
(* The notification *)

(* A target whose text the reply brings, having had none.                   *)
Brings(reply) == IF reply \in {"ok", "bare", "late", "cut"} THEN 1 ELSE 0

LEMMA WaitingUntold ==
  ASSUME Telling, NEW t \in Targets, step[t] \in Awaiting
  PROVE  /\ told[t] = 0 /\ t \notin counted /\ notice # "none"
         /\ \A reply : Reached(t, reply) => told' = [told EXCEPT ![t] = Brings(reply)]
         /\ UNCHANGED told => told' = [told EXCEPT ![t] = 0]
<1>1. told[t] = 0 /\ t \notin counted /\ told \in [Targets -> Nat]
  BY DEF Telling, Sending, SendTypes, Untold
<1>2. notice # "none"
  BY DEF Telling, Sending, Unsent, Awaiting
<1>3. ASSUME NEW reply, Reached(t, reply) PROVE told' = [told EXCEPT ![t] = Brings(reply)]
  BY <1>1, <1>3 DEF Reached, Brings
<1>4. UNCHANGED told => told' = [told EXCEPT ![t] = 0]
  BY <1>1
<1>5. QED
  BY <1>1, <1>2, <1>3, <1>4

(* Target t goes on to where, with k texts.                                 *)
LEMMA Moved ==
  ASSUME Telling, NEW t \in Targets, step[t] \in Awaiting,
         NEW where \in Awaiting \cup {"done"}, step' = [step EXCEPT ![t] = where],
         NEW k \in {0, 1}, told' = [told EXCEPT ![t] = k],
         counted' \in {counted, counted \cup {t}}, unsure' \in {unsure, unsure \cup {t}},
         refused' \in {refused, refused \cup {t}},
         t \in counted' => k = 1, where \in Awaiting => k = 0,
         where = "done" => k = 1 \/ t \in unsure' \cup refused',
         UNCHANGED <<notice, photos, media, left>>
  PROVE  Telling'
<1>1. SendTypes /\ Unsent /\ Untold
  BY DEF Telling, Sending
<1>2. /\ step' \in [Targets -> Awaiting \cup {"none", "done"}] /\ told' \in [Targets -> Nat]
      /\ \A s \in Targets : /\ step'[s] = IF s = t THEN where ELSE step[s]
                            /\ told'[s] = IF s = t THEN k ELSE told[s]
  BY <1>1 DEF SendTypes
<1>3. SendTypes'
  BY <1>1, <1>2 DEF SendTypes
<1>4. Unsent'
  BY WaitingUntold DEF Unsent
<1>5. Untold'
  <2>1. ASSUME NEW s \in Targets, s # t
        PROVE  /\ told'[s] <= 1 /\ (s \in counted' => told'[s] = 1)
               /\ step'[s] \in Awaiting => told'[s] = 0
               /\ step'[s] = "done" => told'[s] = 1 \/ s \in unsure' \cup refused'
    BY <1>1, <1>2, <2>1 DEF Untold
  <2>2. /\ told'[t] <= 1 /\ (t \in counted' => told'[t] = 1)
        /\ step'[t] \in Awaiting => told'[t] = 0
        /\ step'[t] = "done" => told'[t] = 1 \/ t \in unsure' \cup refused'
    BY <1>2
  <2>3. QED
    BY <2>1, <2>2 DEF Untold
<1>6. QED
  BY <1>3, <1>4, <1>5 DEF Telling, Sending

(* Steps change for many targets at once, and nobody is told.               *)
LEMMA Shifted ==
  ASSUME Telling, notice # "none", UNCHANGED <<notice, photos, textVars, left, media>>,
         step' = [t \in Targets |-> step'[t]],
         \A t \in Targets :
           step'[t] = step[t] \/ (step[t] \in Awaiting /\ step'[t] \in Awaiting)
  PROVE  Telling'
<1>1. SendTypes /\ Unsent /\ Untold
  BY DEF Telling, Sending
<1>2. UNCHANGED <<told, counted, unsure, refused>>
  BY DEF textVars
<1>3. step' \in [Targets -> Awaiting \cup {"none", "done"}]
  <2>1. \A t \in Targets : step'[t] \in Awaiting \cup {"none", "done"}
    BY <1>1 DEF SendTypes
  <2>2. QED
    BY <2>1
<1>4. SendTypes' /\ Unsent'
  BY <1>1, <1>2, <1>3 DEF SendTypes, Unsent
<1>5. Untold'
  BY <1>1, <1>2 DEF Untold, Awaiting
<1>6. QED
  BY <1>4, <1>5 DEF Telling, Sending

LEMMA NotifyTells ==
  ASSUME Telling, NEW city, NEW n \in Nat, NEW caption, NEW readable,
         Notify(city, n, caption, readable)
  PROVE  Telling'
<1>1. /\ notice = "none" /\ notice' = "sending" /\ photos' = n /\ left' = n
      /\ media' = media /\ UNCHANGED <<told, counted, unsure, refused>>
  BY DEF Notify, textVars
<1>2. SendTypes /\ Unsent /\ Untold
  BY DEF Telling, Sending
<1>3. media = 0 /\ \A t \in Targets : told[t] = 0
  BY <1>1, <1>2 DEF Unsent
<1>4. step' \in [Targets -> Awaiting \cup {"none"}]
  <2>1. \A t \in Targets : t \in Telegram \/ t \in OnMax
    BY DEF Telegram
  <2>2. n > 0 \/ n = 0
    OBVIOUS
  <2> DEFINE Goal(t) ==
        IF t \notin Chosen(t \in OnMax, city, readable) THEN "none"
        ELSE CASE n > 0 /\ t \in Telegram -> "queued"
               [] n > 0 /\ t \in OnMax -> "held"
               [] n = 0 /\ t \in Telegram -> "text"
               [] n = 0 /\ t \in OnMax -> "html"
  <2>3. ASSUME NEW t \in Targets PROVE Goal(t) \in Awaiting \cup {"none"}
    <3>1. CASE t \notin Chosen(t \in OnMax, city, readable)
      BY <3>1
    <3>2. CASE t \in Chosen(t \in OnMax, city, readable)
      BY <2>1, <2>2, <3>2 DEF Awaiting
    <3>3. QED
      BY <3>1, <3>2
  <2>4. step' = [t \in Targets |-> Goal(t)]
    BY DEF Notify
  <2> HIDE DEF Goal
  <2>5. QED
    BY <2>3, <2>4
<1>5. SendTypes'
  BY <1>1, <1>2, <1>3, <1>4 DEF SendTypes
<1>6. \A t \in Targets : step'[t] # "done"
  BY <1>4 DEF Awaiting
<1>7. Untold'
  BY <1>1, <1>2, <1>3, <1>6 DEF Untold
<1>8. Unsent'
  BY <1>1 DEF Unsent
<1>9. QED
  BY <1>5, <1>7, <1>8 DEF Telling, Sending

LEMMA TakeChatTells ==
  ASSUME Telling, NEW t \in Targets, TakeChat(t)
  PROVE  Telling'
<1>1. /\ step[t] = "queued" /\ step' = [step EXCEPT ![t] = "photo"]
      /\ UNCHANGED <<notice, photos, told, counted, unsure, refused, left, media>>
  BY DEF TakeChat, Goes, textVars
<1>2. step[t] \in Awaiting /\ "photo" \in Awaiting
  BY <1>1 DEF Awaiting
<1>3. told' = [told EXCEPT ![t] = 0] /\ t \notin counted
  BY <1>1, <1>2, WaitingUntold
<1>4. "photo" # "done"
  OBVIOUS
<1>5. QED
  BY <1>1, <1>2, <1>3, <1>4, Moved

LEMMA PhotoReplyTells ==
  ASSUME Telling, "cut" \notin Replies, NEW t \in Targets, NEW reply \in Replies,
         PhotoReply(t, reply)
  PROVE  Telling'
<1>1. /\ step[t] \in {"photo", "document"}
      /\ UNCHANGED <<notice, photos, refused, left, media>> /\ reply # "cut"
  BY DEF PhotoReply
<1>2. step[t] \in Awaiting
  BY <1>1 DEF Awaiting
<1>3. t \notin counted
  BY <1>2, WaitingUntold
<1>4. CASE reply = "rejected" /\ step[t] = "photo"
  <2>1. step' = [step EXCEPT ![t] = "document"] /\ UNCHANGED <<told, counted, unsure>>
    BY <1>4 DEF PhotoReply, Goes
  <2>2. told' = [told EXCEPT ![t] = 0]
    BY <1>2, <2>1, WaitingUntold
  <2>3. "document" \in Awaiting /\ "document" # "done"
    BY DEF Awaiting
  <2>4. QED
    BY <1>1, <1>2, <1>3, <2>1, <2>2, <2>3, Moved
<1>5. CASE ~(reply = "rejected" /\ step[t] = "photo")
  <2> DEFINE where == IF ~Sent(reply) /\ ~Unknown(reply) THEN "failed"
                      ELSE IF inCaption THEN "done" ELSE "after"
             k == IF inCaption THEN Brings(reply) ELSE 0
  <2>1. /\ IF inCaption THEN Reached(t, reply) ELSE UNCHANGED told
        /\ counted' = IF inCaption /\ Sent(reply) THEN counted \cup {t} ELSE counted
        /\ unsure' = IF inCaption /\ Unknown(reply) THEN unsure \cup {t} ELSE unsure
        /\ step' = [step EXCEPT ![t] = where]
    BY <1>5 DEF PhotoReply, Goes
  <2>2. told' = [told EXCEPT ![t] = k]
    BY <1>2, <2>1, WaitingUntold
  <2>3. /\ where \in Awaiting \cup {"done"} /\ k \in {0, 1}
        /\ where \in Awaiting => k = 0
        /\ where = "done" => k = 1 \/ (inCaption /\ Unknown(reply))
        /\ inCaption /\ Sent(reply) => k = 1
    BY <1>1 DEF Awaiting, Brings, Sent, Unknown
  <2> HIDE DEF where, k
  <2>4. t \in counted' => k = 1
    BY <1>3, <2>1, <2>3
  <2>5. where = "done" => k = 1 \/ t \in unsure' \cup refused'
    BY <2>1, <2>3
  <2>6. counted' \in {counted, counted \cup {t}} /\ unsure' \in {unsure, unsure \cup {t}}
    BY <2>1
  <2>7. QED
    BY <1>1, <1>2, <2>1, <2>2, <2>3, <2>4, <2>5, <2>6, Moved
<1>6. QED
  BY <1>4, <1>5

LEMMA AgainReplyTells ==
  ASSUME Telling, "cut" \notin Replies, NEW t \in Targets, NEW reply \in Replies,
         AgainReply(t, reply)
  PROVE  Telling'
<1> DEFINE where == IF inCaption /\ (Sent(reply) \/ Unknown(reply)) THEN "done" ELSE "text"
           k == IF inCaption THEN Brings(reply) ELSE 0
<1>1. /\ step[t] = "again" /\ reply # "cut"
      /\ IF inCaption THEN Reached(t, reply) ELSE UNCHANGED told
      /\ counted' = IF inCaption /\ Sent(reply) THEN counted \cup {t} ELSE counted
      /\ unsure' = IF inCaption /\ Unknown(reply) THEN unsure \cup {t} ELSE unsure
      /\ step' = [step EXCEPT ![t] = where]
      /\ UNCHANGED <<notice, photos, refused, left, media>>
  BY DEF AgainReply, Goes
<1>2. step[t] \in Awaiting
  BY <1>1 DEF Awaiting
<1>3. t \notin counted /\ told' = [told EXCEPT ![t] = k]
  BY <1>1, <1>2, WaitingUntold
<1>4. /\ where \in Awaiting \cup {"done"} /\ k \in {0, 1}
      /\ where \in Awaiting => k = 0
      /\ where = "done" => k = 1 \/ (inCaption /\ Unknown(reply))
      /\ inCaption /\ Sent(reply) => k = 1
  BY <1>1 DEF Awaiting, Brings, Sent, Unknown
<1> HIDE DEF where, k
<1>5. (t \in counted' => k = 1) /\ (where = "done" => k = 1 \/ t \in unsure' \cup refused')
  BY <1>1, <1>3, <1>4
<1>6. counted' \in {counted, counted \cup {t}} /\ unsure' \in {unsure, unsure \cup {t}}
  BY <1>1
<1>7. QED
  BY <1>1, <1>2, <1>3, <1>4, <1>5, <1>6, Moved

LEMMA TextReplyTells ==
  ASSUME Telling, NEW t \in Targets, NEW reply \in Replies, TextReply(t, reply)
  PROVE  Telling'
<1>1. /\ step[t] \in {"text", "after"} /\ Reached(t, reply)
      /\ counted' = IF Sent(reply) THEN counted \cup {t} ELSE counted
      /\ unsure' = IF Unknown(reply) THEN unsure \cup {t} ELSE unsure
      /\ refused' = IF Sent(reply) \/ Unknown(reply) THEN refused ELSE refused \cup {t}
      /\ step' = [step EXCEPT ![t] = "done"]
      /\ UNCHANGED <<notice, photos, left, media>>
  BY DEF TextReply, Goes
<1>2. step[t] \in Awaiting /\ "done" \notin Awaiting
  BY <1>1 DEF Awaiting
<1>3. t \notin counted /\ told' = [told EXCEPT ![t] = Brings(reply)]
  BY <1>1, <1>2, WaitingUntold
<1>4. Brings(reply) \in {0, 1} /\ (Sent(reply) => Brings(reply) = 1)
  BY DEF Brings, Sent
<1>5. /\ t \in counted' => Brings(reply) = 1
      /\ Brings(reply) = 1 \/ t \in unsure' \cup refused'
  BY <1>1, <1>3, <1>4
<1>6. /\ counted' \in {counted, counted \cup {t}} /\ unsure' \in {unsure, unsure \cup {t}}
      /\ refused' \in {refused, refused \cup {t}}
  BY <1>1
<1>7. QED
  BY <1>1, <1>2, <1>3, <1>4, <1>5, <1>6, Moved

LEMMA MaxReplyTells ==
  ASSUME Telling, "cut" \notin Replies, NEW t \in Targets, NEW reply \in Replies,
         MaxReply(t, reply)
  PROVE  Telling'
<1> DEFINE where == IF Sent(reply) \/ Unknown(reply) THEN "done"
                    ELSE AfterRefusal(step[t], reply)
<1>1. /\ step[t] \in {"media", "mediaPlain", "html", "plain"} /\ Reached(t, reply)
      /\ counted' = IF Sent(reply) THEN counted \cup {t} ELSE counted
      /\ unsure' = IF Unknown(reply) THEN unsure \cup {t} ELSE unsure
      /\ refused' = IF where = "done" /\ ~Sent(reply) /\ ~Unknown(reply)
                    THEN refused \cup {t} ELSE refused
      /\ step' = [step EXCEPT ![t] = where] /\ reply # "cut"
      /\ UNCHANGED <<notice, photos, left, media>>
  BY DEF MaxReply, Goes
<1>2. step[t] \in Awaiting
  BY <1>1 DEF Awaiting
<1>3. t \notin counted /\ told' = [told EXCEPT ![t] = Brings(reply)]
  BY <1>1, <1>2, WaitingUntold
<1>4. AfterRefusal(step[t], reply) \in Awaiting \cup {"done"}
  BY <1>1 DEF AfterRefusal, Awaiting
<1>5. /\ where \in Awaiting \cup {"done"} /\ Brings(reply) \in {0, 1}
      /\ where \in Awaiting => Brings(reply) = 0
      /\ Sent(reply) => Brings(reply) = 1
  BY <1>1, <1>4 DEF Awaiting, Brings, Sent, Unknown
<1> HIDE DEF where
<1>6. /\ t \in counted' => Brings(reply) = 1
      /\ where = "done" => Brings(reply) = 1 \/ t \in unsure' \cup refused'
  BY <1>1, <1>3, <1>5
<1>7. /\ counted' \in {counted, counted \cup {t}} /\ unsure' \in {unsure, unsure \cup {t}}
      /\ refused' \in {refused, refused \cup {t}}
  BY <1>1
<1>8. QED
  BY <1>1, <1>2, <1>3, <1>5, <1>6, <1>7, Moved

LEMMA FanOutTells ==
  ASSUME Telling, FanOut \/ MaxFanOut
  PROVE  Telling'
<1>1. CASE FanOut
  <2>1. /\ notice = "sending"
        /\ step' = [t \in Targets |->
             IF step[t] \in {"queued", "failed"} THEN (IF ids THEN "again" ELSE "text")
             ELSE step[t]]
        /\ UNCHANGED <<notice, photos, textVars, left, media>>
    BY <1>1 DEF FanOut
  <2>2. QED
    BY <2>1, Shifted DEF Awaiting
<1>2. CASE MaxFanOut
  <2>1. /\ notice = "sending"
        /\ step' = [t \in Targets |->
             IF step[t] = "held" THEN (IF media > 0 THEN "media" ELSE "html") ELSE step[t]]
        /\ UNCHANGED <<notice, photos, textVars, left, media>>
    BY <1>2 DEF MaxFanOut
  <2>2. QED
    BY <2>1, Shifted DEF Awaiting
<1>3. QED
  BY <1>1, <1>2

LEMMA UploadTells ==
  ASSUME Telling, NEW accepted \in BOOLEAN, Upload(accepted)
  PROVE  Telling'
<1>1. /\ left > 0 /\ left' = left - 1 /\ media' \in {media, media + 1}
      /\ UNCHANGED <<notice, photos, step, told, counted, unsure, refused>>
      /\ notice = "sending"
  BY DEF Upload, textVars
<1>2. SendTypes /\ Unsent /\ Untold
  BY DEF Telling, Sending
<1>3. left' \in Nat /\ media' \in Nat /\ media' + left' <= photos
  <2>1. left \in Nat /\ media \in Nat /\ photos \in Nat /\ media + left <= photos
    BY <1>2 DEF SendTypes
  <2>2. media' = media \/ media' = media + 1
    BY <1>1
  <2>3. left > 0 /\ left' = left - 1
    BY <1>1
  <2>4. left' \in Nat
    BY <2>1, <2>3
  <2>5. media' \in Nat
    BY <2>1, <2>2
  <2>6. media + (left - 1) <= photos /\ (media + 1) + (left - 1) <= photos
    BY <2>1
  <2>7. QED
    BY <2>2, <2>3, <2>4, <2>5, <2>6
<1>4. QED
  BY <1>1, <1>2, <1>3 DEF Telling, Sending, SendTypes, Unsent, Untold

LEMMA EndedTells ==
  ASSUME Telling, Ended \/ Stops
  PROVE  Telling'
<1>1. /\ notice' # "none"
      /\ UNCHANGED <<photos, told, counted, unsure, refused, left, media>>
      /\ step' \in {step, [t \in Targets |-> "none"]}
  BY DEF Ended, Stops, textVars
<1>2. SendTypes /\ Unsent /\ Untold
  BY DEF Telling, Sending
<1>3. step' \in [Targets -> Awaiting \cup {"none", "done"}]
  BY <1>1, <1>2 DEF SendTypes
<1>4. \A t \in Targets : step'[t] = step[t] \/ step'[t] \notin Awaiting \cup {"done"}
  BY <1>1 DEF Awaiting
<1>5. SendTypes' /\ Unsent'
  BY <1>1, <1>2, <1>3 DEF SendTypes, Unsent
<1>6. Untold'
  BY <1>1, <1>2, <1>4 DEF Untold
<1>7. QED
  BY <1>5, <1>6 DEF Telling, Sending

LEMMA TellingStays ==
  ASSUME Telling, UNCHANGED <<notice, photos, step, textVars, left, media>>
  PROVE  Telling'
<1>1. UNCHANGED <<notice, photos, step, told, counted, unsure, refused, left, media>>
  BY DEF textVars
<1>2. QED
  BY <1>1 DEF Telling, Sending, SendTypes, Unsent, Untold

-----------------------------------------------------------------------------
(* The specification *)

LEMMA LinkedInit == BotInit => Subscribed
<1> SUFFICES ASSUME BotInit PROVE Subscribed
  OBVIOUS
<1>1. /\ botBudget \in BotBudgets /\ subs = botBudget.subs /\ fetched = {}
      /\ started = [n \in Names |-> NoChat] /\ updates = [n \in Names |-> NoChat]
  BY DEF BotInit
<1>2. /\ botBudget \in BotLimits /\ subs \in [Names -> Rows]
      /\ \A n \in Names : SameMessenger(subs[n].chat, n)
  BY <1>1, BotAssumption DEF BotLimits, SameMessenger
<1>3. /\ started \in Seen /\ updates \in Seen
      /\ \A n \in Names : started[n] = NoChat /\ updates[n] = NoChat
  BY <1>1 DEF Seen
<1>4. QED
  BY <1>1, <1>2, <1>3 DEF Subscribed, SubTypes, SameMessenger, NewestStartWins

LEMMA TellingInit == BotInit => Telling
<1> SUFFICES ASSUME BotInit PROVE Telling
  OBVIOUS
<1>1. /\ notice = "none" /\ photos = 0 /\ left = 0 /\ media = 0
      /\ step = [t \in Targets |-> "none"] /\ told = [t \in Targets |-> 0]
      /\ counted = {} /\ unsure = {} /\ refused = {}
  BY DEF BotInit
<1>2. SendTypes /\ Unsent
  BY <1>1 DEF SendTypes, Unsent
<1>3. Untold
  BY <1>1 DEF Untold, Awaiting
<1>4. QED
  BY <1>2, <1>3 DEF Telling, Sending

LEMMA LinkedNext == Subscribed /\ [BotNext]_botVars => Subscribed'
<1> SUFFICES ASSUME Subscribed, [BotNext]_botVars PROVE Subscribed'
  OBVIOUS
<1>1. ASSUME NEW n \in Names, NEW scope \in Scopes,
             CreateSubscriber(scope, n) \/ UpdateSubscriber(scope, n)
               \/ DeleteSubscriber(scope, n)
      PROVE  Subscribed'
  BY <1>1, CreateLinked, UpdateLinked, DeleteLinked
<1>2. ASSUME NEW n \in Names, NEW c \in Chats, Writes(c, n) \/ HandleStart(c, n)
      PROVE  Subscribed'
  BY <1>2, WritesLinked, HandleStartLinked
<1>3. CASE FetchUpdates \/ Resync
  BY <1>3, FetchLinked, ResyncLinked
<1>4. CASE UNCHANGED <<subVars, botBudget>>
  BY <1>4 DEF Subscribed, SubTypes, NewestStartWins, subVars
<1>5. ASSUME NEW city \in Scopes, NEW n \in 0..botBudget.photos, NEW caption \in BOOLEAN,
             NEW readable \in BOOLEAN, Notify(city, n, caption, readable)
      PROVE  Subscribed'
  BY <1>4, <1>5 DEF Notify
<1>6. ASSUME NEW t \in Targets, NEW reply \in Replies,
             TakeChat(t) \/ PhotoReply(t, reply) \/ AgainReply(t, reply)
               \/ TextReply(t, reply) \/ MaxReply(t, reply)
      PROVE  Subscribed'
  <2>1. UNCHANGED <<subVars, botBudget>>
    BY <1>6 DEF TakeChat, PhotoReply, AgainReply, TextReply, MaxReply
  <2>2. QED
    BY <1>4, <2>1
<1>7. ASSUME NEW t \in Targets, TakeChat(t) PROVE Subscribed'
  BY <1>4, <1>7 DEF TakeChat
<1>8. CASE FanOut \/ MaxFanOut \/ (\E accepted \in BOOLEAN : Upload(accepted)) \/ Ended
  BY <1>4, <1>8 DEF FanOut, MaxFanOut, Upload, Ended
<1>9. CASE Stops
  <2>1. BotAct /\ UNCHANGED <<subs, started, updates, fetched>>
    BY <1>9 DEF Stops, subVars
  <2>2. QED
    BY <2>1, ActSpends DEF Subscribed, SubTypes, NewestStartWins
<1>10. CASE UNCHANGED botVars
  BY <1>4, <1>10 DEF botVars
<1>11. QED
  BY <1>1, <1>2, <1>3, <1>5, <1>6, <1>7, <1>8, <1>9, <1>10
  DEF BotNext, Telegram, MaxSide

LEMMA TellingNext ==
  ASSUME "cut" \notin Replies
  PROVE  Subscribed /\ Telling /\ [BotNext]_botVars => Telling'
<1> SUFFICES ASSUME Subscribed, Telling, [BotNext]_botVars PROVE Telling'
  OBVIOUS
<1>1. CASE UNCHANGED sendVars
  BY <1>1, TellingStays DEF sendVars
<1>2. ASSUME NEW n \in Names, NEW scope \in Scopes,
             CreateSubscriber(scope, n) \/ UpdateSubscriber(scope, n)
               \/ DeleteSubscriber(scope, n)
      PROVE  Telling'
  BY <1>1, <1>2 DEF CreateSubscriber, UpdateSubscriber, DeleteSubscriber
<1>3. ASSUME NEW n \in Names, NEW c \in Chats, Writes(c, n) \/ HandleStart(c, n)
      PROVE  Telling'
  BY <1>1, <1>3 DEF Writes, HandleStart
<1>4. CASE FetchUpdates \/ Resync
  BY <1>1, <1>4 DEF FetchUpdates, Resync
<1>5. ASSUME NEW city \in Scopes, NEW n \in 0..botBudget.photos, NEW caption \in BOOLEAN,
             NEW readable \in BOOLEAN, Notify(city, n, caption, readable)
      PROVE  Telling'
  BY <1>5, NotifyTells DEF Subscribed, SubTypes, BotLimits
<1>6. ASSUME NEW t \in Telegram,
             TakeChat(t) \/ \E reply \in Replies :
               PhotoReply(t, reply) \/ AgainReply(t, reply) \/ TextReply(t, reply)
      PROVE  Telling'
  BY <1>6, TakeChatTells, PhotoReplyTells, AgainReplyTells, TextReplyTells DEF Telegram
<1>7. ASSUME NEW t \in MaxSide, NEW reply \in Replies, MaxReply(t, reply)
      PROVE  Telling'
  BY <1>7, MaxReplyTells DEF MaxSide
<1>8. CASE FanOut \/ MaxFanOut \/ (\E accepted \in BOOLEAN : Upload(accepted))
             \/ Ended \/ Stops
  BY <1>8, FanOutTells, UploadTells, EndedTells
<1>9. CASE UNCHANGED botVars
  BY <1>1, <1>9 DEF botVars
<1>10. QED
  BY <1>2, <1>3, <1>4, <1>5, <1>6, <1>7, <1>8, <1>9 DEF BotNext

(* The row of a name is linked to the chat that sent /start last, and to one *)
(* of its own messenger, for any number of names, chats and resyncs, however *)
(* old the updates a resync holds (handle_telegram_update, resync_chat_ids). *)
THEOREM LinksAreNewest == BotSpec => []NewestStartWins
<1>1. Subscribed => NewestStartWins
  BY DEF Subscribed
<1>2. QED
  BY <1>1, LinkedInit, LinkedNext, PTL DEF BotSpec

(* If no connection breaks after the messenger has taken a text, nobody gets  *)
(* the text of a notification twice or is counted without it, and at its end  *)
(* everybody chosen has it or his own request failed; for any number of chats, *)
(* photos and failed uploads (_notify_with_photos, _send_with_media).         *)
THEOREM NobodyToldTwice ==
  ASSUME "cut" \notin Replies
  PROVE  BotSpec => [](BotTypeOK /\ ToldExactlyOnce)
<1>1. Subscribed /\ Telling => BotTypeOK /\ ToldExactlyOnce
  <2>1. SUFFICES ASSUME Subscribed, Telling PROVE BotTypeOK /\ ToldExactlyOnce
    OBVIOUS
  <2>2. BotTypeOK
    BY <2>1 DEF Subscribed, SubTypes, SameMessenger, Telling, Sending, SendTypes, BotTypeOK
  <2>3. ToldExactlyOnce
    BY <2>1 DEF Telling, Untold, ToldExactlyOnce
  <2>4. QED
    BY <2>2, <2>3
<1>2. BotInit => Subscribed /\ Telling
  BY LinkedInit, TellingInit
<1>3. Subscribed /\ Telling /\ [BotNext]_botVars => (Subscribed /\ Telling)'
  BY LinkedNext, TellingNext
<1>4. QED
  BY <1>1, <1>2, <1>3, PTL DEF BotSpec

(* The types need nothing of who was told, and hold when connections break. *)
Counts ==
  /\ counted \cup unsure \cup refused \subseteq Targets /\ told \in [Targets -> Nat]
  /\ photos \in Nat /\ media \in Nat /\ left \in Nat /\ media + left <= photos
  /\ notice = "none" => media = 0

LEMMA CountsReply ==
  ASSUME Counts, NEW t \in Targets, NEW reply,
         PhotoReply(t, reply) \/ AgainReply(t, reply) \/ TextReply(t, reply)
           \/ MaxReply(t, reply)
  PROVE  Counts'
<1>1. UNCHANGED <<photos, media, left, notice>>
  BY DEF PhotoReply, AgainReply, TextReply, MaxReply
<1>2. Reached(t, reply) \/ UNCHANGED told
  BY DEF PhotoReply, AgainReply, TextReply, MaxReply
<1>3. told' \in [Targets -> Nat]
  BY <1>2 DEF Reached, Counts
<1>4. counted' \subseteq counted \cup {t} /\ unsure' \subseteq unsure \cup {t}
      /\ refused' \subseteq refused \cup {t}
  BY DEF PhotoReply, AgainReply, TextReply, MaxReply
<1> QED  BY <1>1, <1>3, <1>4 DEF Counts

LEMMA CountsNext == Subscribed /\ Counts /\ [BotNext]_botVars => Counts'
<1> SUFFICES ASSUME Subscribed, Counts, [BotNext]_botVars PROVE Counts'
  OBVIOUS
<1>1. ASSUME UNCHANGED <<counted, unsure, refused, told, photos, media, left>>,
             notice' = "none" => notice = "none"
      PROVE  Counts'
  BY <1>1 DEF Counts
<1>2. CASE UNCHANGED sendVars
  BY <1>1, <1>2 DEF sendVars, textVars
<1>3. ASSUME NEW city \in Scopes, NEW n \in 0..botBudget.photos, NEW caption \in BOOLEAN,
             NEW readable \in BOOLEAN, Notify(city, n, caption, readable)
      PROVE  Counts'
  <2>1. /\ notice = "none" /\ notice' = "sending" /\ photos' = n /\ left' = n
        /\ UNCHANGED <<told, counted, unsure, refused, media>>
    BY <1>3 DEF Notify, textVars
  <2>2. n \in Nat
    BY DEF Subscribed, SubTypes, BotLimits
  <2>3. media = 0 /\ media' = 0
    BY <2>1 DEF Counts
  <2>4. media' + left' <= photos' /\ photos' \in Nat /\ left' \in Nat /\ media' \in Nat
    BY <2>1, <2>2, <2>3
  <2>5. notice' # "none"
    BY <2>1
  <2>6. counted' \cup unsure' \cup refused' \subseteq Targets /\ told' \in [Targets -> Nat]
    BY <2>1 DEF Counts
  <2> QED  BY <2>4, <2>5, <2>6 DEF Counts
<1>4. ASSUME NEW t \in Targets, TakeChat(t) PROVE Counts'
  BY <1>1, <1>4 DEF TakeChat, textVars
<1>5. CASE FanOut \/ MaxFanOut \/ Ended \/ Stops
  <2>1. /\ UNCHANGED <<counted, unsure, refused, told, photos, media, left>>
        /\ notice' = "none" => notice = "none"
    BY <1>5 DEF FanOut, MaxFanOut, Ended, Stops, textVars
  <2> QED  BY <1>1, <2>1
<1>6. ASSUME NEW accepted \in BOOLEAN, Upload(accepted) PROVE Counts'
  <2>1. /\ notice = "sending" /\ notice' = notice /\ left > 0 /\ left' = left - 1
        /\ media' \in {media, media + 1}
        /\ UNCHANGED <<counted, unsure, refused, told, photos>>
    BY <1>6 DEF Upload, textVars
  <2>2. photos \in Nat /\ media \in Nat /\ left \in Nat /\ media + left <= photos
    BY DEF Counts
  <2>3. /\ left' \in Nat /\ media' \in Nat /\ photos' \in Nat
        /\ media' + left' <= photos'
    <3>1. photos' = photos /\ left' = left - 1 /\ left > 0
      BY <2>1
    <3>2. CASE media' = media
      BY <2>2, <3>1, <3>2
    <3>3. CASE media' = media + 1
      BY <2>2, <3>1, <3>3
    <3> QED  BY <2>1, <3>2, <3>3
  <2>4. counted' \cup unsure' \cup refused' \subseteq Targets /\ told' \in [Targets -> Nat]
    BY <2>1 DEF Counts
  <2> QED  BY <2>1, <2>3, <2>4 DEF Counts
<1>7. ASSUME NEW t \in Targets, NEW reply,
             PhotoReply(t, reply) \/ AgainReply(t, reply) \/ TextReply(t, reply)
               \/ MaxReply(t, reply)
      PROVE  Counts'
  BY <1>7, CountsReply
<1>8. ASSUME NEW n \in Names, NEW scope \in Scopes,
             CreateSubscriber(scope, n) \/ UpdateSubscriber(scope, n)
               \/ DeleteSubscriber(scope, n)
      PROVE  Counts'
  BY <1>2, <1>8 DEF CreateSubscriber, UpdateSubscriber, DeleteSubscriber
<1>9. ASSUME NEW n \in Names, NEW c \in Chats, Writes(c, n) \/ HandleStart(c, n)
      PROVE  Counts'
  BY <1>2, <1>9 DEF Writes, HandleStart
<1>10. CASE FetchUpdates \/ Resync \/ UNCHANGED botVars
  BY <1>2, <1>10 DEF FetchUpdates, Resync, botVars
<1> QED  BY <1>3, <1>4, <1>5, <1>6, <1>7, <1>8, <1>9, <1>10 DEF BotNext, Telegram, MaxSide

LEMMA BotsTyped ==
  /\ BotInit => Subscribed /\ Counts
  /\ Subscribed /\ Counts => BotTypeOK
<1>1. BotInit => Counts
  BY DEF BotInit, Counts
<1>2. Subscribed /\ Counts => BotTypeOK
  BY DEF Subscribed, SubTypes, SameMessenger, Counts, BotTypeOK
<1> QED  BY <1>1, <1>2, LinkedInit

-----------------------------------------------------------------------------
(* The catalogue                                                            *)

Slugs == {"catalog", "own"}
CardSet == [slug : Slugs, text : Texts, gallery : SUBSET Images, edited : SUBSET Fields]
Promises == [text : Texts \cup {"free"}, gallery : SUBSET (Images \cup {"free"})]
Bundled == [text : Texts, gallery : SUBSET Images, present : BOOLEAN]
Deploys ==
  [at : {"read", "card", "gallery"}, bundle : Bundled, c : Cards, writes : BOOLEAN, new : BOOLEAN,
   edited : SUBSET Fields, drop : SUBSET Images, put : SUBSET Images]
Forms == [c : Cards, card : CardSet]
Edits == [c : Cards, read : CardSet, to : CardSet, marks : SUBSET Fields]
CatalogLimits ==
  [kind : Kinds, edits : Nat, deploys : Nat, aside : Asides, racing : BOOLEAN]

CatalogTypes ==
  /\ catalogBudget \in CatalogLimits
  /\ cards \in [Cards -> CardSet \cup {NoCard}]
  /\ promised \in [Cards -> Promises]
  /\ deploy \in Deploys \cup {Idle}
  /\ form \in [Editors -> Forms \cup {Idle}]
  /\ edit \in [Editors -> Edits \cup {Idle}]

(* A slug belongs to one card, and what the catalogue has been able to find  *)
(* it still finds.                                                          *)
Findable ==
  /\ ofSite = BySlug("catalog")
  /\ \A c, d \in Cards : Exists(c) /\ Exists(d) /\ cards[c].slug = cards[d].slug => c = d

(* A field that somebody was promised has its mark and its value.           *)
EditsMarked(c) ==
  /\ ~Exists(c) => promised[c] = Free
  /\ Exists(c) /\ ~catalogBudget.racing =>
       /\ catalogBudget.aside # "anyhow" =>
            \/ promised[c].text = "free"
            \/ promised[c].text = cards[c].text /\ "text" \in cards[c].edited
       /\ catalogBudget.aside = "never" =>
            \/ promised[c].gallery = {"free"}
            \/ promised[c].gallery = cards[c].gallery /\ "gallery" \in cards[c].edited

(* What a deploy has read of a card it changes is still so; that the card is  *)
(* there, or that there is none of its slug, only from its UPDATE on.        *)
Deploying ==
  deploy # Idle =>
    /\ deploy.at # "gallery" \/ "gallery" \in deploy.edited => deploy.drop = {} /\ deploy.put = {}
    /\ deploy.new => deploy.edited = {} /\ ~Exists(deploy.c)
    /\ deploy.new /\ deploy.at # "read" => BySlug("catalog") = {}
    /\ ~deploy.new /\ deploy.writes /\ deploy.at # "read" => Exists(deploy.c)
    /\ catalogBudget.aside # "anyhow" /\ ~deploy.new /\ deploy.writes /\ Exists(deploy.c) =>
         "text" \notin cards[deploy.c].edited
    /\ catalogBudget.aside = "never" /\ ~deploy.new =>
         Exists(deploy.c) /\ deploy.edited = cards[deploy.c].edited

(* What a handler has read of a card it edits, beside the rows.              *)
Edited(q, rows, b) ==
  /\ q.marks = q.read.edited \cup Changed(q.read, q.to)
  /\ q.read.slug = "catalog" => q.to.slug = "catalog"
  /\ rows[q.c] # NoCard /\ q.read.slug = "catalog" => rows[q.c].slug = "catalog"
  /\ ~b.racing => rows[q.c] # NoCard /\ q.read.edited = rows[q.c].edited
  /\ ~b.racing /\ b.aside = "never" => q.read = rows[q.c]
EditsTrue ==
  /\ \A e \in Editing : Edited(edit[e], cards, catalogBudget)
  /\ \A e, x \in Editing : ~catalogBudget.racing => e = x
  /\ catalogBudget.aside = "never" => deploy = Idle \/ Editing = {}

Tended ==
  CatalogTypes /\ Findable /\ (\A c \in Cards : EditsMarked(c)) /\ Deploying /\ EditsTrue


LEMMA ChangedFields ==
  ASSUME NEW a \in CardSet, NEW b \in CardSet
  PROVE  /\ "text" \in Changed(a, b) <=> a.text # b.text
         /\ "gallery" \in Changed(a, b) <=> a.gallery # b.gallery
         /\ Changed(a, b) \subseteq Fields
BY DEF Changed, Fields, CardSet

LEMMA CatalogSets ==
  /\ NoCard \notin CardSet /\ Idle \notin Deploys /\ Idle \notin Forms /\ Idle \notin Edits
  /\ Free \in Promises /\ Free.text = "free" /\ Free.gallery = {"free"}
BY DEF NoCard, CardSet, Idle, Deploys, Forms, Edits, Free, Promises, Slugs

(* A row is there or it is NoCard; no row has a slug that is not its own.   *)
LEMMA RowsOfSlug ==
  ASSUME CatalogTypes, NEW s \in Slugs
  PROVE  /\ \A c \in Cards : Exists(c) <=> cards[c] \in CardSet
         /\ BySlug(s) = {c \in Cards : Exists(c) /\ cards[c].slug = s}
<1>1. \A c \in Cards : Exists(c) <=> cards[c] \in CardSet
  BY CatalogSets DEF CatalogTypes, Exists
<1>2. NoCard.slug # s
  BY DEF NoCard, Slugs
<1> QED  BY <1>1, <1>2 DEF BySlug, Exists

LEMMA CatalogBegins ==
  ASSUME CatalogInit
  PROVE  Tended
<1> DEFINE first == CHOOSE c \in Cards : TRUE
           word == CHOOSE t \in Texts : TRUE
           one == Card("catalog", word, {}, {})
<1>1. first \in Cards /\ word \in Texts
  BY CatalogAssumption
<1>2. one \in CardSet /\ one.slug = "catalog" /\ one.edited = {}
  BY <1>1 DEF Card, CardSet, Slugs
<1>3. cards = [c \in Cards |-> IF c = first THEN one ELSE NoCard]
  BY DEF CatalogInit
<1>4. NoCard.slug = "none"
  BY DEF NoCard
<1> HIDE DEF first, word, one
<1>5. CatalogTypes
  <2>1. catalogBudget \in CatalogLimits
    BY CatalogAssumption DEF CatalogInit, CatalogLimits
  <2>2. cards \in [Cards -> CardSet \cup {NoCard}]
    BY <1>2, <1>3
  <2>3. promised \in [Cards -> Promises]
    BY CatalogSets DEF CatalogInit
  <2> QED  BY <2>1, <2>2, <2>3 DEF CatalogInit, CatalogTypes
<1>6. Findable
  <2>1. \A c \in Cards : Exists(c) => c = first
    BY <1>3 DEF Exists
  <2> QED  BY <2>1 DEF CatalogInit, Findable
<1>7. \A c \in Cards : EditsMarked(c)
  BY CatalogSets DEF EditsMarked, CatalogInit
<1>8. Deploying /\ Editing = {}
  BY DEF Deploying, CatalogInit, Editing
<1> QED  BY <1>5, <1>6, <1>7, <1>8 DEF Tended, EditsTrue

(* What a catalogue of the repository says of the card.                     *)
LEMMA BundlesTyped ==
  ASSUME CatalogTypes, NEW b \in Bundles
  PROVE  b \in Bundled
BY DEF Bundles, Bundled

(* The bounds count down; what may run beside what is fixed.                *)
LEMMA CatalogCounts ==
  ASSUME catalogBudget \in CatalogLimits, NEW what \in {"edits", "deploys"},
         CatalogSpends(what)
  PROVE  /\ catalogBudget' \in CatalogLimits
         /\ catalogBudget'.aside = catalogBudget.aside
         /\ catalogBudget'.racing = catalogBudget.racing
         /\ catalogBudget'.kind = catalogBudget.kind
<1>1. CASE what = "edits"
  BY <1>1 DEF CatalogSpends, CatalogLimits
<1>2. CASE what = "deploys"
  BY <1>2 DEF CatalogSpends, CatalogLimits
<1> QED  BY <1>1, <1>2

LEMMA DeployReads ==
  ASSUME Tended, NEW b \in Bundled, DeployCard(b)
  PROVE  Tended'
<1> USE DEF Tended
<1>1. /\ deploy = Idle /\ CatalogSpends("deploys")
      /\ catalogBudget.aside # "never" \/ Editing = {}
      /\ UNCHANGED <<cards, promised, ofSite, form, edit>>
  BY DEF DeployCard
<1>2. PICK c \in Cards, wrote \in BOOLEAN, new \in BOOLEAN :
        /\ deploy' = Reads(b, c, wrote, new)
        /\ new => ~Exists(c) /\ BySlug("catalog") = {}
        /\ ~new => Exists(c) /\ (wrote => "text" \notin cards[c].edited)
  <2>1. CASE \E c \in BySlug("catalog") :
               deploy' = Reads(b, c, /\ b.present /\ "text" \notin cards[c].edited
                                     /\ cards[c].text # b.text, FALSE)
    <3>1. PICK c \in BySlug("catalog") :
               deploy' = Reads(b, c, /\ b.present /\ "text" \notin cards[c].edited
                                     /\ cards[c].text # b.text, FALSE)
      BY <2>1
    <3>2. c \in Cards /\ Exists(c)
      BY RowsOfSlug DEF Slugs, BySlug
    <3> DEFINE wrote == /\ b.present /\ "text" \notin cards[c].edited
                        /\ cards[c].text # b.text
    <3>3. wrote \in BOOLEAN /\ (wrote => "text" \notin cards[c].edited)
      BY DEF Bundled
    <3>4. deploy' = Reads(b, c, wrote, FALSE)
      BY <3>1
    <3> HIDE DEF wrote
    <3> QED  BY <3>2, <3>3, <3>4
  <2>2. CASE /\ BySlug("catalog") = {} /\ b.present
             /\ \E c \in Cards : Unused(c) /\ deploy' = Reads(b, c, TRUE, TRUE)
    <3>1. TRUE \in BOOLEAN
      OBVIOUS
    <3> QED  BY <2>2, <3>1 DEF Unused
  <2> QED  BY <2>1, <2>2 DEF DeployCard
<1> DEFINE d == Reads(b, c, wrote, new)
<1>3. /\ d \in Deploys /\ d.at = "read" /\ d.c = c /\ d.writes = wrote /\ d.new = new
      /\ d.drop = {} /\ d.put = {}
      /\ new => d.edited = {}
      /\ ~new => d.edited = cards[c].edited
  <2>1. ~new => cards[c].edited \in SUBSET Fields
    BY <1>2, RowsOfSlug DEF CardSet, Slugs
  <2> QED  BY <2>1 DEF Reads, Deploys
<1>4. deploy' = d
  BY <1>2
<1> HIDE DEF d
<1>5. /\ catalogBudget' \in CatalogLimits /\ catalogBudget'.aside = catalogBudget.aside
      /\ catalogBudget'.racing = catalogBudget.racing
  <2>1. catalogBudget \in CatalogLimits
    BY DEF CatalogTypes
  <2>2. CatalogSpends("deploys")
    BY <1>1
  <2> QED  BY ONLY <2>1, <2>2, CatalogCounts
<1>6. CatalogTypes'
  BY <1>1, <1>3, <1>4, <1>5 DEF CatalogTypes
<1>7. Findable' /\ \A k \in Cards : EditsMarked(k)'
  BY <1>1, <1>5 DEF Findable, EditsMarked, BySlug, Exists
<1>8. Deploying'
  BY <1>1, <1>2, <1>3, <1>4, <1>5 DEF Deploying, Exists, BySlug
<1>9. EditsTrue'
  BY <1>1, <1>5 DEF EditsTrue, Edited, Editing, Exists
<1> QED  BY <1>6, <1>7, <1>8, <1>9

LEMMA DeployFlushes ==
  ASSUME Tended, DeployWrites
  PROVE  Tended'
<1> USE DEF Tended
<1>1. /\ deploy.at = "read" /\ deploy' = [deploy EXCEPT !.at = "card"]
      /\ IF deploy.new THEN BySlug("catalog") = {} ELSE deploy.writes => Exists(deploy.c)
      /\ UNCHANGED <<cards, promised, ofSite, form, edit, catalogBudget>>
  BY DEF DeployWrites
<1>2. deploy # Idle
  BY <1>1 DEF Idle
<1>3. deploy \in Deploys
  BY <1>2 DEF CatalogTypes
<1>4. /\ deploy' \in Deploys /\ deploy'.c = deploy.c /\ deploy'.writes = deploy.writes
      /\ deploy'.new = deploy.new /\ deploy'.edited = deploy.edited
      /\ deploy'.drop = deploy.drop /\ deploy'.put = deploy.put /\ deploy'.at = "card"
  BY <1>1, <1>3 DEF Deploys
<1>5. CatalogTypes'
  BY <1>1, <1>4 DEF CatalogTypes
<1>6. Findable' /\ \A k \in Cards : EditsMarked(k)'
  BY <1>1 DEF Findable, EditsMarked, BySlug, Exists
<1>7. BySlug("catalog")' = BySlug("catalog")
  BY <1>1 DEF BySlug
<1>8. Deploying'
  BY <1>1, <1>2, <1>3, <1>4, <1>7 DEF Deploying, Exists, Deploys
<1>9. EditsTrue'
  BY <1>1, <1>2 DEF EditsTrue, Edited, Editing, Exists
<1> QED  BY <1>5, <1>6, <1>8, <1>9

LEMMA DeployTurns ==
  ASSUME Tended, DeployGallery
  PROVE  Tended'
<1> USE DEF Tended
<1>1. /\ deploy.at = "card"
      /\ UNCHANGED <<cards, promised, ofSite, form, edit, catalogBudget>>
  BY DEF DeployGallery
<1>2. deploy \in Deploys
  BY <1>1 DEF CatalogTypes, Idle
<1> DEFINE gone == IF Exists(deploy.c) THEN cards[deploy.c].gallery ELSE {}
           d == IF deploy.bundle.gallery # {} /\ "gallery" \notin deploy.edited
                  THEN [deploy EXCEPT !.at = "gallery", !.put = deploy.bundle.gallery,
                                      !.drop = gone]
                  ELSE [deploy EXCEPT !.at = "gallery"]
<1>3. gone \in SUBSET Images
  BY <1>2, RowsOfSlug DEF CardSet, Deploys, Slugs
<1>4. deploy' = d
  BY DEF DeployGallery
<1> HIDE DEF gone
<1>5. /\ d \in Deploys /\ d.c = deploy.c /\ d.writes = deploy.writes /\ d.new = deploy.new
      /\ d.edited = deploy.edited
      /\ "gallery" \in d.edited => d.drop = deploy.drop /\ d.put = deploy.put
      /\ d.at = "gallery"
  BY <1>2, <1>3 DEF Deploys, Bundled
<1> HIDE DEF d
<1>6. CatalogTypes'
  BY <1>1, <1>4, <1>5 DEF CatalogTypes
<1>7. Findable' /\ \A k \in Cards : EditsMarked(k)'
  BY <1>1 DEF Findable, EditsMarked, BySlug, Exists
<1>8. deploy # Idle
  BY <1>2, CatalogSets
<1>9. Deploying'
  BY <1>1, <1>4, <1>5, <1>8 DEF Deploying, Exists, BySlug
<1>10. EditsTrue'
  BY <1>1, <1>8 DEF EditsTrue, Edited, Editing, Exists
<1> QED  BY <1>6, <1>7, <1>9, <1>10

LEMMA DeployStops ==
  ASSUME Tended, DeployFails
  PROVE  Tended'
BY DEF Tended, DeployFails, CatalogTypes, Findable, EditsMarked, Deploying, EditsTrue, Edited,
       Editing, Exists, BySlug

(* The deploy writes only the fields that bear no mark, and makes a card     *)
(* only while the catalogue finds none.                                     *)
LEMMA DeployEnds ==
  ASSUME Tended, DeployCommits
  PROVE  Tended'
<1> USE DEF Tended
<1>1. deploy # Idle
  BY DEF DeployCommits, Idle
<1>2. deploy \in Deploys
  BY <1>1 DEF CatalogTypes
<1> SUFFICES ASSUME NEW c \in Cards, c = deploy.c PROVE Tended'
  BY <1>2 DEF Deploys
<1>3. /\ deploy.bundle.text \in Texts /\ deploy.put \in SUBSET Images
      /\ deploy.drop \in SUBSET Images /\ deploy.edited \in SUBSET Fields
  BY <1>2 DEF Deploys, Bundled
<1>4. /\ deploy' = Idle
      /\ UNCHANGED <<promised, form, edit, catalogBudget>>
  BY DEF DeployCommits
<1>5. catalogBudget.aside # "never" \/ Editing = {}
  BY <1>1 DEF EditsTrue
<1>6. Deploying'
  BY <1>4 DEF Deploying
<1>9. deploy.at # "read"
  BY DEF DeployCommits
<1>7. CASE deploy.new
  <2> DEFINE made == Card("catalog", deploy.bundle.text, deploy.put, {})
  <2>1. made \in CardSet /\ made.slug = "catalog" /\ made.edited = {} /\ made # NoCard
    BY <1>3, CatalogSets DEF Card, CardSet, Slugs
  <2>2. cards' = [cards EXCEPT ![c] = made] /\ ofSite' = ofSite \cup {c}
    BY <1>7 DEF DeployCommits
  <2>3. ~Exists(c) /\ BySlug("catalog") = {}
    BY <1>1, <1>2, <1>7, <1>9 DEF Deploying
  <2> HIDE DEF made
  <2>4. cards \in [Cards -> CardSet \cup {NoCard}]
    BY DEF CatalogTypes
  <2>5. cards'[c] = made /\ \A k \in Cards \ {c} : cards'[k] = cards[k]
    BY <1>3, <2>2, <2>4
  <2>6. CatalogTypes'
    BY <1>3, <1>4, <2>1, <2>2, <2>4 DEF CatalogTypes
  <2>7. BySlug("catalog")' = {c} /\ ofSite' = {c}
    BY <1>3, <2>1, <2>2, <2>3, <2>5 DEF BySlug, Findable
  <2>8. Findable'
    <3>1. ASSUME NEW k \in Cards, NEW l \in Cards, Exists(k)', Exists(l)',
                 cards'[k].slug = cards'[l].slug, k # l
          PROVE  FALSE
      <4>1. CASE k # c /\ l # c
        BY <2>5, <3>1, <4>1 DEF Exists, Findable
      <4>2. CASE k = c
        BY <2>1, <2>3, <2>5, <3>1, <4>2 DEF BySlug
      <4>3. CASE l = c
        BY <2>1, <2>3, <2>5, <3>1, <4>3 DEF BySlug
      <4> QED  BY <4>1, <4>2, <4>3
    <3> QED  BY <2>7, <3>1 DEF Findable
  <2>9. ASSUME NEW k \in Cards PROVE EditsMarked(k)'
    <3>1. CASE k = c
      <4>1. promised[c] = Free
        BY <1>3, <2>3 DEF EditsMarked
      <4> QED  BY <1>4, <2>1, <2>5, <3>1, <4>1, CatalogSets DEF EditsMarked, Exists
    <3>2. CASE k # c
      BY <1>4, <2>5, <3>2 DEF EditsMarked, Exists
    <3> QED  BY <3>1, <3>2
  <2>10. EditsTrue'
    <3>1. ASSUME NEW e \in Editing PROVE Edited(edit[e], cards', catalogBudget)
      <4>1. edit[e].c \in Cards /\ Edited(edit[e], cards, catalogBudget)
        BY <1>4 DEF EditsTrue, Editing, CatalogTypes, Edits
      <4>2. CASE edit[e].c = c
        BY <1>4, <1>5, <2>1, <2>3, <2>5, <3>1, <4>1, <4>2 DEF Edited, Exists
      <4>3. CASE edit[e].c # c
        BY <1>4, <2>5, <4>1, <4>3 DEF Edited, Exists
      <4> QED  BY <4>2, <4>3
    <3> QED  BY <1>4, <3>1 DEF EditsTrue, Editing
  <2> QED  BY <1>6, <2>6, <2>8, <2>9, <2>10
<1>8. CASE ~deploy.new
  <2> DEFINE words == IF deploy.writes THEN deploy.bundle.text ELSE cards[c].text
             pictures == (cards[c].gallery \ deploy.drop) \cup deploy.put
  <2>1. ofSite' = ofSite
    BY <1>8 DEF DeployCommits
  <2>2. cards \in [Cards -> CardSet \cup {NoCard}]
    BY DEF CatalogTypes
  <2>3. CASE ~Exists(c)
    <3>1. cards' = cards
      BY <1>8, <2>3 DEF DeployCommits
    <3> QED  BY <1>4, <1>6, <2>1, <3>1 DEF CatalogTypes, Findable, EditsMarked, EditsTrue, Edited,
                                           Editing, Exists, BySlug
  <2>4. CASE Exists(c)
    <3>1. cards' = [cards EXCEPT ![c].text = words, ![c].gallery = pictures]
      BY <1>8, <2>4 DEF DeployCommits
    <3>2. cards[c] \in CardSet
      BY <1>3, <2>2, <2>4 DEF Exists
    <3>3. words \in Texts /\ pictures \in SUBSET Images
      BY <1>3, <3>2 DEF CardSet
    <3>4. catalogBudget.aside # "anyhow" /\ deploy.writes => "text" \notin cards[c].edited
      BY <1>1, <1>8, <2>4 DEF Deploying
    <3>5. catalogBudget.aside = "never" /\ "gallery" \in cards[c].edited => pictures = cards[c].gallery
      BY <1>1, <1>8, <3>2 DEF Deploying, CardSet
    <3>6. catalogBudget.aside # "anyhow" /\ "text" \in cards[c].edited => words = cards[c].text
      BY <3>4
    <3> HIDE DEF words, pictures
    <3>7. /\ cards'[c] \in CardSet
          /\ cards'[c].slug = cards[c].slug /\ cards'[c].edited = cards[c].edited
          /\ cards'[c].text = words /\ cards'[c].gallery = pictures
          /\ \A k \in Cards \ {c} : cards'[k] = cards[k]
      BY <1>3, <2>2, <3>1, <3>2, <3>3 DEF CardSet
    <3>8. cards' \in [Cards -> CardSet \cup {NoCard}]
      BY <1>3, <2>2, <3>1, <3>7
    <3>9. \A k \in Cards : /\ (cards'[k] # NoCard) <=> (cards[k] # NoCard)
                            /\ cards'[k].slug = cards[k].slug
      BY <2>4, <3>7, CatalogSets DEF Exists
    <3>10. CatalogTypes'
      BY <1>4, <3>8 DEF CatalogTypes
    <3>11. BySlug("catalog")' = BySlug("catalog")
      <4>1. \A k \in Cards : cards'[k].slug = cards[k].slug
        BY <3>7
      <4> QED  BY <4>1 DEF BySlug
    <3>12. Findable'
      <4>1. ASSUME NEW k \in Cards, NEW l \in Cards, Exists(k)', Exists(l)',
                   cards'[k].slug = cards'[l].slug
            PROVE  k = l
        <5>1. Exists(k) /\ Exists(l) /\ cards[k].slug = cards[l].slug
          BY <3>9, <4>1 DEF Exists
        <5> QED  BY <5>1 DEF Findable
      <4>2. ofSite' = BySlug("catalog")'
        BY <2>1, <3>11 DEF Findable
      <4> QED  BY <4>1, <4>2 DEF Findable
    <3>13. ASSUME NEW k \in Cards PROVE EditsMarked(k)'
      <4>1. CASE k = c
        <5>1. promised' = promised /\ catalogBudget' = catalogBudget
          BY <1>4
        <5>2. ~catalogBudget.racing /\ catalogBudget.aside # "anyhow" =>
                \/ promised[c].text = "free"
                \/ promised[c].text = cards'[c].text /\ "text" \in cards'[c].edited
          BY <1>3, <2>4, <3>6, <3>7 DEF EditsMarked
        <5>3. ~catalogBudget.racing /\ catalogBudget.aside = "never" =>
                \/ promised[c].gallery = {"free"}
                \/ promised[c].gallery = cards'[c].gallery /\ "gallery" \in cards'[c].edited
          BY <1>3, <2>4, <3>5, <3>7 DEF EditsMarked
        <5>4. Exists(c)'
          BY <3>7, CatalogSets DEF Exists
        <5> QED  BY <4>1, <5>1, <5>2, <5>3, <5>4 DEF EditsMarked
      <4>2. CASE k # c
        BY <1>4, <3>7, <4>2 DEF EditsMarked, Exists
      <4> QED  BY <4>1, <4>2
    <3>14. EditsTrue'
      <4>1. ASSUME NEW e \in Editing PROVE Edited(edit[e], cards', catalogBudget)
        <5>1. edit[e].c \in Cards /\ Edited(edit[e], cards, catalogBudget)
          BY <1>4 DEF EditsTrue, Editing, CatalogTypes, Edits
        <5>2. CASE edit[e].c = c
          <6>1. catalogBudget.aside # "never"
            BY <1>5, <1>4, <4>1 DEF Editing
          <6>2. /\ cards'[c].slug = cards[c].slug /\ cards'[c].edited = cards[c].edited
                /\ Exists(c)' /\ edit' = edit /\ catalogBudget' = catalogBudget
            BY <1>3, <1>4, <2>4, <3>7, <3>9 DEF Exists
          <6>3. /\ edit[e].marks = edit[e].read.edited \cup Changed(edit[e].read, edit[e].to)
                /\ edit[e].read.slug = "catalog" => edit[e].to.slug = "catalog"
                /\ edit[e].read.slug = "catalog" => cards'[c].slug = "catalog"
                /\ ~catalogBudget.racing => edit[e].read.edited = cards'[c].edited
            BY <2>4, <5>1, <5>2, <6>2 DEF Edited, Exists
          <6> QED  BY <5>2, <6>1, <6>2, <6>3 DEF Edited, Exists
        <5>3. CASE edit[e].c # c
          BY <1>4, <3>7, <5>1, <5>3 DEF Edited, Exists
        <5> QED  BY <5>2, <5>3
      <4> QED  BY <1>4, <4>1 DEF EditsTrue, Editing
    <3> QED  BY <1>6, <3>10, <3>12, <3>13, <3>14
  <2> QED  BY <2>3, <2>4
<1> QED  BY <1>7, <1>8

LEMMA FormOpens ==
  ASSUME Tended, NEW e \in Editors, NEW c \in Cards, OpenForm(e, c)
  PROVE  Tended'
<1> USE DEF Tended
<1> DEFINE opened == [c |-> c, card |-> cards[c]]
<1>1. /\ Exists(c) /\ form' = [form EXCEPT ![e] = opened]
      /\ UNCHANGED <<cards, promised, ofSite, deploy, edit, catalogBudget>>
  BY DEF OpenForm
<1>2. opened \in Forms
  BY <1>1 DEF CatalogTypes, Exists, Forms
<1> HIDE DEF opened
<1>3. form' \in [Editors -> Forms \cup {Idle}]
  BY <1>1, <1>2 DEF CatalogTypes
<1> QED  BY <1>1, <1>3 DEF CatalogTypes, Findable, EditsMarked, Deploying, EditsTrue, Edited,
                           Editing, Exists, BySlug

LEMMA EditStops ==
  ASSUME Tended, NEW e \in Editors, EditFails(e)
  PROVE  Tended'
<1> USE DEF Tended
<1>1. /\ edit' = [edit EXCEPT ![e] = Idle]
      /\ UNCHANGED <<cards, promised, ofSite, deploy, form, catalogBudget>>
  BY DEF EditFails
<1>2. \A x \in Editors : edit'[x] = IF x = e THEN Idle ELSE edit[x]
  BY <1>1 DEF CatalogTypes
<1>3. CatalogTypes'
  BY <1>1 DEF CatalogTypes
<1>4. Findable' /\ (\A k \in Cards : EditsMarked(k)') /\ Deploying'
  BY <1>1 DEF Findable, EditsMarked, Deploying, Exists, BySlug
<1>5. Editing' \subseteq Editing /\ \A x \in Editing' : edit'[x] = edit[x]
  BY <1>2 DEF Editing
<1>6. EditsTrue'
  BY <1>1, <1>5 DEF EditsTrue, Edited, Exists
<1> QED  BY <1>3, <1>4, <1>6

LEMMA PayloadsTyped ==
  ASSUME NEW card \in CardSet, NEW p \in Payloads(card)
  PROVE  p \in CardSet
BY DEF Payloads, Card, CardSet, Slugs

LEMMA EditStarts ==
  ASSUME Tended, NEW e \in Editors, form[e] # Idle, NEW p \in CardSet, StartEdit(e, p)
  PROVE  Tended'
<1> USE DEF Tended
<1> SUFFICES ASSUME NEW c \in Cards, c = form[e].c PROVE Tended'
  BY DEF CatalogTypes, Forms
<1> SUFFICES ASSUME NEW q,
                    q = [c |-> c, read |-> cards[c], to |-> p,
                         marks |-> Mark(cards[c], Changed(cards[c], p))]
             PROVE  Tended'
  OBVIOUS
<1>1. /\ Exists(c) /\ MayEdit(e) /\ MayRename(c, p.slug)
      /\ edit' = [edit EXCEPT ![e] = q]
      /\ form' = [form EXCEPT ![e] = Idle]
      /\ UNCHANGED <<cards, promised, ofSite, deploy>>
  BY DEF StartEdit
<1>2. /\ catalogBudget' \in CatalogLimits /\ catalogBudget'.aside = catalogBudget.aside
      /\ catalogBudget'.racing = catalogBudget.racing
  <2>1. catalogBudget \in CatalogLimits
    BY DEF CatalogTypes
  <2>2. CatalogSpends("edits")
    BY <1>1 DEF MayEdit
  <2> QED  BY ONLY <2>1, <2>2, CatalogCounts
<1>3. cards[c] \in CardSet
  BY <1>1 DEF CatalogTypes, Exists
<1>4. Changed(cards[c], p) \subseteq Fields
  BY <1>3, ChangedFields
<1>5. /\ q \in Edits /\ q.c = c /\ q.read = cards[c] /\ q.to = p
      /\ q.marks = q.read.edited \cup Changed(q.read, q.to)
  BY <1>3, <1>4 DEF Edits, Mark, CardSet
<1>6. cards[c].slug = "catalog" => p.slug = "catalog"
  BY <1>1 DEF MayRename
<1>7. edit'[e] = q /\ \A x \in Editors \ {e} : edit'[x] = edit[x]
  BY <1>1 DEF CatalogTypes
<1>8. Editing' \subseteq Editing \cup {e}
  BY <1>7 DEF Editing
<1>9. CatalogTypes'
  BY <1>1, <1>2, <1>5 DEF CatalogTypes
<1>10. Findable' /\ (\A k \in Cards : EditsMarked(k)') /\ Deploying'
  BY <1>1, <1>2 DEF Findable, EditsMarked, Deploying, Exists, BySlug
<1>11. EditsTrue'
  <2>1. Edited(q, cards, catalogBudget)
    BY <1>1, <1>5, <1>6 DEF Edited, Exists
  <2>2. ~catalogBudget.racing => Editing = {}
    BY <1>1 DEF MayEdit
  <2>3. catalogBudget.aside = "never" => deploy = Idle
    BY <1>1 DEF MayEdit
  <2>4. ASSUME NEW x \in Editors, edit'[x] # Idle PROVE Edited(edit'[x], cards, catalogBudget)
    <3>1. CASE x = e
      BY <1>7, <2>1, <3>1
    <3>2. CASE x # e
      BY <1>7, <2>4, <3>2 DEF EditsTrue, Editing
    <3> QED  BY <3>1, <3>2
  <2>5. \A x \in Editors : edit'[x] # Idle => Edited(edit'[x], cards', catalogBudget')
    BY <1>1, <1>2, <2>4 DEF Edited
  <2> QED  BY <1>1, <1>2, <1>8, <2>2, <2>3, <2>5 DEF EditsTrue, Editing
<1> QED  BY <1>9, <1>10, <1>11

(* The row an edit leaves behind.                                           *)
LEMMA EditWrites ==
  ASSUME Tended, NEW e \in Editors, EditCommits(e)
  PROVE  Tended'
<1> USE DEF Tended
<1> SUFFICES ASSUME NEW q \in Edits, q = edit[e], NEW c \in Cards, c = q.c,
                    NEW new, new = Changed(q.read, q.to)
             PROVE  Tended'
  <2>1. edit[e] \in Edits
    BY DEF EditCommits, CatalogTypes
  <2> QED  BY <2>1 DEF Edits
<1> SUFFICES ASSUME NEW slug, slug = IF q.to.slug = q.read.slug THEN cards[c].slug ELSE q.to.slug,
                    NEW text, text = IF "text" \in new THEN q.to.text ELSE cards[c].text,
                    NEW gallery,
                    gallery = (cards[c].gallery \ (q.read.gallery \ q.to.gallery))
                                \cup (q.to.gallery \ q.read.gallery),
                    NEW edited,
                    edited = IF q.marks = q.read.edited THEN cards[c].edited ELSE q.marks
             PROVE  Tended'
  OBVIOUS
<1>1. /\ edit[e] # Idle /\ Exists(c) /\ ~Locked(c)
      /\ catalogBudget.aside = "outside" => ~Querying(c)
      /\ \/ q.to.slug = q.read.slug
         \/ BySlug(q.to.slug) \subseteq {c} /\ ~Inserting
      /\ cards' = [cards EXCEPT ![c].slug = slug, ![c].text = text,
                               ![c].gallery = gallery, ![c].edited = edited]
      /\ ofSite' = IF q.to.slug = "catalog" THEN ofSite \cup {c} ELSE ofSite
      /\ edit' = [edit EXCEPT ![e] = Idle]
      /\ UNCHANGED <<deploy, form, catalogBudget>>
  BY DEF EditCommits
<1>2. promised' = [promised EXCEPT
        ![c] = [text |-> IF "text" \in new THEN q.to.text ELSE promised[c].text,
                gallery |-> IF "gallery" \in new THEN q.to.gallery ELSE promised[c].gallery]]
  BY DEF EditCommits
<1>3. /\ cards[c] \in CardSet /\ q.read \in CardSet /\ q.to \in CardSet
      /\ q.marks \in SUBSET Fields
  BY <1>1 DEF CatalogTypes, Exists, Edits
<1>4. /\ "text" \in new <=> q.read.text # q.to.text
      /\ "gallery" \in new <=> q.read.gallery # q.to.gallery
  BY <1>3, ChangedFields
<1>5. Edited(q, cards, catalogBudget) /\ e \in Editing
  BY <1>1 DEF EditsTrue, Editing
<1>6. slug \in Slugs /\ text \in Texts /\ gallery \in SUBSET Images /\ edited \in SUBSET Fields
  BY <1>3 DEF CardSet
<1>7. /\ cards'[c] = [slug |-> slug, text |-> text, gallery |-> gallery, edited |-> edited]
      /\ \A k \in Cards \ {c} : cards'[k] = cards[k]
  <2>1. cards \in [Cards -> CardSet \cup {NoCard}]
    BY DEF CatalogTypes
  <2> QED  BY <1>1, <1>3, <2>1 DEF CardSet
<1>8. cards'[c] \in CardSet /\ cards'[c] # NoCard
  BY <1>6, <1>7, CatalogSets DEF CardSet
<1>9. \A x \in Editors : edit'[x] = IF x = e THEN Idle ELSE edit[x]
  BY <1>1 DEF CatalogTypes
<1>10. Editing' = Editing \ {e}
  BY <1>9 DEF Editing
<1>11. CatalogTypes'
  <2>1. cards' \in [Cards -> CardSet \cup {NoCard}]
    <3>1. DOMAIN cards' = Cards /\ cards' = [k \in Cards |-> cards'[k]]
      BY <1>1 DEF CatalogTypes
    <3> QED  BY <1>7, <1>8, <3>1 DEF CatalogTypes
  <2>2. promised' \in [Cards -> Promises]
    <3>1. promised \in [Cards -> Promises]
      BY DEF CatalogTypes
    <3>2. [text |-> IF "text" \in new THEN q.to.text ELSE promised[c].text,
           gallery |-> IF "gallery" \in new THEN q.to.gallery ELSE promised[c].gallery]
             \in Promises
      BY <1>3, <3>1 DEF CardSet, Promises
    <3> QED  BY <1>2, <3>1, <3>2
  <2>3. edit' \in [Editors -> Edits \cup {Idle}]
    BY <1>1 DEF CatalogTypes
  <2> QED  BY <1>1, <2>1, <2>2, <2>3 DEF CatalogTypes
(* The slug: the catalogue's card stays the catalogue's.                      *)
<1>12. cards[c].slug = "catalog" => slug = "catalog"
  BY <1>1, <1>3, <1>5 DEF Edited, CardSet, Slugs, Exists
<1>13. \/ slug = cards[c].slug
       \/ slug = "catalog" /\ q.to.slug = "catalog" /\ BySlug("catalog") \subseteq {c} /\ ~Inserting
  BY <1>1, <1>3, <1>5 DEF Edited, CardSet, Slugs
<1>14. /\ q.to.slug = "catalog" => slug = "catalog"
       /\ slug = "catalog" => q.to.slug = "catalog" \/ cards[c].slug = "catalog"
  BY <1>1, <1>3, <1>5 DEF Edited, Exists
<1>15. Findable'
  <2>1. \A k \in Cards : cards'[k].slug = IF k = c THEN slug ELSE cards[k].slug
    BY <1>7
  <2>2. BySlug("catalog")' = IF slug = "catalog" THEN BySlug("catalog") \cup {c}
                            ELSE BySlug("catalog")
    BY <1>12, <2>1 DEF BySlug
  <2>3. ofSite' = IF q.to.slug = "catalog" THEN BySlug("catalog") \cup {c} ELSE BySlug("catalog")
    BY <1>1 DEF Findable
  <2>4. cards[c].slug = "catalog" => c \in BySlug("catalog")
    BY DEF BySlug
  <2>5. ofSite' = BySlug("catalog")'
    BY <1>14, <2>2, <2>3, <2>4
  <2>6. ASSUME NEW k \in Cards, NEW l \in Cards, Exists(k)', Exists(l)',
               cards'[k].slug = cards'[l].slug, k # l
        PROVE  FALSE
    <3>1. Exists(k) /\ Exists(l)
      BY <1>1, <1>7, <2>6 DEF Exists
    <3>2. CASE slug = cards[c].slug
      BY <2>1, <2>6, <3>1, <3>2 DEF Findable
    <3>3. CASE slug # cards[c].slug
      <4>1. BySlug("catalog") \subseteq {c} /\ slug = "catalog"
        BY <1>13, <3>3
      <4> QED  BY <2>1, <2>6, <3>1, <4>1 DEF Findable, BySlug
    <3> QED  BY <3>2, <3>3
  <2> QED  BY <2>5, <2>6 DEF Findable
(* The marks: what the edit changed it promises, and the row says so.         *)
<1>16. ASSUME ~catalogBudget.racing
       PROVE  /\ cards[c].edited = q.read.edited /\ edited = cards[c].edited \cup new
              /\ catalogBudget.aside = "never" => gallery = q.to.gallery /\ q.read = cards[c]
  <2>1. /\ cards[c].edited = q.read.edited /\ q.marks = q.read.edited \cup new
        /\ catalogBudget.aside = "never" => q.read = cards[c]
    BY <1>5, <1>16 DEF Edited
  <2>2. edited = q.marks
    BY <2>1
  <2>3. catalogBudget.aside = "never" => gallery = q.to.gallery
    BY <2>1, <1>3 DEF CardSet
  <2> QED  BY <2>1, <2>2, <2>3
<1>17. ASSUME NEW k \in Cards PROVE EditsMarked(k)'
  <2>1. promised \in [Cards -> Promises]
    BY DEF CatalogTypes
  <2>2. CASE k # c
    <3>1. cards'[k] = cards[k] /\ promised'[k] = promised[k]
      BY <1>2, <1>7, <2>1, <2>2
    <3> QED  BY <1>1, <3>1 DEF EditsMarked, Exists
  <2>3. CASE k = c
    <3>1. /\ promised'[c].text = IF "text" \in new THEN q.to.text ELSE promised[c].text
          /\ promised'[c].gallery = IF "gallery" \in new THEN q.to.gallery
                                    ELSE promised[c].gallery
      BY <1>2, <2>1
    <3>2. /\ cards'[c].text = text /\ cards'[c].gallery = gallery /\ cards'[c].edited = edited
      BY <1>7
    <3>3. ASSUME ~catalogBudget.racing, catalogBudget.aside # "anyhow"
          PROVE  \/ promised'[c].text = "free"
                 \/ promised'[c].text = cards'[c].text /\ "text" \in cards'[c].edited
      <4>1. CASE "text" \in new
        BY <1>16, <3>1, <3>2, <3>3, <4>1
      <4>2. CASE "text" \notin new
        <5>1. \/ promised[c].text = "free"
              \/ promised[c].text = cards[c].text /\ "text" \in cards[c].edited
          BY <1>1, <3>3 DEF EditsMarked
        <5>2. promised'[c].text = promised[c].text /\ cards'[c].text = cards[c].text
          BY <3>1, <3>2, <4>2
        <5>3. cards[c].edited \subseteq cards'[c].edited
          BY <1>16, <3>2, <3>3
        <5> QED  BY <5>1, <5>2, <5>3
      <4> QED  BY <4>1, <4>2
    <3>4. ASSUME ~catalogBudget.racing, catalogBudget.aside = "never"
          PROVE  \/ promised'[c].gallery = {"free"}
                 \/ promised'[c].gallery = cards'[c].gallery /\ "gallery" \in cards'[c].edited
      <4>1. CASE "gallery" \in new
        BY <1>16, <3>1, <3>2, <3>4, <4>1
      <4>2. CASE "gallery" \notin new
        <5>1. \/ promised[c].gallery = {"free"}
              \/ promised[c].gallery = cards[c].gallery /\ "gallery" \in cards[c].edited
          BY <1>1, <3>4 DEF EditsMarked
        <5>2. q.to.gallery = cards[c].gallery
          BY <1>4, <1>16, <3>4, <4>2
        <5>3. promised'[c].gallery = promised[c].gallery /\ cards'[c].gallery = cards[c].gallery
          BY <1>16, <3>1, <3>2, <3>4, <4>2, <5>2
        <5>4. cards[c].edited \subseteq cards'[c].edited
          BY <1>16, <3>2, <3>4
        <5> QED  BY <5>1, <5>3, <5>4
      <4> QED  BY <4>1, <4>2
    <3>5. Exists(c)' /\ catalogBudget' = catalogBudget
      BY <1>1, <1>8 DEF Exists
    <3> QED  BY <2>3, <3>3, <3>4, <3>5 DEF EditsMarked
  <2> QED  BY <2>2, <2>3
<1>18. Deploying'
  <2>1. CASE deploy = Idle
    BY <1>1, <2>1 DEF Deploying
  <2>2. CASE deploy # Idle
    <3>1. catalogBudget.aside # "never" /\ deploy \in Deploys
      BY <1>5, <2>2 DEF EditsTrue, CatalogTypes
    <3>2. \/ deploy.c # c \/ ~deploy.writes
          \/ deploy.at = "read" /\ catalogBudget.aside = "anyhow"
      BY <1>1, <2>2, <3>1 DEF Locked, Querying, CatalogTypes, CatalogLimits, Asides
    <3>6. deploy.new => deploy.c # c
      BY <1>1, <2>2 DEF Deploying
    <3>3. ASSUME deploy.new, deploy.at # "read" PROVE BySlug("catalog")' = {}
      <4>1. slug = cards[c].slug
        BY <1>13, <2>2, <3>3 DEF Inserting
      <4>2. \A k \in Cards : cards'[k].slug = cards[k].slug
        BY <1>7, <4>1
      <4>3. BySlug("catalog") = {}
        BY <1>1, <2>2, <3>3 DEF Deploying
      <4>4. BySlug("catalog")' = BySlug("catalog")
        BY <4>2 DEF BySlug
      <4> QED  BY <4>3, <4>4
    <3>4. deploy.c # c => cards'[deploy.c] = cards[deploy.c]
      BY <1>7, <3>1 DEF Deploys
    <3>5. deploy' = deploy /\ catalogBudget' = catalogBudget
      BY <1>1
    <3> QED  BY <1>8, <2>2, <3>1, <3>2, <3>3, <3>4, <3>5, <3>6 DEF Deploying, Exists
  <2> QED  BY <2>1, <2>2
<1>19. EditsTrue'
  <2>1. ASSUME NEW x \in Editing, x # e PROVE Edited(edit[x], cards', catalogBudget)
    <3>1. catalogBudget.racing
      BY <1>5, <2>1 DEF EditsTrue
    <3>2. edit[x] \in Edits /\ Edited(edit[x], cards, catalogBudget)
      BY DEF EditsTrue, CatalogTypes, Editing
    <3>3. CASE edit[x].c = c
      <4>1. /\ edit[x].marks = edit[x].read.edited \cup Changed(edit[x].read, edit[x].to)
            /\ edit[x].read.slug = "catalog" => edit[x].to.slug = "catalog"
            /\ edit[x].read.slug = "catalog" => cards[c].slug = "catalog"
        BY <1>1, <3>2, <3>3 DEF Edited, Exists
      <4>2. cards'[c].slug = slug
        BY <1>7
      <4> QED  BY <1>12, <3>1, <3>3, <4>1, <4>2 DEF Edited
    <3>4. CASE edit[x].c # c
      BY <1>7, <3>1, <3>2, <3>4 DEF Edited, Edits
    <3> QED  BY <3>3, <3>4
  <2>2. ASSUME NEW x \in Editing' PROVE Edited(edit'[x], cards', catalogBudget')
    BY <1>1, <1>9, <1>10, <2>1 DEF Editing
  <2> QED  BY <1>1, <1>10, <2>2 DEF EditsTrue
<1> QED  BY <1>11, <1>15, <1>17, <1>18, <1>19

(* A row appears under an id nobody has in hand.                            *)
LEMMA RowAppears ==
  ASSUME Tended, NEW c \in Cards, Unused(c), NEW row \in CardSet, NEW e \in Editors,
         MayEdit(e), BySlug(row.slug) = {}, ~Inserting,
         cards' = [cards EXCEPT ![c] = row],
         ofSite' = IF row.slug = "catalog" THEN ofSite \cup {c} ELSE ofSite,
         promised' \in [Cards -> Promises],
         \A k \in Cards \ {c} : promised'[k] = promised[k],
         EditsMarked(c)',
         UNCHANGED <<deploy, form, edit>>
  PROVE  Tended'
<1> USE DEF Tended
<1>1. /\ catalogBudget' \in CatalogLimits /\ catalogBudget'.aside = catalogBudget.aside
      /\ catalogBudget'.racing = catalogBudget.racing
  <2>1. catalogBudget \in CatalogLimits
    BY DEF CatalogTypes
  <2>2. CatalogSpends("edits")
    BY DEF MayEdit
  <2> QED  BY ONLY <2>1, <2>2, CatalogCounts
<1>2. cards'[c] = row /\ \A k \in Cards \ {c} : cards'[k] = cards[k]
  BY DEF CatalogTypes
<1>3. row # NoCard /\ ~Exists(c) /\ row.slug \in Slugs
  BY CatalogSets DEF Unused, CardSet
<1>4. CatalogTypes'
  BY <1>1 DEF CatalogTypes
<1>5. BySlug("catalog")' = IF row.slug = "catalog" THEN {c} ELSE BySlug("catalog")
  <2>1. c \notin BySlug("catalog")
    BY <1>3 DEF BySlug, Exists, NoCard
  <2> QED  BY <1>2, <2>1 DEF BySlug
<1>6. Findable'
  <2>1. ofSite' = BySlug("catalog")'
    BY <1>5 DEF Findable
  <2>2. ASSUME NEW k \in Cards, NEW l \in Cards, Exists(k)', Exists(l)',
               cards'[k].slug = cards'[l].slug, k # l
        PROVE  FALSE
    <3>1. CASE k # c /\ l # c
      BY <1>2, <2>2, <3>1 DEF Findable, Exists
    <3>2. CASE k = c
      BY <1>2, <2>2, <3>2 DEF BySlug
    <3>3. CASE l = c
      BY <1>2, <2>2, <3>3 DEF BySlug
    <3> QED  BY <3>1, <3>2, <3>3
  <2> QED  BY <2>1, <2>2 DEF Findable
<1>7. ASSUME NEW k \in Cards, k # c PROVE EditsMarked(k)'
  BY <1>1, <1>2, <1>7 DEF EditsMarked, Exists
<1>8. Deploying'
  <2>1. CASE deploy = Idle
    BY <2>1 DEF Deploying
  <2>2. CASE deploy # Idle
    <3>1. /\ deploy \in Deploys /\ deploy.c # c /\ (deploy.new => deploy.at = "read")
      BY <2>2 DEF CatalogTypes, Unused, Inserting
    <3>2. cards'[deploy.c] = cards[deploy.c]
      BY <1>2, <3>1 DEF Deploys
    <3> QED  BY <1>1, <2>2, <3>1, <3>2 DEF Deploying, Exists
  <2> QED  BY <2>1, <2>2
<1>9. EditsTrue'
  <2>1. ASSUME NEW x \in Editing PROVE Edited(edit[x], cards', catalogBudget')
    <3>1. edit[x] \in Edits /\ edit[x].c # c /\ Edited(edit[x], cards, catalogBudget)
      BY DEF EditsTrue, CatalogTypes, Editing, Unused
    <3>2. cards'[edit[x].c] = cards[edit[x].c]
      BY <1>2, <3>1 DEF Edits
    <3> QED  BY <1>1, <3>1, <3>2 DEF Edited
  <2>2. Editing' = Editing
    BY DEF Editing
  <2> QED  BY <1>1, <2>1, <2>2 DEF EditsTrue
<1> QED  BY <1>4, <1>6, <1>7, <1>8, <1>9

LEMMA CardCreated ==
  ASSUME Tended, NEW e \in Editors, NEW slug \in {"catalog", "own"}, NEW text \in Texts,
         CreateCard(e, slug, text)
  PROVE  Tended'
<1>1. PICK c \in Cards :
        /\ Unused(c)
        /\ cards' = [cards EXCEPT ![c] = Card(slug, text, {}, {})]
        /\ ofSite' = IF slug = "catalog" THEN ofSite \cup {c} ELSE ofSite
  BY DEF CreateCard
<1> SUFFICES ASSUME NEW row, row = Card(slug, text, {}, {}) PROVE Tended'
  OBVIOUS
<1>2. row \in CardSet /\ row.slug = slug
  BY DEF Card, CardSet, Slugs
<1>3. /\ MayEdit(e) /\ BySlug(slug) = {} /\ ~Inserting
      /\ UNCHANGED <<promised, deploy, form, edit>>
  BY DEF CreateCard
<1>4. promised[c] = Free /\ promised \in [Cards -> Promises]
  BY <1>1 DEF Unused, Tended, EditsMarked, CatalogTypes
<1>5. EditsMarked(c)'
  <2>1. cards'[c] # NoCard
    BY <1>1, <1>2, CatalogSets DEF Tended, CatalogTypes
  <2> QED  BY <1>3, <1>4, <2>1, CatalogSets DEF EditsMarked, Exists
<1> QED  BY <1>1, <1>2, <1>3, <1>4, <1>5, RowAppears

LEMMA FilterCreated ==
  ASSUME Tended, NEW e \in Editors, NEW text \in Texts, CreateFilter(e, text)
  PROVE  Tended'
<1>1. PICK c \in Cards :
        /\ Unused(c)
        /\ cards' = [cards EXCEPT ![c] = Card("catalog", text, {}, Fields)]
        /\ promised' = [promised EXCEPT ![c].text = text]
        /\ ofSite' = ofSite \cup {c}
  BY DEF CreateFilter
<1> SUFFICES ASSUME NEW row, row = Card("catalog", text, {}, Fields) PROVE Tended'
  OBVIOUS
<1>2. row \in CardSet /\ row.slug = "catalog" /\ row.text = text /\ row.edited = Fields
  BY DEF Card, CardSet, Slugs
<1>3. /\ MayEdit(e) /\ BySlug("catalog") = {} /\ ~Inserting
      /\ UNCHANGED <<deploy, form, edit>>
  BY DEF CreateFilter
<1>4. promised[c] = Free /\ promised \in [Cards -> Promises]
  BY <1>1 DEF Unused, Tended, EditsMarked, CatalogTypes
<1>5. /\ promised' \in [Cards -> Promises]
      /\ promised'[c].text = text /\ promised'[c].gallery = {"free"}
      /\ \A k \in Cards \ {c} : promised'[k] = promised[k]
  BY <1>1, <1>4 DEF Free, Promises
<1>6. EditsMarked(c)'
  <2>1. cards'[c] = row /\ row # NoCard /\ "text" \in Fields
    BY <1>1, <1>2, CatalogSets DEF Tended, CatalogTypes, Fields
  <2> QED  BY <1>2, <1>5, <2>1 DEF EditsMarked, Exists
<1> QED  BY <1>1, <1>2, <1>3, <1>5, <1>6, RowAppears

LEMMA CardDeleted ==
  ASSUME Tended, NEW e \in Editors, NEW c \in Cards, DeleteCard(e, c)
  PROVE  Tended'
<1> USE DEF Tended
<1>1. /\ Exists(c) /\ ~Locked(c) /\ MayEdit(e)
      /\ cards' = [cards EXCEPT ![c] = NoCard]
      /\ promised' = [promised EXCEPT ![c] = Free]
      /\ ofSite' = ofSite \ {c}
      /\ form' = [x \in Editors |-> IF form[x] # Idle /\ form[x].c = c THEN Idle ELSE form[x]]
      /\ UNCHANGED <<deploy, edit>>
  BY DEF DeleteCard
<1>2. /\ catalogBudget' \in CatalogLimits /\ catalogBudget'.aside = catalogBudget.aside
      /\ catalogBudget'.racing = catalogBudget.racing
  <2>1. catalogBudget \in CatalogLimits
    BY DEF CatalogTypes
  <2>2. CatalogSpends("edits")
    BY <1>1 DEF MayEdit
  <2> QED  BY ONLY <2>1, <2>2, CatalogCounts
<1>3. /\ cards'[c] = NoCard /\ promised'[c] = Free
      /\ \A k \in Cards \ {c} : cards'[k] = cards[k] /\ promised'[k] = promised[k]
  BY <1>1 DEF CatalogTypes
<1>4. CatalogTypes'
  <2>1. promised' \in [Cards -> Promises]
    BY <1>1, CatalogSets DEF CatalogTypes
  <2>2. form' \in [Editors -> Forms \cup {Idle}]
    BY <1>1 DEF CatalogTypes
  <2> QED  BY <1>1, <1>2, <2>1, <2>2 DEF CatalogTypes
<1>5. BySlug("catalog")' = BySlug("catalog") \ {c}
  <2>1. NoCard.slug # "catalog"
    BY DEF NoCard
  <2> QED  BY <1>3, <2>1 DEF BySlug
<1>6. Findable'
  BY <1>1, <1>3, <1>5 DEF Findable, Exists
<1>7. ASSUME NEW k \in Cards PROVE EditsMarked(k)'
  <2>1. CASE k = c
    BY <1>3, <2>1 DEF EditsMarked, Exists
  <2>2. CASE k # c
    BY <1>2, <1>3, <2>2 DEF EditsMarked, Exists
  <2> QED  BY <2>1, <2>2
<1>8. Deploying'
  <2>1. CASE deploy = Idle
    BY <1>1, <2>1 DEF Deploying
  <2>2. CASE deploy # Idle
    <3>1. /\ catalogBudget.aside # "never" /\ deploy \in Deploys
          /\ deploy.c = c => ~deploy.writes \/ deploy.at = "read"
      BY <1>1, <2>2 DEF MayEdit, Locked, CatalogTypes
    <3>2. deploy.c # c => cards'[deploy.c] = cards[deploy.c]
      BY <1>3, <3>1 DEF Deploys
    <3>3. /\ deploy.new => deploy.c # c
          /\ deploy.new /\ deploy.at # "read" => BySlug("catalog")' = {}
      BY <1>1, <1>5, <2>2 DEF Deploying
    <3> QED  BY <1>1, <1>2, <1>3, <2>2, <3>1, <3>2, <3>3 DEF Deploying, Exists
  <2> QED  BY <2>1, <2>2
<1>9. EditsTrue'
  <2>1. ASSUME NEW x \in Editing PROVE Edited(edit[x], cards', catalogBudget')
    <3>1. edit[x] \in Edits /\ Edited(edit[x], cards, catalogBudget)
      BY DEF EditsTrue, CatalogTypes, Editing
    <3>2. catalogBudget.racing
      BY <1>1 DEF MayEdit
    <3>3. CASE edit[x].c = c
      BY <1>2, <1>3, <3>1, <3>2, <3>3 DEF Edited
    <3>4. CASE edit[x].c # c
      BY <1>2, <1>3, <3>1, <3>2, <3>4 DEF Edited, Edits
    <3> QED  BY <3>3, <3>4
  <2>2. Editing' = Editing
    BY <1>1 DEF Editing
  <2> QED  BY <1>1, <1>2, <2>1, <2>2 DEF EditsTrue
<1> QED  BY <1>4, <1>6, <1>7, <1>8, <1>9

LEMMA TendedStep ==
  ASSUME Tended, [CatalogNext]_catalogVars
  PROVE  Tended'
<1>1. ASSUME NEW b \in Bundles, DeployCard(b) PROVE Tended'
  BY <1>1, BundlesTyped, DeployReads DEF Tended
<1>2. ASSUME NEW e \in Editors, form[e] # Idle, NEW p \in Payloads(form[e].card),
             StartEdit(e, p)
      PROVE  Tended'
  <2>1. form[e].card \in CardSet
    BY <1>2 DEF Tended, CatalogTypes, Forms
  <2> QED  BY <1>2, <2>1, PayloadsTyped, EditStarts
<1>3. CASE UNCHANGED catalogVars
  BY <1>3 DEF catalogVars, Tended, CatalogTypes, Findable, EditsMarked, Deploying, EditsTrue, Edited,
              Editing, Exists, BySlug
<1> QED  BY <1>1, <1>2, <1>3, DeployFlushes, DeployTurns, DeployEnds, DeployStops, EditWrites, EditStops,
            FormOpens, CardDeleted, CardCreated, FilterCreated DEF CatalogNext

LEMMA TendedEdits ==
  ASSUME Tended
  PROVE  CatalogTypeOK /\ EditsKept
<1> USE DEF Tended
<1>1. \A s \in Slugs : Cardinality(BySlug(s)) <= 1
  <2>1. SUFFICES ASSUME NEW s \in Slugs PROVE Cardinality(BySlug(s)) <= 1
    OBVIOUS
  <2>2. CASE BySlug(s) = {}
    BY <2>2, FS_EmptySet
  <2>3. CASE BySlug(s) # {}
    <3>1. PICK c \in Cards : c \in BySlug(s)
      BY <2>3 DEF BySlug
    <3>2. BySlug(s) = {c}
      BY <3>1, RowsOfSlug DEF Findable
    <3>3. Cardinality({c}) = 1
      BY FS_Singleton
    <3> QED  BY <3>2, <3>3
  <2> QED  BY <2>2, <2>3
<1>2. CatalogTypeOK
  <2>1. \A c \in Cards : Exists(c) => cards[c] \in CardSet
    BY DEF CatalogTypes, Exists
  <2> QED  BY <1>1, <2>1 DEF CatalogTypeOK, CardSet, Slugs
<1>3. Cardinality(ofSite) <= 1
  BY <1>1 DEF Findable, Slugs
<1>4. EditsKept
  BY <1>3, CatalogSets DEF EditsKept, EditsMarked
<1> QED  BY <1>2, <1>4

(* What an operator has changed by hand stays as they left it through every   *)
(* deploy: a text also when the deploy runs beside the edit, unless the edit  *)
(* commits between the deploy's query and its UPDATE; photos when no deploy   *)
(* runs beside it.  No deploy, at whatever moment, makes a second card beside *)
(* one it no longer finds.                                                  *)
THEOREM DeploysKeepEdits == CatalogSpec => [](CatalogTypeOK /\ EditsKept)
<1> QED  BY CatalogBegins, TendedStep, TendedEdits, PTL DEF CatalogSpec

-----------------------------------------------------------------------------
(* The lockers, cells and items of the fleet, of module Fleet.               *)

HireRows == [item : Items, at : SUBSET Points, state : {"booked", "ready", "out", "done"}]
FleetTypes ==
  /\ points \in [Points -> PointRows \cup {NoId}]
  /\ boxes \in [Boxes -> BoxRows \cup {NoId}]
  /\ stock \in [Items -> ItemRows \cup {NoId}]
  /\ hires \subseteq HireRows /\ sweep.boxes \subseteq Boxes

(* A cell is in a locker that exists, and holds one item at most.            *)
Standing == \A b \in Made(boxes) : boxes[b].point \in Made(points)
Single(rows) ==
  \A i, j \in Items :
    rows[i] # NoId /\ rows[j] # NoId /\ rows[i].box = rows[j].box /\ rows[i].box # NoId => i = j
OneInside == Single(stock)

(* The movement m tells where the item of an unreturned rental h was taken,   *)
(* and no script under work has read that cell.                             *)
Tells(m, h, rows, reading) ==
  /\ m.item = h.item /\ m.pickup /\ m.to = NoId
  /\ m.from \in Made(rows) /\ rows[m.from].point \in h.at
  /\ reading.script => m.from \notin reading.boxes
Rests(h, lockers, units) ==
  /\ units[h.item] # NoId /\ h.at # {} /\ h.at \subseteq Made(lockers)
Found(h, trail, rows, reading) ==
  h.state = "out" => \E m \in trail : Tells(m, h, rows, reading)

Housed ==
  /\ FleetTypes /\ Standing /\ OneInside
  /\ \A h \in hires : Rests(h, points, stock) /\ Found(h, moves, boxes, sweep)

LEMMA FleetRows ==
  /\ NoId \notin PointRows /\ NoId \notin BoxRows /\ NoId \notin ItemRows
  /\ NoId \notin Points /\ NoId \notin Boxes /\ NoId \notin Items
BY FleetAssumption

LEMMA MadeRows ==
  ASSUME FleetTypes
  PROVE  /\ Made(points) = {p \in Points : points[p] # NoId}
         /\ Made(boxes) = {b \in Boxes : boxes[b] # NoId}
         /\ Made(stock) = {i \in Items : stock[i] # NoId}
         /\ \A p \in Made(points) : points[p] \in PointRows
         /\ \A b \in Made(boxes) : boxes[b] \in BoxRows
         /\ \A i \in Made(stock) : stock[i] \in ItemRows
BY DEF Made, FleetTypes

LEMMA ThreeOf ==
  ASSUME NEW S, \E x, y, z \in S : x # y /\ x # z /\ y # z
  PROVE  /\ Three(S)[1] \in S /\ Three(S)[2] \in S /\ Three(S)[3] \in S
         /\ Three(S)[1] # Three(S)[2] /\ Three(S)[1] # Three(S)[3]
         /\ Three(S)[2] # Three(S)[3]
<1>1. PICK x \in S, y \in S, z \in S : x # y /\ x # z /\ y # z
  OBVIOUS
<1> DEFINE Apart(t) == t[1] # t[2] /\ t[1] # t[3] /\ t[2] # t[3]
<1>2. <<x, y, z>> \in S \X S \X S /\ Apart(<<x, y, z>>)
  BY <1>1
<1>3. Three(S) \in S \X S \X S /\ Apart(Three(S))
  <2>1. Three(S) = CHOOSE t \in S \X S \X S : Apart(t)
    BY DEF Three
  <2> HIDE DEF Apart
  <2> QED  BY <1>2, <2>1
<1> QED  BY <1>3

LEMMA FleetBegins ==
  ASSUME FleetInit
  PROVE  Housed
<1> DEFINE p == CHOOSE x \in Points : TRUE
           q == CHOOSE x \in Points : x # p
           a == Three(Boxes)[1]  b == Three(Boxes)[2]  c == Three(Boxes)[3]
           i == Three(Items)[1]  j == Three(Items)[2]  k == Three(Items)[3]
           kind == IF fleetBudget.second \in {"machine", "fake"} THEN "esi" ELSE "seed"
           was == fleetBudget.past
           place == IF was = "out" THEN NoId ELSE c
           status == CASE was = "ready" -> "RESERVED" [] was = "out" -> "RENTED"
                       [] OTHER -> "AVAILABLE"
           power == IF kind = "esi" THEN "ONLINE" ELSE "OFFLINE"
<1>1. p \in Points /\ q \in Points /\ p # q
  <2>1. PICK x \in Points, y \in Points : x # y
    BY FleetAssumption
  <2>2. p \in Points
    BY <2>1
  <2>3. \E z \in Points : z # p
    BY <2>1
  <2> HIDE DEF p
  <2> QED  BY <2>2, <2>3
<1>2. /\ a \in Boxes /\ b \in Boxes /\ c \in Boxes /\ a # b /\ a # c /\ b # c
      /\ i \in Items /\ j \in Items /\ k \in Items /\ i # j /\ i # k /\ j # k
  BY FleetAssumption, ThreeOf
<1>3. /\ fleetBudget.second \in Serials /\ was \in {"none", "ready", "out", "done"}
      /\ kind \in {"esi", "seed"} /\ power \in {"ONLINE", "OFFLINE"}
      /\ status \in {"AVAILABLE", "RESERVED", "RENTED"}
      /\ place \in Boxes \cup {NoId}
      /\ was # "out" => place = c
  BY <1>2, FleetAssumption DEF FleetInit
<1>4. points = [x \in Points |->
        CASE x = p -> Point("seed", "nevsky", "OFFLINE")
          [] x = q -> Point(kind, fleetBudget.second, power)
          [] OTHER -> NoId]
  BY DEF FleetInit
<1>5. boxes = [x \in Boxes |-> CASE x = a -> Box(p, "A1") [] x = b -> Box(p, "B1")
                                 [] x = c -> Box(q, "A1") [] OTHER -> NoId]
  BY DEF FleetInit
<1>6. stock = [x \in Items |->
        CASE x = i -> Item(a, "AVAILABLE", "tagged")
          [] x = j -> Item(b, "AVAILABLE", "plain")
          [] x = k -> Item(place, status, "plain")
          [] OTHER -> NoId]
  BY DEF FleetInit
<1>7. /\ hires = IF was = "none" THEN {} ELSE {Hire(k, {q}, was)}
      /\ moves = IF was \in {"out", "done"} THEN {Move(k, c, NoId, TRUE)} ELSE {}
      /\ sweep = NoSweep
  BY DEF FleetInit
<1> HIDE DEF p, q, a, b, c, i, j, k, kind, was, place, status, power
<1>8. /\ Point("seed", "nevsky", "OFFLINE") \in PointRows
      /\ Point(kind, fleetBudget.second, power) \in PointRows
      /\ Box(p, "A1") \in BoxRows /\ Box(p, "B1") \in BoxRows /\ Box(q, "A1") \in BoxRows
      /\ Item(a, "AVAILABLE", "tagged") \in ItemRows
      /\ Item(b, "AVAILABLE", "plain") \in ItemRows
      /\ Item(place, status, "plain") \in ItemRows
  BY <1>1, <1>2, <1>3 DEF Point, PointRows, Box, BoxRows, Item, ItemRows, Serials
<1>9. points \in [Points -> PointRows \cup {NoId}] /\ points[p] # NoId /\ points[q] # NoId
  BY <1>1, <1>4, <1>8, FleetRows
<1>10. /\ boxes \in [Boxes -> BoxRows \cup {NoId}]
       /\ \A x \in Boxes : boxes[x] # NoId => boxes[x].point \in {p, q}
       /\ boxes[c] # NoId /\ boxes[c].point = q
  <2>1. /\ boxes[a] = Box(p, "A1") /\ boxes[b] = Box(p, "B1") /\ boxes[c] = Box(q, "A1")
        /\ \A x \in Boxes \ {a, b, c} : boxes[x] = NoId
    BY <1>2, <1>5
  <2>2. boxes \in [Boxes -> BoxRows \cup {NoId}]
    BY <1>5, <1>8
  <2> QED  BY <1>8, <2>1, <2>2, FleetRows DEF Box
<1>11. /\ stock \in [Items -> ItemRows \cup {NoId}] /\ stock[k] # NoId
       /\ \A x \in Items : stock[x] # NoId => x \in {i, j, k}
       /\ stock[i].box = a /\ stock[j].box = b /\ stock[k].box = place
  <2>1. /\ stock[i] = Item(a, "AVAILABLE", "tagged") /\ stock[j] = Item(b, "AVAILABLE", "plain")
        /\ stock[k] = Item(place, status, "plain")
        /\ \A x \in Items \ {i, j, k} : stock[x] = NoId
    BY <1>2, <1>6
  <2>2. stock \in [Items -> ItemRows \cup {NoId}]
    BY <1>6, <1>8
  <2> QED  BY <1>8, <2>1, <2>2, FleetRows DEF Item
<1>12. FleetTypes
  <2>1. hires \subseteq HireRows
    BY <1>1, <1>2, <1>3, <1>7 DEF HireRows, Hire
  <2>2. sweep.boxes \subseteq Boxes
    BY <1>7 DEF NoSweep
  <2> QED  BY <1>9, <1>10, <1>11, <2>1, <2>2 DEF FleetTypes
<1>13. Standing
  BY <1>1, <1>9, <1>10, <1>12, MadeRows DEF Standing
<1>14. OneInside
  <2>1. a # place /\ b # place
    BY <1>2, <1>3, FleetRows DEF place
  <2> QED  BY <1>2, <1>11, <2>1 DEF OneInside, Single
<1>15. ASSUME NEW h \in hires PROVE Rests(h, points, stock) /\ Found(h, moves, boxes, sweep)
  <2>1. h.item = k /\ h.at = {q} /\ h.state = was
    BY <1>7, <1>15 DEF Hire
  <2>2. Rests(h, points, stock)
    BY <1>1, <1>9, <1>11, <1>12, <2>1, MadeRows DEF Rests
  <2>3. ASSUME h.state = "out" PROVE \E m \in moves : Tells(m, h, boxes, sweep)
    <3>1. Move(k, c, NoId, TRUE) \in moves
      BY <1>7, <2>1, <2>3
    <3>2. Tells(Move(k, c, NoId, TRUE), h, boxes, sweep)
      BY <1>2, <1>7, <1>10, <1>12, <2>1, MadeRows DEF Tells, Move, NoSweep
    <3> QED  BY <3>1, <3>2
  <2> QED  BY <2>2, <2>3 DEF Found
<1> QED  BY <1>12, <1>13, <1>14, <1>15 DEF Housed

(* What a reservation rests on is never taken away: rows stay, cells stay in   *)
(* their lockers, movements stay.                                           *)
Grows ==
  /\ \A p \in Points : points[p] # NoId => points'[p] # NoId
  /\ \A b \in Boxes : boxes[b] # NoId => boxes'[b] # NoId /\ boxes'[b].point = boxes[b].point
  /\ \A i \in Items : stock[i] # NoId => stock'[i] # NoId
  /\ moves \subseteq moves' /\ sweep' = sweep

LEMMA HireKeeps ==
  ASSUME Housed, FleetTypes', Grows, NEW h \in hires
  PROVE  Rests(h, points', stock') /\ Found(h, moves', boxes', sweep')
<1>1. h \in HireRows /\ Rests(h, points, stock) /\ Found(h, moves, boxes, sweep)
  BY DEF Housed, FleetTypes
<1>2. Rests(h, points', stock')
  BY <1>1, MadeRows DEF Housed, Rests, Grows, Made, FleetTypes, HireRows
<1>3. ASSUME h.state = "out" PROVE \E m \in moves' : Tells(m, h, boxes', sweep')
  <2>1. PICK m \in moves : Tells(m, h, boxes, sweep)
    BY <1>1, <1>3 DEF Found
  <2>2. m.from \in Boxes /\ boxes[m.from] # NoId
    BY <2>1 DEF Tells, Made, Housed, FleetTypes
  <2>3. m.from \in Made(boxes') /\ boxes'[m.from].point = boxes[m.from].point
    BY <2>2 DEF Grows, Made, FleetTypes
  <2> QED  BY <2>1, <2>3 DEF Tells, Grows
<1> QED  BY <1>2, <1>3 DEF Found

(* A row of an item is written, into a cell that holds nothing else.         *)
Puts(rows, put, i, row) ==
  /\ put \in [Items -> ItemRows \cup {NoId}] /\ put[i] = row
  /\ \A k \in Items \ {i} : put[k] = rows[k]
HasRoom(rows, i, row) ==
  row.box = NoId \/ \A k \in Items \ {i} : rows[k] # NoId => rows[k].box # row.box

LEMMA RowPut ==
  ASSUME NEW rows, Single(rows), NEW put, NEW i \in Items, NEW row \in ItemRows,
         HasRoom(rows, i, row), Puts(rows, put, i, row)
  PROVE  Single(put) /\ \A k \in Items : rows[k] # NoId => put[k] # NoId
<1>1. put[i] = row /\ \A k \in Items \ {i} : put[k] = rows[k]
  BY DEF Puts
<1>2. row # NoId
  BY FleetRows
<1>3. Single(put)
  <2>1. SUFFICES ASSUME NEW k \in Items, NEW l \in Items, put[k] # NoId, put[l] # NoId,
                        put[k].box = put[l].box, put[k].box # NoId, k # l
                 PROVE  FALSE
    BY DEF Single
  <2>2. CASE k # i /\ l # i
    BY <1>1, <2>1, <2>2 DEF Single
  <2>3. CASE k = i
    BY <1>1, <2>1, <2>3 DEF HasRoom
  <2>4. CASE l = i
    BY <1>1, <2>1, <2>4 DEF HasRoom
  <2> QED  BY <2>2, <2>3, <2>4
<1> QED  BY <1>1, <1>2, <1>3

LEMMA PointWritten ==
  ASSUME Housed, NEW p \in Points, NEW row \in PointRows,
         points' = [points EXCEPT ![p] = row],
         UNCHANGED <<boxes, stock, hires, moves, sweep>>
  PROVE  Housed'
<1>1. points' \in [Points -> PointRows \cup {NoId}]
  BY DEF Housed, FleetTypes
<1>2. FleetTypes'
  BY <1>1 DEF Housed, FleetTypes
<1>3. \A x \in Points : points[x] # NoId => points'[x] # NoId
  BY FleetRows DEF Housed, FleetTypes
<1>4. Grows
  BY <1>3 DEF Grows
<1>5. Standing'
  BY <1>1, <1>3 DEF Housed, Standing, Made, FleetTypes
<1>6. OneInside'
  BY DEF Housed, OneInside
<1> QED  BY <1>2, <1>4, <1>5, <1>6, HireKeeps DEF Housed

LEMMA CreatePointKeeps ==
  ASSUME Housed, NEW row \in PointRows, CreatePoint(row)
  PROVE  Housed'
<1>1. Fresh(points) \in Points
  <2>1. DOMAIN points = Points /\ \E x \in Points : points[x] = NoId
    BY DEF CreatePoint, Housed, FleetTypes, Made
  <2> QED  BY <2>1 DEF Fresh
<1> QED  BY <1>1, PointWritten DEF CreatePoint

LEMMA UpdatePointKeeps ==
  ASSUME Housed, NEW p \in Points, NEW row \in PointRows, UpdatePoint(p, row)
  PROVE  Housed'
BY PointWritten DEF UpdatePoint

LEMMA MachineHeardKeeps ==
  ASSUME Housed, MachineHeard
  PROVE  Housed'
<1>1. PICK p \in Made(points) : points' = [points EXCEPT ![p].status = "ONLINE"]
  BY DEF MachineHeard
<1>2. p \in Points /\ points[p] \in PointRows
  BY MadeRows DEF Housed
<1>3. [points[p] EXCEPT !.status = "ONLINE"] \in PointRows
  BY <1>2 DEF PointRows
<1>4. points' = [points EXCEPT ![p] = [points[p] EXCEPT !.status = "ONLINE"]]
  BY <1>1
<1> QED  BY <1>2, <1>3, <1>4, PointWritten DEF MachineHeard

LEMMA BoxWritten ==
  ASSUME Housed, NEW b \in Boxes, NEW row \in BoxRows,
         points[row.point] # NoId, boxes[b] # NoId => row.point = boxes[b].point,
         boxes' = [boxes EXCEPT ![b] = row],
         UNCHANGED <<points, stock, hires, moves, sweep>>
  PROVE  Housed'
<1>1. boxes' \in [Boxes -> BoxRows \cup {NoId}]
  BY DEF Housed, FleetTypes
<1>2. FleetTypes'
  BY <1>1 DEF Housed, FleetTypes
<1>3. boxes'[b] = row /\ \A x \in Boxes \ {b} : boxes'[x] = boxes[x]
  BY DEF Housed, FleetTypes
<1>4. Grows
  BY <1>3, FleetRows DEF Grows
<1>5. Standing'
  <2>1. row.point \in Made(points)
    BY MadeRows DEF Housed, BoxRows
  <2>2. Made(boxes) = {x \in Boxes : boxes[x] # NoId} /\ Made(boxes') \subseteq Boxes
        /\ \A x \in Made(boxes') : boxes'[x] # NoId
    BY <1>1, MadeRows DEF Housed, Made
  <2> QED  BY <1>3, <2>1, <2>2 DEF Housed, Standing
<1>6. OneInside'
  BY DEF Housed, OneInside
<1> QED  BY <1>2, <1>4, <1>5, <1>6, HireKeeps DEF Housed

LEMMA CreateBoxKeeps ==
  ASSUME Housed, NEW p \in Points, CreateBox(p)
  PROVE  Housed'
<1>1. Fresh(boxes) \in Boxes /\ boxes[Fresh(boxes)] = NoId
  <2>1. DOMAIN boxes = Boxes /\ \E x \in Boxes : boxes[x] = NoId
    BY DEF CreateBox, Housed, FleetTypes, Made
  <2> QED  BY <2>1 DEF Fresh
<1>2. Box(p, "C1") \in BoxRows /\ Box(p, "C1").point = p
  BY DEF Box, BoxRows
<1> QED  BY <1>1, <1>2, BoxWritten DEF CreateBox

LEMMA RenameBoxKeeps ==
  ASSUME Housed, NEW b \in Boxes, RenameBox(b)
  PROVE  Housed'
<1>1. boxes[b] # NoId /\ boxes' = [boxes EXCEPT ![b].label = "C1"]
  BY DEF RenameBox
<1>2. b \in Made(boxes) /\ boxes[b] \in BoxRows
  BY <1>1, MadeRows DEF Housed
<1>3. /\ [boxes[b] EXCEPT !.label = "C1"] \in BoxRows
      /\ [boxes[b] EXCEPT !.label = "C1"].point = boxes[b].point
  BY <1>2 DEF BoxRows
<1>4. boxes' = [boxes EXCEPT ![b] = [boxes[b] EXCEPT !.label = "C1"]]
  BY <1>1
<1>5. points[boxes[b].point] # NoId
  BY <1>2, MadeRows DEF Housed, Standing
<1> QED  BY <1>3, <1>4, <1>5, BoxWritten DEF RenameBox

(* A handler writes one item; the reservations it changes rest as before.    *)
HiresRest ==
  \A h \in hires' :
    \/ h \in hires
    \/ /\ h \in HireRows /\ Rests(h, points, stock)
       /\ Found(h, moves', boxes', sweep')

LEMMA ItemWritten ==
  ASSUME Housed, NEW i \in Items, NEW row \in ItemRows,
         HasRoom(stock, i, row), Puts(stock, stock', i, row),
         moves \subseteq moves', UNCHANGED <<points, boxes, sweep>>, HiresRest
  PROVE  Housed'
<1>1. Single(stock') /\ \A k \in Items : stock[k] # NoId => stock'[k] # NoId
  <2>1. Single(stock)
    BY DEF Housed, OneInside
  <2> QED  BY <2>1, RowPut
<1>2. FleetTypes'
  BY DEF Housed, FleetTypes, Puts, HiresRest
<1>3. Grows
  BY <1>1 DEF Grows
<1>4. ASSUME NEW h \in hires' PROVE Rests(h, points', stock') /\ Found(h, moves', boxes', sweep')
  <2>1. CASE h \in hires
    BY <1>2, <1>3, <2>1, HireKeeps
  <2>2. CASE h \in HireRows /\ Rests(h, points, stock) /\ Found(h, moves', boxes', sweep')
    BY <1>1, <2>2 DEF Rests, HireRows
  <2> QED  BY <2>1, <2>2 DEF HiresRest
<1> QED  BY <1>1, <1>2, <1>4 DEF Housed, Standing, OneInside

(* EXCEPT writes one row.                                                   *)
LEMMA ExceptPuts ==
  ASSUME NEW rows \in [Items -> ItemRows \cup {NoId}], NEW i \in Items, NEW row \in ItemRows
  PROVE  Puts(rows, [rows EXCEPT ![i] = row], i, row)
BY DEF Puts

LEMMA EmptyBox ==
  ASSUME FleetTypes, NEW b \in Boxes, NEW i \in Items, Inside({b}) \ {i} = {}
  PROVE  \A row : row.box = b => HasRoom(stock, i, row)
BY MadeRows DEF Inside, HasRoom

LEMMA PutItemKeeps ==
  ASSUME Housed, NEW i \in Items, NEW b \in Boxes, PutItem(i, b)
  PROVE  Housed'
<1> DEFINE row == [stock[i] EXCEPT !.box = b]
<1>1. stock[i] \in ItemRows
  BY DEF PutItem, Housed, FleetTypes
<1>2. row \in ItemRows /\ row.box = b
  BY <1>1 DEF ItemRows
<1>3. HasRoom(stock, i, row)
  BY <1>2, EmptyBox DEF PutItem, Housed
<1>4. Puts(stock, stock', i, row)
  BY <1>2 DEF PutItem, Puts, Housed, FleetTypes
<1> HIDE DEF row
<1>5. moves \subseteq moves' /\ UNCHANGED <<points, boxes, hires, sweep>>
  BY DEF PutItem
<1> QED  BY <1>2, <1>3, <1>4, <1>5, ItemWritten DEF HiresRest

LEMMA TakeItemKeeps ==
  ASSUME Housed, NEW i \in Items, TakeItem(i)
  PROVE  Housed'
<1> DEFINE row == [stock[i] EXCEPT !.box = NoId]
<1>1. stock[i] \in ItemRows
  BY DEF TakeItem, Housed, FleetTypes
<1>2. row \in ItemRows /\ row.box = NoId
  BY <1>1 DEF ItemRows
<1>3. Puts(stock, stock', i, row)
  BY <1>2 DEF TakeItem, Puts, Housed, FleetTypes
<1>4. HasRoom(stock, i, row)
  BY <1>2 DEF HasRoom
<1> HIDE DEF row
<1>5. moves \subseteq moves' /\ UNCHANGED <<points, boxes, hires, sweep>>
  BY DEF TakeItem
<1> QED  BY <1>2, <1>3, <1>4, <1>5, ItemWritten DEF HiresRest

(* A handler changes only the status of the item.                           *)
LEMMA StatusWritten ==
  ASSUME Housed, NEW i \in Items, stock[i] # NoId,
         NEW status \in {"AVAILABLE", "RESERVED", "RENTED"},
         stock' = [stock EXCEPT ![i].status = status],
         UNCHANGED <<points, boxes, moves, sweep>>, HiresRest
  PROVE  Housed'
<1> DEFINE row == [stock[i] EXCEPT !.status = status]
<1>1. stock[i] \in ItemRows
  BY DEF Housed, FleetTypes
<1>2. row \in ItemRows /\ row.box = stock[i].box
  BY <1>1 DEF ItemRows
<1>3. HasRoom(stock, i, row)
  BY <1>2 DEF Housed, OneInside, Single, HasRoom
<1>4. Puts(stock, stock', i, row)
  BY <1>2 DEF Puts, Housed, FleetTypes
<1> HIDE DEF row
<1> QED  BY <1>2, <1>3, <1>4, ItemWritten

LEMMA BookKeeps ==
  ASSUME Housed, NEW i \in Items, NEW p \in Points, Book(i, p)
  PROVE  Housed'
<1> DEFINE h == Hire(i, {p}, "booked")
<1>1. /\ hires' = hires \cup {h}
      /\ stock' = [stock EXCEPT ![i].status = "RESERVED"]
      /\ points[p] # NoId /\ stock[i] # NoId
      /\ UNCHANGED <<points, boxes, moves, sweep>>
  BY DEF Book, IsBookable, Inside, Made
<1>2. h \in HireRows /\ h.item = i /\ h.at = {p} /\ h.state = "booked"
  BY DEF Hire, HireRows
<1> HIDE DEF h
<1>3. Rests(h, points, stock) /\ Found(h, moves', boxes', sweep')
  BY <1>1, <1>2, MadeRows DEF Rests, Found, Housed
<1>4. HiresRest
  BY <1>1, <1>2, <1>3 DEF HiresRest
<1> QED  BY <1>1, <1>4, StatusWritten

LEMMA ConfirmKeeps ==
  ASSUME Housed, NEW h \in hires, Confirm(h)
  PROVE  Housed'
<1> DEFINE g == Hire(h.item, h.at, "ready")
<1>1. /\ hires' = (hires \ {h}) \cup {g}
      /\ stock' = [stock EXCEPT ![h.item].status = "RESERVED"]
      /\ UNCHANGED <<points, boxes, moves, sweep>>
  BY DEF Confirm, Becomes
<1>2. h \in HireRows /\ Rests(h, points, stock)
  BY DEF Housed, FleetTypes
<1>3. g \in HireRows /\ g.item = h.item /\ g.at = h.at /\ g.state = "ready"
  BY <1>2 DEF Hire, HireRows
<1> HIDE DEF g
<1>4. Rests(g, points, stock) /\ Found(g, moves', boxes', sweep')
  BY <1>2, <1>3 DEF Rests, Found
<1>5. h.item \in Items /\ stock[h.item] # NoId
  BY <1>2 DEF HireRows, Rests
<1>6. HiresRest
  BY <1>1, <1>3, <1>4 DEF HiresRest
<1> QED  BY <1>1, <1>5, <1>6, StatusWritten

LEMMA CancelHireKeeps ==
  ASSUME Housed, NEW h \in hires, CancelHire(h)
  PROVE  Housed'
<1> DEFINE g == Hire(h.item, h.at, "done")
           status == IF stock[h.item].status = "RESERVED" THEN "AVAILABLE"
                     ELSE stock[h.item].status
<1>1. /\ hires' = (hires \ {h}) \cup {g}
      /\ stock' = [stock EXCEPT ![h.item].status = status]
      /\ UNCHANGED <<points, boxes, moves, sweep>>
  BY DEF CancelHire, Becomes
<1>2. h \in HireRows /\ Rests(h, points, stock)
  BY DEF Housed, FleetTypes
<1>3. g \in HireRows /\ g.item = h.item /\ g.at = h.at /\ g.state = "done"
  BY <1>2 DEF Hire, HireRows
<1>4. h.item \in Items /\ stock[h.item] # NoId
  BY <1>2 DEF HireRows, Rests
<1>5. status \in {"AVAILABLE", "RESERVED", "RENTED"}
  BY <1>4 DEF Housed, FleetTypes, ItemRows
<1> HIDE DEF g, status
<1>6. Rests(g, points, stock) /\ Found(g, moves', boxes', sweep')
  BY <1>2, <1>3 DEF Rests, Found
<1>7. HiresRest
  BY <1>1, <1>3, <1>6 DEF HiresRest
<1> QED  BY <1>1, <1>4, <1>5, <1>7, StatusWritten

(* The pickup writes the movement by which the return finds the locker.      *)
LEMMA PickUpKeeps ==
  ASSUME Housed, NEW h \in hires, PickUp(h)
  PROVE  Housed'
<1> SUFFICES ASSUME NEW g, g = Hire(h.item, h.at, "out"),
                    NEW b, b = stock[h.item].box,
                    NEW row, row = [[stock[h.item] EXCEPT !.status = "RENTED"] EXCEPT !.box = NoId],
                    NEW m, m = Move(h.item, b, NoId, TRUE)
             PROVE  Housed'
  OBVIOUS
<1>1. h \in HireRows /\ Rests(h, points, stock)
  BY DEF Housed, FleetTypes
<1>2. /\ hires' = (hires \ {h}) \cup {g}
      /\ moves' = moves \cup {m} /\ sweep = NoSweep
      /\ \A p \in h.at : h.item \in Inside(BoxesOf(p))
      /\ UNCHANGED <<points, boxes, sweep>>
  BY DEF PickUp, Becomes
<1>3. h.item \in Items /\ stock[h.item] \in ItemRows
  BY <1>1 DEF HireRows, Rests, Housed, FleetTypes
<1>5. row \in ItemRows /\ row.box = NoId
  BY <1>3 DEF ItemRows
<1>4. Puts(stock, stock', h.item, row) /\ HasRoom(stock, h.item, row)
  BY <1>3, <1>5 DEF PickUp, Housed, FleetTypes, Puts, HasRoom
<1>6. g \in HireRows /\ g.item = h.item /\ g.at = h.at /\ g.state = "out"
  BY <1>1 DEF Hire, HireRows
<1>7. Rests(g, points, stock)
  BY <1>1, <1>6 DEF Rests
<1>8. Found(g, moves', boxes', sweep')
  <2>1. PICK p \in h.at : TRUE
    BY <1>1 DEF Rests
  <2>2. b \in Made(boxes) /\ boxes[b].point = p
    BY <1>2 DEF Inside, BoxesOf
  <2>3. m.item = h.item /\ m.pickup /\ m.from = b /\ m.to = NoId
    BY DEF Move
  <2>4. Tells(m, g, boxes', sweep')
    BY <1>2, <1>6, <2>2, <2>3 DEF Tells, NoSweep
  <2> QED  BY <1>2, <2>4 DEF Found
<1>9. HiresRest
  BY <1>2, <1>6, <1>7, <1>8 DEF HiresRest
<1> QED  BY <1>2, <1>3, <1>4, <1>5, <1>9, ItemWritten

LEMMA GiveBackKeeps ==
  ASSUME Housed, NEW h \in hires, NEW b \in Boxes, GiveBack(h, b)
  PROVE  Housed'
<1> SUFFICES ASSUME NEW g, g = Hire(h.item, h.at \cup {boxes[b].point}, "done"),
                    NEW row, row = [[stock[h.item] EXCEPT !.status = "AVAILABLE"] EXCEPT !.box = b]
             PROVE  Housed'
  OBVIOUS
<1>1. h \in HireRows /\ Rests(h, points, stock)
  BY DEF Housed, FleetTypes
<1>2. /\ hires' = (hires \ {h}) \cup {g} /\ boxes[b] # NoId
      /\ moves \subseteq moves' /\ Inside({b}) \ {h.item} = {}
      /\ UNCHANGED <<points, boxes, sweep>>
  BY DEF GiveBack, Becomes
<1>3. h.item \in Items /\ stock[h.item] \in ItemRows
  BY <1>1 DEF HireRows, Rests, Housed, FleetTypes
<1>4. row \in ItemRows /\ row.box = b
  BY <1>3 DEF ItemRows
<1>5. Puts(stock, stock', h.item, row)
  BY <1>3, <1>4 DEF GiveBack, Housed, FleetTypes, Puts
<1>6. HasRoom(stock, h.item, row)
  BY <1>2, <1>3, <1>4, EmptyBox DEF Housed
<1>7. boxes[b].point \in Made(points) /\ boxes[b].point \in Points
  BY <1>2, MadeRows DEF Housed, Standing
<1>8. /\ g \in HireRows /\ g.item = h.item /\ g.at = h.at \cup {boxes[b].point}
      /\ g.state = "done"
  BY <1>1, <1>7 DEF Hire, HireRows
<1>9. Rests(g, points, stock) /\ Found(g, moves', boxes', sweep')
  BY <1>1, <1>7, <1>8 DEF Rests, Found
<1>10. HiresRest
  BY <1>2, <1>8, <1>9 DEF HiresRest
<1> QED  BY <1>2, <1>3, <1>4, <1>5, <1>6, <1>10, ItemWritten

(* A deletion reads.  The script looks into no locker that a rental names.    *)
LEMMA DeleteReadsKeeps ==
  ASSUME Housed, NEW p \in Points, DeleteReads(p)
  PROVE  Housed'
<1>1. /\ UNCHANGED <<points, boxes, stock, hires, moves>> /\ ~sweep'.script
      /\ sweep'.boxes = BoxesOf(p)
  BY DEF DeleteReads, NoSweep
<1>3. sweep'.boxes \subseteq Boxes
  BY <1>1, MadeRows DEF Housed, BoxesOf
<1>2. ASSUME NEW h \in hires PROVE Found(h, moves', boxes', sweep')
  BY <1>1 DEF Housed, Found, Tells
<1> QED  BY <1>1, <1>2, <1>3 DEF Housed, FleetTypes, Standing, OneInside

LEMMA SweepFailsKeeps ==
  ASSUME Housed, SweepFails
  PROVE  Housed'
<1>1. /\ UNCHANGED <<points, boxes, stock, hires, moves>> /\ ~sweep'.script
      /\ sweep'.boxes = {}
  BY DEF SweepFails, NoSweep
<1>2. ASSUME NEW h \in hires PROVE Found(h, moves', boxes', sweep')
  BY <1>1 DEF Housed, Found, Tells
<1> QED  BY <1>1, <1>2 DEF Housed, FleetTypes, Standing, OneInside

LEMMA MigrateReadsKeeps ==
  ASSUME Housed, MigrateReads
  PROVE  Housed'
<1> DEFINE emptied == {p \in Made(points) : Key(p) \in EmptyTargets}
           gone == {p \in Made(points) : Key(p) \in DeleteTargets}
<1>1. /\ UNCHANGED <<points, boxes, stock, hires, moves>>
      /\ \A p \in emptied \cup gone : BoxesOf(p) # {} => MayPurge(p)
      /\ sweep'.boxes = UNION {BoxesOf(p) : p \in emptied \cup gone}
  BY DEF MigrateReads
<1> HIDE DEF emptied, gone
<1>2. ASSUME NEW h \in hires PROVE Found(h, moves', boxes', sweep')
  <2>1. SUFFICES ASSUME h.state = "out" PROVE \E m \in moves : Tells(m, h, boxes, sweep')
    BY <1>1 DEF Found
  <2>2. PICK m \in moves : Tells(m, h, boxes, sweep)
    BY <2>1 DEF Housed, Found
  <2>3. m.from \notin sweep'.boxes
    <3>1. SUFFICES ASSUME NEW p \in emptied \cup gone, m.from \in BoxesOf(p) PROVE FALSE
      BY <1>1
    <3>2. p \notin h.at
      BY <1>1, <3>1 DEF MayPurge
    <3>3. boxes[m.from].point = p
      BY <3>1 DEF BoxesOf
    <3> QED  BY <2>2, <3>2, <3>3 DEF Tells
  <2> QED  BY <2>2, <2>3 DEF Tells
<1>3. sweep'.boxes \subseteq Boxes
  BY <1>1, MadeRows DEF Housed, BoxesOf
<1> QED  BY <1>1, <1>2, <1>3 DEF Housed, FleetTypes, Standing, OneInside

(* The commit takes nothing that a reservation, a unit or a movement that     *)
(* stays refers to.                                                         *)
LEMMA SweepCommitsKeeps ==
  ASSUME Housed, SweepCommits
  PROVE  Housed'
<1>1. /\ points' = [p \in Points |-> IF p \in sweep.gone THEN NoId ELSE points[p]]
      /\ boxes' = [b \in Boxes |-> IF b \in Doomed THEN NoId ELSE boxes[b]]
      /\ stock' = [i \in Items |-> IF i \in sweep.items THEN NoId ELSE stock[i]]
      /\ moves' = KeptMoves /\ sweep' = NoSweep /\ hires' = hires
  BY DEF SweepCommits
<1>2. /\ \A h \in hires : h.item \notin sweep.items /\ h.at \cap sweep.gone = {}
      /\ \A m \in KeptMoves : ~Touching(m, Doomed)
      /\ \A p \in sweep.gone : BoxesOf(p) \subseteq Doomed
  BY DEF SweepCommits, Unreferenced
<1>3. FleetTypes'
  BY <1>1 DEF Housed, FleetTypes, NoSweep
<1>4. /\ Made(points)' = Made(points) \ sweep.gone
      /\ Made(boxes)' = Made(boxes) \ Doomed
      /\ \A b \in Made(boxes) \ Doomed : boxes'[b] = boxes[b]
  BY <1>1, <1>3, MadeRows DEF Housed, Made, FleetTypes
<1>5. Standing'
  <2>1. ASSUME NEW b \in Made(boxes) \ Doomed PROVE boxes[b].point \in Made(points) \ sweep.gone
    <3>1. boxes[b].point \in Made(points) /\ b \in BoxesOf(boxes[b].point)
      BY <2>1 DEF Housed, Standing, BoxesOf
    <3> QED  BY <1>2, <2>1, <3>1
  <2> QED  BY <1>4, <2>1 DEF Standing
<1>6. OneInside'
  BY <1>1 DEF Housed, OneInside, Single
<1>7. ASSUME NEW h \in hires PROVE Rests(h, points', stock') /\ Found(h, moves', boxes', sweep')
  <2>1. h \in HireRows /\ Rests(h, points, stock) /\ Found(h, moves, boxes, sweep)
    BY DEF Housed, FleetTypes
  <2>2. Rests(h, points', stock')
    <3>1. stock'[h.item] # NoId
      BY <1>1, <1>2, <2>1 DEF Rests, HireRows
    <3>2. h.at # {} /\ h.at \subseteq Made(points)'
      BY <1>2, <1>4, <2>1 DEF Rests
    <3> QED  BY <3>1, <3>2 DEF Rests, Made
  <2>3. ASSUME h.state = "out" PROVE \E m \in moves' : Tells(m, h, boxes', sweep')
    <3>1. PICK m \in moves : Tells(m, h, boxes, sweep)
      BY <2>1, <2>3 DEF Found
    <3>2. m \in KeptMoves
      <4>1. CASE ~sweep.script
        BY <4>1 DEF KeptMoves
      <4>2. CASE sweep.script
        <5>1. Doomed = sweep.boxes /\ m.from \notin sweep.boxes
          BY <3>1, <4>2 DEF Doomed, Tells
        <5>2. m.to \notin Doomed
          BY <3>1, <5>1, FleetRows DEF Tells, Housed, FleetTypes
        <5>3. ~Touching(m, Doomed) /\ m.item \notin sweep.items
          BY <1>2, <3>1, <5>1, <5>2 DEF Tells, Touching
        <5> QED  BY <4>2, <5>3 DEF KeptMoves
      <4> QED  BY <4>1, <4>2
    <3>3. m.from \notin Doomed
      BY <1>2, <3>2 DEF Touching
    <3>4. m.from \in Made(boxes)' /\ boxes'[m.from] = boxes[m.from]
      BY <1>4, <3>1, <3>3 DEF Tells
    <3>5. Tells(m, h, boxes', sweep')
      BY <1>1, <3>1, <3>4 DEF Tells, NoSweep, Made
    <3> QED  BY <1>1, <3>2, <3>5
  <2> QED  BY <2>2, <2>3 DEF Found
<1> QED  BY <1>1, <1>3, <1>5, <1>6, <1>7 DEF Housed

(* A deploy writes the locker of the bundle, its two cells and their items   *)
(* over the rows it finds: no row goes, and no cell changes its locker.      *)
LEMMA ItemFound ==
  ASSUME NEW rows \in [Items -> ItemRows \cup {NoId}], NEW i \in Items, NEW b \in Boxes,
         NEW tag, tag = "plain", IsItemFor(i, rows, tag, b), Single(rows)
  PROVE  \A k \in Items \ {i} : rows[k] # NoId => rows[k].box # b
<1> DEFINE inCell == {k \in Made(rows) : rows[k].box = b}
<1>1. Made(rows) = {k \in Items : rows[k] # NoId}
  BY DEF Made
<1>2. CASE inCell # {}
  <2>1. i \in inCell
    BY <1>2 DEF IsItemFor
  <2> QED  BY <1>1, <2>1, FleetRows DEF Single
<1>3. CASE inCell = {}
  BY <1>1, <1>3
<1> QED  BY <1>2, <1>3

LEMMA DeployFleetKeeps ==
  ASSUME Housed, NEW p \in Points, NEW a \in Boxes, NEW b \in Boxes,
         NEW i \in Items, NEW j \in Items, DeployFleet(p, a, b, i, j)
  PROVE  Housed'
<1> SUFFICES ASSUME NEW put, put = Item(a, "AVAILABLE", "tagged"),
                    NEW next, next = Item(b, "AVAILABLE", "plain"),
                    NEW first, first = [stock EXCEPT ![i] = put]
             PROVE  Housed'
  OBVIOUS
<1>1. /\ IsBoxFor(a, p, "A1") /\ IsBoxFor(b, p, "B1") /\ a # b
      /\ points' = [points EXCEPT ![p] = Point("seed", "nevsky", "OFFLINE")]
      /\ boxes' = [boxes EXCEPT ![a] = Box(p, "A1"), ![b] = Box(p, "B1")]
  BY DEF DeployFleet
<1>2. /\ put \in ItemRows /\ put.box = a /\ next \in ItemRows /\ next.box = b
  BY DEF Item, ItemRows
<1>3. /\ stock \in [Items -> ItemRows \cup {NoId}] /\ Single(stock)
      /\ first \in [Items -> ItemRows \cup {NoId}]
  BY <1>2 DEF Housed, FleetTypes, OneInside
<1>4. /\ stock' = [first EXCEPT ![j] = next]
      /\ \A k \in Made(first) \ {i} : first[k].box # a
      /\ IsItemFor(j, first, "plain", b)
      /\ UNCHANGED <<hires, moves, sweep>>
  BY DEF DeployFleet
<1>5. Puts(stock, first, i, put) /\ Puts(first, stock', j, next)
  BY <1>2, <1>3, <1>4, ExceptPuts
<1>6. HasRoom(stock, i, put)
  <2>1. ASSUME NEW k \in Items \ {i}, first[k] # NoId PROVE first[k].box # a
    <3>1. k \in Made(first) \ {i}
      BY <1>3, <2>1 DEF Made
    <3> QED  BY <1>4, <3>1
  <2> QED  BY <1>2, <1>5, <2>1 DEF HasRoom, Puts
<1>7. Single(first) /\ \A k \in Items : stock[k] # NoId => first[k] # NoId
  <2>1. put \in ItemRows /\ Single(stock) /\ Puts(stock, first, i, put)
    BY <1>2, <1>3, <1>5
  <2> QED  BY <1>6, <2>1, RowPut
<1>8. HasRoom(first, j, next)
  <2>1. \A k \in Items \ {j} : first[k] # NoId => first[k].box # b
    BY <1>3, <1>4, <1>7, ItemFound
  <2> QED  BY <1>2, <2>1 DEF HasRoom
<1>9. Single(stock') /\ \A k \in Items : first[k] # NoId => stock'[k] # NoId
  BY <1>2, <1>5, <1>7, <1>8, RowPut
<1>10. /\ points' \in [Points -> PointRows \cup {NoId}] /\ points'[p] # NoId
       /\ \A x \in Points : points[x] # NoId => points'[x] # NoId
  <2>1. Point("seed", "nevsky", "OFFLINE") \in PointRows
    BY DEF Point, PointRows, Serials
  <2> QED  BY <1>1, <2>1, FleetRows DEF Housed, FleetTypes
<1>11. /\ boxes' \in [Boxes -> BoxRows \cup {NoId}]
       /\ boxes'[a] = Box(p, "A1") /\ boxes'[b] = Box(p, "B1")
       /\ \A x \in Boxes \ {a, b} : boxes'[x] = boxes[x]
  <2>1. Box(p, "A1") \in BoxRows /\ Box(p, "B1") \in BoxRows
    BY DEF Box, BoxRows
  <2> QED  BY <1>1, <2>1 DEF Housed, FleetTypes
<1>12. /\ boxes'[a] # NoId /\ boxes'[b] # NoId /\ boxes'[a].point = p /\ boxes'[b].point = p
  <2>1. /\ Box(p, "A1") \in BoxRows /\ Box(p, "B1") \in BoxRows
        /\ Box(p, "A1").point = p /\ Box(p, "B1").point = p
    BY DEF Box, BoxRows
  <2> QED  BY <1>11, <2>1, FleetRows
<1>13. ASSUME NEW x \in Boxes, boxes[x] # NoId
       PROVE  boxes'[x] # NoId /\ boxes'[x].point = boxes[x].point
  <2>1. (x = a => boxes[x].point = p) /\ (x = b => boxes[x].point = p)
    BY <1>1, <1>13 DEF IsBoxFor, Box
  <2> QED  BY <1>11, <1>12, <1>13, <2>1
<1>14. FleetTypes'
  <2>1. stock' \in [Items -> ItemRows \cup {NoId}]
    BY <1>5 DEF Puts
  <2> QED  BY <1>4, <1>10, <1>11, <2>1 DEF Housed, FleetTypes
<1>15. Grows
  BY <1>4, <1>7, <1>9, <1>10, <1>13 DEF Grows
<1>16. Standing'
  <2>1. SUFFICES ASSUME NEW x \in Boxes, boxes'[x] # NoId
                 PROVE  boxes'[x].point \in Points /\ points'[boxes'[x].point] # NoId
    BY <1>10, <1>11 DEF Standing, Made
  <2>2. CASE x \in {a, b}
    BY <1>10, <1>12, <2>2
  <2>3. CASE x \notin {a, b}
    <3>1. boxes'[x] = boxes[x] /\ x \in Made(boxes)
      BY <1>11, <2>1, <2>3, MadeRows DEF Housed
    <3>2. boxes[x].point \in Points /\ points[boxes[x].point] # NoId
      BY <3>1, MadeRows DEF Housed, Standing
    <3> QED  BY <1>10, <3>1, <3>2
  <2> QED  BY <2>2, <2>3
<1>17. OneInside'
  BY <1>9 DEF OneInside
<1> QED  BY <1>4, <1>14, <1>15, <1>16, <1>17, HireKeeps DEF Housed

LEMMA HousedKeeps ==
  ASSUME Housed, [FleetNext]_fleetVars
  PROVE  Housed'
<1>1. CASE MachineHeard \/ MigrateReads \/ SweepCommits \/ SweepFails
  BY <1>1, MachineHeardKeeps, MigrateReadsKeeps, SweepCommitsKeeps, SweepFailsKeeps
<1>8. CASE \E p \in Points, a, b \in Boxes, i, j \in Items : DeployFleet(p, a, b, i, j)
  BY <1>8, DeployFleetKeeps
<1>2. CASE \E row \in PointRows : CreatePoint(row) \/ \E p \in Points : UpdatePoint(p, row)
  BY <1>2, CreatePointKeeps, UpdatePointKeeps
<1>3. CASE \E p \in Points : CreateBox(p) \/ DeleteReads(p) \/ \E i \in Items : Book(i, p)
  BY <1>3, CreateBoxKeeps, DeleteReadsKeeps, BookKeeps
<1>4. CASE \E b \in Boxes : RenameBox(b) \/ (\E i \in Items : PutItem(i, b))
                              \/ \E h \in hires : GiveBack(h, b)
  BY <1>4, RenameBoxKeeps, PutItemKeeps, GiveBackKeeps
<1>5. CASE \E i \in Items : TakeItem(i)
  BY <1>5, TakeItemKeeps
<1>6. CASE \E h \in hires : Confirm(h) \/ PickUp(h) \/ CancelHire(h)
  BY <1>6, ConfirmKeeps, PickUpKeeps, CancelHireKeeps
<1>7. CASE UNCHANGED fleetVars
  BY <1>7 DEF fleetVars, Housed, FleetTypes, Standing, OneInside, Single, Rests, Found,
              Tells, Made
<1> QED  BY <1>1, <1>2, <1>3, <1>4, <1>5, <1>6, <1>7, <1>8 DEF FleetNext

LEMMA HousedTypes ==
  ASSUME Housed
  PROVE  FleetTypeOK
<1>1. /\ \A p \in Made(points) : points[p] \in PointRows
      /\ \A b \in Made(boxes) : boxes[b] \in BoxRows
      /\ \A i \in Made(stock) : stock[i] \in ItemRows
  BY MadeRows DEF Housed
<1>2. \A b \in Made(boxes) : points[boxes[b].point] # NoId
  BY MadeRows DEF Housed, Standing
<1>3. ASSUME NEW b \in Made(boxes) PROVE Cardinality(Inside({b})) <= 1
  <2>1. b \in Boxes /\ b # NoId
    BY <1>3, MadeRows, FleetRows DEF Housed
  <2>2. \A x, y \in Inside({b}) : x = y
    BY <2>1, MadeRows DEF Housed, OneInside, Single, Inside
  <2>3. CASE Inside({b}) = {}
    BY <2>3, FS_EmptySet
  <2>4. CASE Inside({b}) # {}
    <3>1. PICK x \in Inside({b}) : TRUE
      BY <2>4
    <3>2. Inside({b}) = {x}
      BY <2>2, <3>1
    <3>3. Cardinality({x}) = 1
      BY FS_Singleton
    <3> QED  BY <3>2, <3>3
  <2> QED  BY <2>3, <2>4
<1> QED  BY <1>1, <1>2, <1>3 DEF FleetTypeOK

LEMMA HousedPlaces ==
  ASSUME Housed
  PROVE  HiresKeepPlace
<1>1. SUFFICES ASSUME NEW h \in hires
               PROVE  /\ stock[h.item] # NoId /\ \A p \in h.at : points[p] # NoId
                      /\ h.state = "out" =>
                           \E m \in moves : /\ m.item = h.item /\ m.pickup
                                            /\ boxes[m.from] # NoId
                                            /\ boxes[m.from].point \in h.at
  BY DEF HiresKeepPlace
<1>2. Rests(h, points, stock) /\ Found(h, moves, boxes, sweep)
  BY DEF Housed
<1>3. \A p \in h.at : points[p] # NoId
  BY <1>2, MadeRows DEF Housed, Rests
<1>4. ASSUME h.state = "out"
      PROVE  \E m \in moves : /\ m.item = h.item /\ m.pickup /\ boxes[m.from] # NoId
                              /\ boxes[m.from].point \in h.at
  <2>1. PICK m \in moves : Tells(m, h, boxes, sweep)
    BY <1>2, <1>4 DEF Found
  <2>2. boxes[m.from] # NoId
    BY <2>1 DEF Tells, Made
  <2> QED  BY <2>1, <2>2 DEF Tells
<1> QED  BY <1>2, <1>3, <1>4 DEF Rests

(* Every deletion leaves the item and the lockers of every reservation and     *)
(* rental in place, and for an item that is out the movement by which its    *)
(* return finds the cell: the guards of _perform_admin_locker_delete and     *)
(* _purge_locker_contents with the foreign keys, for every fleet.           *)
THEOREM HiresStayHoused == FleetSpec => [](FleetTypeOK /\ HiresKeepPlace)
<1>1. FleetInit => Housed
  BY FleetBegins
<1>2. Housed /\ [FleetNext]_fleetVars => Housed'
  BY HousedKeeps
<1>3. Housed => FleetTypeOK /\ HiresKeepPlace
  BY HousedTypes, HousedPlaces
<1> QED  BY <1>1, <1>2, <1>3, PTL DEF FleetSpec

-----------------------------------------------------------------------------
(* All of it together: a behaviour of MCStaff is about one of the five, and   *)
(* the invariants of the other four stay as they began.                      *)

ChatInv == Chat /\ Announced /\ Given /\ Reaches /\ Distinct
BotInv == Subscribed /\ Counts
StaffInv == ChatInv /\ BotInv /\ Guarded /\ Tended /\ Housed

LEMMA ChatInvKept == ChatInv /\ [ChatNext]_chatVars => ChatInv'
BY ChatStep, PingStep, GivenStep, ReachesStep, DistinctStep DEF ChatInv

LEMMA BotInvKept == BotInv /\ [BotNext]_botVars => BotInv'
BY LinkedNext, CountsNext DEF BotInv

LEMMA StaffBegins == StaffInit => StaffInv
<1> SUFFICES ASSUME StaffInit PROVE StaffInv
  OBVIOUS
<1>1. ChatInit /\ BotInit /\ FormInit /\ CatalogInit /\ FleetInit
  BY DEF StaffInit
<1>2. ChatInv
  BY <1>1, ChatAtFirst, PingAtFirst, GivenAtFirst DEF ChatInv
<1>3. BotInv /\ Guarded
  BY <1>1, BotsTyped, InitKept DEF BotInv
<1>4. Tended /\ Housed
  BY <1>1, CatalogBegins, FleetBegins
<1> QED  BY <1>2, <1>3, <1>4 DEF StaffInv

LEMMA StaffKept ==
  StaffInv /\ [StaffNext]_<<chatVars, botVars, formVars, catalogVars, fleetVars, focus>>
    => StaffInv'
<1> SUFFICES ASSUME StaffInv,
             [StaffNext]_<<chatVars, botVars, formVars, catalogVars, fleetVars, focus>>
             PROVE  StaffInv'
  OBVIOUS
<1>1. /\ [ChatNext]_chatVars /\ [BotNext]_botVars /\ [FormNext]_formVars
      /\ [CatalogNext]_catalogVars /\ [FleetNext]_fleetVars
  BY DEF StaffNext
<1>2. ChatInv' /\ BotInv'
  BY <1>1, ChatInvKept, BotInvKept DEF StaffInv
<1>3. Guarded' /\ Tended'
  BY <1>1, NextKept, TendedStep DEF StaffInv
<1>4. Housed'
  BY <1>1, HousedKeeps DEF StaffInv
<1> QED  BY <1>2, <1>3, <1>4 DEF StaffInv

(* Whatever clients, operators, messengers and deploys do, the rows of the    *)
(* chat, the bots, the forms, the catalogue and the lockers keep their types, *)
(* and what is promised of each of the five holds: for every value of the    *)
(* constants, replies that break a connection among them.                    *)
THEOREM StaffAlways ==
  StaffSpec => [](/\ StaffTypes /\ TypedIsKept /\ LiveMessageShown /\ PingPerBurst
                  /\ NewestStartWins /\ FormsGuarded /\ EditsKept /\ HiresKeepPlace)
<1>1. StaffInv => StaffTypes
  BY ChatTyped, BotsTyped, GuardedForms, TendedEdits, HousedTypes
  DEF StaffInv, ChatInv, BotInv, StaffTypes
<1>2. StaffInv => TypedIsKept /\ LiveMessageShown /\ PingPerBurst
  BY BurstsCovered DEF StaffInv, ChatInv, Chat, Kept, Stored, OnScreen, TypedIsKept
<1>3. StaffInv => NewestStartWins /\ FormsGuarded
  BY GuardedForms DEF StaffInv, BotInv, Subscribed
<1>4. StaffInv => EditsKept /\ HiresKeepPlace
  BY TendedEdits, HousedPlaces DEF StaffInv
<1> QED  BY <1>1, <1>2, <1>3, <1>4, StaffBegins, StaffKept, PTL DEF StaffSpec
=============================================================================
