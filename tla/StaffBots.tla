------------------------------ MODULE StaffBots ------------------------------
(***************************************************************************)
(* Notifications of the staff: who subscribed to the bots of the two        *)
(* messengers, and how one notification, with or without photos, is sent to *)
(* all of them.  The messengers are external: each request ends with a      *)
(* reply they choose.  Telegram takes the bytes of the photos from chat to  *)
(* chat until one chat accepts them and sends file ids to the others; MAX   *)
(* takes them once.                                                        *)
(***************************************************************************)
EXTENDS Integers, FiniteSets

CONSTANTS
  Names, Listed,   \* usernames of subscribers, chats of the settings (CSV)
  Chats, NoChat,
  OnMax,           \* the names and chats that belong to MAX; the others
                   \* belong to Telegram
  Cities, Network, \* Network: city_id is NULL
  UploadLimit,     \* _UPLOAD_FAILURE_LIMIT
  Replies,         \* how a request to a messenger may end
  BotBudgets       \* bounds of a behaviour: acts of operators and holders of
                   \* names (acts), photos (photos); subs: the subscribers it
                   \* starts with; sends: it may notify

AllReplies == {"ok", "bare", "late", "lost", "blocked", "rejected", "unready",
               "error", "cut"}
Targets == Names \cup Listed
Scopes == Cities \cup {Network}
NoSub == [city |-> Network, enabled |-> FALSE, chat |-> NoChat, exists |-> FALSE]
Rows == [city : Scopes, enabled : BOOLEAN, chat : Chats \cup {NoChat},
         exists : BOOLEAN]

ASSUME BotAssumption ==
  /\ Replies \subseteq AllReplies /\ UploadLimit \in Nat /\ NoChat \notin Chats
  /\ Network \notin Cities /\ Names \cap Listed = {}
  /\ BotBudgets \subseteq [acts : Nat, photos : Nat, sends : BOOLEAN,
                           subs : [Names -> Rows]]
  /\ \A b \in BotBudgets, n \in Names :
       b.subs[n].chat # NoChat => (b.subs[n].chat \in OnMax <=> n \in OnMax)

VARIABLES
  subs,       \* telegram_admin_subscribers, max_admin_subscribers
  started,    \* the chat that sent /start under a name last
  updates,    \* the chat of the newest update of a name
  fetched,    \* what a resync has got from the messenger
  notice,     \* "none", "sending", "ended", "lost"
  photos,     \* how many could be read from the disk
  inCaption,  \* one photo and a text that fits under it
  step,       \* the next request to a target
  told,       \* how often the text of the notification has reached it
  counted,    \* targets that the result counts
  unsure,     \* targets whose request timed out after it was sent
  refused,    \* targets whose plain text was answered with an error
  ids,        \* Telegram has given file ids
  failures,   \* uploads that failed, of the messenger that is uploading
  left, media,\* photos MAX has to upload, and has
  botBudget

subVars == <<subs, started, updates, fetched>>
textVars == <<told, counted, unsure, refused>>
sendVars == <<notice, photos, inCaption, step, textVars, ids, failures, left, media>>
botVars == <<subVars, sendVars, botBudget>>

BotInit ==
  /\ botBudget \in BotBudgets
  /\ subs = botBudget.subs
  /\ started = [n \in Names |-> NoChat] /\ updates = [n \in Names |-> NoChat]
  /\ fetched = {}
  /\ notice = "none" /\ photos = 0 /\ inCaption = FALSE
  /\ step = [t \in Targets |-> "none"] /\ told = [t \in Targets |-> 0]
  /\ counted = {} /\ unsure = {} /\ refused = {}
  /\ ids = FALSE /\ failures = [tg |-> 0, max |-> 0] /\ left = 0 /\ media = 0

-----------------------------------------------------------------------------
(* The subscribers.  An operator of a franchise sees those of its cities.   *)
BotAct == botBudget.acts > 0 /\ botBudget' = [botBudget EXCEPT !.acts = @ - 1]
Within(scope, row) == row.exists /\ (scope = Network \/ row.city = scope)

CreateSubscriber(scope, n) ==
  /\ BotAct /\ ~subs[n].exists
  /\ subs' = [subs EXCEPT ![n] = [NoSub EXCEPT !.exists = TRUE, !.city = scope,
                                                 !.enabled = TRUE]]
  /\ started' = [started EXCEPT ![n] = NoChat]
  /\ UNCHANGED <<updates, fetched, sendVars>>

UpdateSubscriber(scope, n) ==
  /\ BotAct /\ Within(scope, subs[n])
  /\ subs' = [subs EXCEPT ![n].enabled = ~@]
  /\ UNCHANGED <<started, updates, fetched, sendVars>>

DeleteSubscriber(scope, n) ==
  /\ BotAct /\ Within(scope, subs[n])
  /\ subs' = [subs EXCEPT ![n] = NoSub]
  /\ UNCHANGED <<started, updates, fetched, sendVars>>

(* The holder of the name writes to the bot; the messenger keeps the update *)
(* for a resync and calls the webhook, which links the row to the chat that *)
(* sent /start, whatever chat it was linked to.                             *)
Writes(c, n) ==
  /\ BotAct /\ (c \in OnMax <=> n \in OnMax)
  /\ updates' = [updates EXCEPT ![n] = c]
  /\ UNCHANGED <<subs, started, fetched, sendVars>>
HandleStart(c, n) ==
  /\ BotAct /\ (c \in OnMax <=> n \in OnMax)
  /\ updates' = [updates EXCEPT ![n] = c]
  /\ subs' = IF subs[n].exists THEN [subs EXCEPT ![n].chat = c] ELSE subs
  /\ started' = IF subs[n].exists THEN [started EXCEPT ![n] = c] ELSE started
  /\ UNCHANGED <<fetched, sendVars>>

(* resync_chat_ids: the updates are fetched first; then rows without a link  *)
(* are linked.                                                              *)
FetchUpdates ==
  /\ BotAct /\ fetched = {} /\ fetched' = {updates}
  /\ UNCHANGED <<subs, started, updates, sendVars>>
(* Mutant: rows that are linked are linked again.                           *)
ResyncRelinks ==
  \E seen \in fetched :
    /\ fetched' = {}
    /\ subs' = [n \in Names |->
         IF subs[n].exists /\ seen[n] # NoChat THEN [subs[n] EXCEPT !.chat = seen[n]]
         ELSE subs[n]]
    /\ UNCHANGED <<started, updates, sendVars, botBudget>>
Resync ==
  \E seen \in fetched :
    /\ fetched' = {}
    /\ subs' = [n \in Names |->
         IF subs[n].exists /\ subs[n].chat = NoChat
         THEN [subs[n] EXCEPT !.chat = seen[n]] ELSE subs[n]]
    /\ UNCHANGED <<started, updates, sendVars, botBudget>>

-----------------------------------------------------------------------------
(* get_active_chat_ids, get_active_recipients; the settings if there is      *)
(* nobody, or the database does not answer.                                 *)
Active(city) ==
  {n \in Names : /\ subs[n].exists /\ subs[n].enabled /\ subs[n].chat # NoChat
                 /\ subs[n].city \in {Network, city}}
On(max, set) == IF max THEN set \cap OnMax ELSE set \ OnMax
Chosen(max, city, readable) ==
  IF readable /\ On(max, Active(city)) # {} THEN On(max, Active(city))
  ELSE On(max, Listed)

Telegram == Targets \ OnMax
MaxSide == Targets \cap OnMax
Busy == \E t \in Telegram : step[t] \in {"photo", "document", "after"}

(* A task in the background: the photos are read, both messengers start.    *)
Notify(city, n, caption, readable) ==
  /\ notice = "none" /\ botBudget.sends /\ n <= botBudget.photos
  /\ notice' = "sending" /\ photos' = n /\ inCaption' = (caption /\ n = 1)
  /\ step' = [t \in Targets |->
       IF t \notin Chosen(t \in OnMax, city, readable) THEN "none"
       ELSE CASE n > 0 /\ t \in Telegram -> "queued"
              [] n > 0 /\ t \in OnMax -> "held"
              [] n = 0 /\ t \in Telegram -> "text"
              [] n = 0 /\ t \in OnMax -> "html"]
  /\ left' = n
  /\ UNCHANGED <<subVars, textVars, ids, failures, media, botBudget>>

Goes(t, where) == step' = [step EXCEPT ![t] = where]
Reached(t, reply) ==
  told' = [told EXCEPT ![t] =
             IF reply \in {"ok", "bare", "late", "cut"} THEN @ + 1 ELSE @]

(* _notify_with_photos: one chat after the other is offered the bytes.      *)
TakeChat(t) ==
  /\ step[t] = "queued" /\ ~Busy /\ ~ids /\ failures.tg < UploadLimit
  /\ Goes(t, "photo")
  /\ UNCHANGED <<subVars, notice, photos, inCaption, textVars, ids, failures,
                 left, media, botBudget>>

(* _send_media: whether photos that are under way count as sent.            *)
Sent(reply) == reply \in {"ok", "bare"}
Unknown(reply) == reply \in {"late", "lost"}

(* Mutant: a timeout is a failure like any other.                           *)
PhotoReplyResent(t, reply) ==
  /\ step[t] \in {"photo", "document"}
  /\ IF inCaption THEN Reached(t, reply) ELSE UNCHANGED told
  /\ ids' = (ids \/ reply = "ok")
  /\ failures' = [failures EXCEPT !.tg =
                    IF Sent(reply) \/ reply = "blocked" THEN @ ELSE @ + 1]
  /\ counted' = IF inCaption /\ Sent(reply) THEN counted \cup {t} ELSE counted
  /\ Goes(t, IF Sent(reply) THEN (IF inCaption THEN "done" ELSE "after") ELSE "failed")
  /\ UNCHANGED <<subVars, notice, photos, inCaption, unsure, refused, left, media,
                 botBudget>>
PhotoReply(t, reply) ==
  /\ step[t] \in {"photo", "document"}
  /\ IF reply = "rejected" /\ step[t] = "photo"
     THEN /\ Goes(t, "document")
          /\ UNCHANGED <<told, counted, unsure, ids, failures>>
     ELSE /\ IF inCaption THEN Reached(t, reply) ELSE UNCHANGED told
          /\ ids' = (ids \/ reply = "ok")
          /\ failures' = [failures EXCEPT !.tg =
                            IF Sent(reply) \/ reply = "blocked" THEN @ ELSE @ + 1]
          /\ counted' = IF inCaption /\ Sent(reply) THEN counted \cup {t} ELSE counted
          /\ unsure' = IF inCaption /\ Unknown(reply) THEN unsure \cup {t} ELSE unsure
          /\ Goes(t, IF ~Sent(reply) /\ ~Unknown(reply) THEN "failed"
                     ELSE IF inCaption THEN "done" ELSE "after")
  /\ UNCHANGED <<subVars, notice, photos, inCaption, refused, left, media, botBudget>>

(* The rest of the chats, those that failed among them: file ids if there    *)
(* are some, otherwise the text.                                            *)
FanOut ==
  /\ notice = "sending" /\ ~Busy
  /\ \E t \in Telegram : step[t] \in {"queued", "failed"}
  /\ ids \/ failures.tg >= UploadLimit \/ \A t \in Telegram : step[t] # "queued"
  /\ step' = [t \in Targets |->
       IF step[t] \in {"queued", "failed"} THEN (IF ids THEN "again" ELSE "text")
       ELSE step[t]]
  /\ UNCHANGED <<subVars, notice, photos, inCaption, textVars, ids, failures,
                 left, media, botBudget>>

(* _deliver_uploaded                                                        *)
AgainReply(t, reply) ==
  /\ step[t] = "again"
  /\ IF inCaption THEN Reached(t, reply) ELSE UNCHANGED told
  /\ counted' = IF inCaption /\ Sent(reply) THEN counted \cup {t} ELSE counted
  /\ unsure' = IF inCaption /\ Unknown(reply) THEN unsure \cup {t} ELSE unsure
  /\ Goes(t, IF inCaption /\ (Sent(reply) \/ Unknown(reply)) THEN "done" ELSE "text")
  /\ UNCHANGED <<subVars, notice, photos, inCaption, refused, ids, failures, left,
                 media, botBudget>>

(* _send_one                                                                *)
TextReply(t, reply) ==
  /\ step[t] \in {"text", "after"}
  /\ Reached(t, reply)
  /\ counted' = IF Sent(reply) THEN counted \cup {t} ELSE counted
  /\ unsure' = IF Unknown(reply) THEN unsure \cup {t} ELSE unsure
  /\ refused' = IF Sent(reply) \/ Unknown(reply) THEN refused ELSE refused \cup {t}
  /\ Goes(t, "done")
  /\ UNCHANGED <<subVars, notice, photos, inCaption, ids, failures, left, media,
                 botBudget>>

(* _upload_attachments of MAX: as an image, then as a file; a time out or two *)
(* refusals lose the photo.                                                 *)
Upload(accepted) ==
  /\ notice = "sending" /\ left > 0 /\ failures.max < UploadLimit
  /\ \E t \in MaxSide : step[t] = "held"
  /\ left' = left - 1
  /\ IF accepted THEN media' = media + 1 /\ UNCHANGED failures
     ELSE failures' = [failures EXCEPT !.max = @ + 1] /\ UNCHANGED media
  /\ UNCHANGED <<subVars, notice, photos, inCaption, step, textVars, ids, botBudget>>

MaxFanOut ==
  /\ notice = "sending" /\ (left = 0 \/ failures.max >= UploadLimit)
  /\ \E t \in MaxSide : step[t] = "held"
  /\ step' = [t \in Targets |->
       IF step[t] = "held" THEN (IF media > 0 THEN "media" ELSE "html") ELSE step[t]]
  /\ UNCHANGED <<subVars, notice, photos, inCaption, textVars, ids, failures,
                 left, media, botBudget>>

(* _deliver, with the photos and then without: a refused markup is sent      *)
(* again as plain text, an attachment that is still not ready is not.       *)
AfterRefusal(request, reply) ==
  CASE reply = "rejected" /\ request = "media" -> "mediaPlain"
    [] reply = "rejected" /\ request = "html" -> "plain"
    [] OTHER -> IF request \in {"media", "mediaPlain"} THEN "html" ELSE "done"
MaxReply(t, reply) ==
  /\ step[t] \in {"media", "mediaPlain", "html", "plain"}
  /\ Reached(t, reply)
  /\ counted' = IF Sent(reply) THEN counted \cup {t} ELSE counted
  /\ unsure' = IF Unknown(reply) THEN unsure \cup {t} ELSE unsure
  /\ LET to == IF Sent(reply) \/ Unknown(reply) THEN "done" ELSE AfterRefusal(step[t], reply)
     IN /\ Goes(t, to)
        /\ refused' = IF to = "done" /\ ~Sent(reply) /\ ~Unknown(reply)
                      THEN refused \cup {t} ELSE refused
  /\ UNCHANGED <<subVars, notice, photos, inCaption, ids, failures, left, media,
                 botBudget>>

Ended ==
  /\ notice = "sending" /\ \A t \in Targets : step[t] \in {"none", "done"}
  /\ notice' = "ended"
  /\ UNCHANGED <<subVars, photos, inCaption, step, textVars, ids, failures, left,
                 media, botBudget>>

(* The process stops: nothing remembers what was not sent.                  *)
Stops ==
  /\ BotAct /\ notice = "sending" /\ notice' = "lost"
  /\ step' = [t \in Targets |-> "none"]
  /\ UNCHANGED <<subVars, photos, inCaption, textVars, ids, failures, left, media>>

BotNext ==
  \/ \E n \in Names, scope \in Scopes :
       CreateSubscriber(scope, n) \/ UpdateSubscriber(scope, n) \/ DeleteSubscriber(scope, n)
  \/ \E n \in Names, c \in Chats : Writes(c, n) \/ HandleStart(c, n)
  \/ FetchUpdates \/ Resync
  \/ \E city \in Scopes, n \in 0..botBudget.photos, caption, readable \in BOOLEAN :
       Notify(city, n, caption, readable)
  \/ \E t \in Telegram :
       \/ TakeChat(t)
       \/ \E reply \in Replies :
            PhotoReply(t, reply) \/ AgainReply(t, reply) \/ TextReply(t, reply)
  \/ FanOut \/ MaxFanOut \/ \E accepted \in BOOLEAN : Upload(accepted)
  \/ \E t \in MaxSide, reply \in Replies : MaxReply(t, reply)
  \/ Ended \/ Stops
BotSpec == BotInit /\ [][BotNext]_botVars

-----------------------------------------------------------------------------
(* Every variable has its type.                                             *)
BotTypeOK ==
  /\ subs \in [Names -> Rows] /\ counted \cup unsure \cup refused \subseteq Targets
  /\ \A n \in Names : subs[n].chat # NoChat => (subs[n].chat \in OnMax <=> n \in OnMax)
  /\ told \in [Targets -> Nat] /\ media + left <= photos

(* Whatever the messengers answer and in whatever order the chats are        *)
(* tried, nobody gets the text of a notification twice, and the result       *)
(* counts nobody who did not get it; when it has been sent, every subscriber *)
(* it was chosen for has the text, unless the request that carried it timed  *)
(* out or the messenger refused the bare text: no photo, no other chat and   *)
(* no limit of uploads costs anybody the text (_notify_with_photos,          *)
(* _send_with_media: text follows a photo only when the photo cannot have    *)
(* brought it).                                                             *)
ToldExactlyOnce ==
  \A t \in Targets :
    /\ told[t] <= 1 /\ (t \in counted => told[t] = 1)
    /\ notice = "ended" /\ step[t] = "done" => told[t] = 1 \/ t \in unsure \cup refused

(* A row that is linked is linked to the chat that sent /start last since the *)
(* row exists, also while a resync holds older updates (handle_telegram_update, *)
(* resync_chat_ids: a link is not replaced).                                *)
NewestStartWins ==
  \A n \in Names : subs[n].exists /\ started[n] # NoChat => subs[n].chat = started[n]
=============================================================================
