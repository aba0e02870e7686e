------------------------------- MODULE Catalog -------------------------------
(***************************************************************************)
(* One card of the catalogue: a product, a city or the filter of a product. *)
(* Every deploy brings the catalogue of the repository and writes it over    *)
(* the rows it finds by their slug; what operators changed by hand is listed *)
(* in admin_edited_fields and left alone.                                   *)
(*                                                                         *)
(* A deploy is one transaction: it reads a row without a lock, and from its   *)
(* UPDATE until its commit the row is locked.  Between the query and the      *)
(* UPDATE an operator's edit may commit.  An operator's handler reads the     *)
(* row, changes its copy, and writes what it changed at its commit.  The form *)
(* it serves shows the row as it was when the operator opened it, and sends   *)
(* every field of it.                                                       *)
(***************************************************************************)
EXTENDS FiniteSets, Naturals

CONSTANTS
  Cards, Editors,
  Texts, Images,      \* values of the text fields, photos
  CatalogBudgets      \* kind: the table; edits, deploys: bounds; aside: may a
                      \* deploy run beside an edit; racing: two edits may run
                      \* beside each other

Kinds == {"product", "city", "filter"}
(* "outside": it may, but the edit does not commit after the deploy's query   *)
(* of the row and before its UPDATE.                                        *)
Asides == {"never", "outside", "anyhow"}
ASSUME CatalogAssumption ==
  /\ Cards # {} /\ Texts # {}
  /\ CatalogBudgets \subseteq
       [kind : Kinds, edits : Nat, deploys : Nat, aside : Asides, racing : BOOLEAN]

VARIABLES
  cards,    \* rows
  promised, \* the value an operator gave a field, Free if the catalogue rules it
  ofSite,   \* cards that the catalogue has made, or has been able to find
  deploy,   \* the catalogue a deploy brings, what it has read and changes
  form,     \* the card as an operator's form shows it
  edit,     \* what the handler of a form has read and will write
  catalogBudget

catalogVars ==
  <<cards, promised, ofSite, deploy, form, edit, catalogBudget>>

NoCard == [slug |-> "none"]
Card(slug, text, gallery, edited) ==
  [slug |-> slug, text |-> text, gallery |-> gallery, edited |-> edited]
Free == [text |-> "free", gallery |-> {"free"}]
Idle == [at |-> "idle"]
Fields == {"text", "gallery"}
Exists(c) == cards[c] # NoCard
BySlug(slug) == {c \in Cards : cards[c].slug = slug}

(* kind "filter": the bundle may say nothing of it.                         *)
Bundles ==
  [text : Texts, gallery : SUBSET Images,
   present : IF catalogBudget.kind = "filter" THEN BOOLEAN ELSE {TRUE}]

CatalogInit ==
  /\ catalogBudget \in CatalogBudgets
  /\ cards = LET first == CHOOSE c \in Cards : TRUE IN
       [c \in Cards |-> IF c = first THEN Card("catalog", CHOOSE t \in Texts : TRUE, {}, {})
                       ELSE NoCard]
  /\ promised = [c \in Cards |-> Free]
  /\ ofSite = BySlug("catalog")
  /\ deploy = Idle
  /\ form = [e \in Editors |-> Idle] /\ edit = [e \in Editors |-> Idle]

CatalogSpends(what) ==
  /\ catalogBudget[what] > 0
  /\ catalogBudget' = [catalogBudget EXCEPT ![what] = @ - 1]
Querying(c) == deploy # Idle /\ deploy.at = "read" /\ deploy.c = c
Locked(c) == deploy # Idle /\ deploy.at # "read" /\ deploy.c = c /\ deploy.writes
Inserting == deploy # Idle /\ deploy.at # "read" /\ deploy.new
Editing == {e \in Editors : edit[e] # Idle}

(* Ids are not given twice: what is under work may still name a deleted row. *)
Unused(c) ==
  /\ ~Exists(c)
  /\ deploy # Idle => deploy.c # c
  /\ \A e \in Editing : edit[e].c # c

-----------------------------------------------------------------------------
(* The deploy: apply_catalog_bundle --apply --force                         *)

(* _upsert_product, _upsert_city, _sync_product_filter: the query for the row *)
(* and its marks, which locks nothing.                                      *)
Reads(bundle, c, writes, new) ==
  [at |-> "read", bundle |-> bundle, c |-> c, writes |-> writes, new |-> new,
   edited |-> IF new THEN {} ELSE cards[c].edited, drop |-> {}, put |-> {}]
DeployCard(bundle) ==
  /\ deploy = Idle /\ CatalogSpends("deploys")
  /\ catalogBudget.aside # "never" \/ Editing = {}
  /\ \/ \E c \in BySlug("catalog") :
          deploy' = Reads(bundle, c, /\ bundle.present /\ "text" \notin cards[c].edited
                                     /\ cards[c].text # bundle.text, FALSE)
     \/ /\ BySlug("catalog") = {} /\ bundle.present
        /\ \E c \in Cards : Unused(c) /\ deploy' = Reads(bundle, c, TRUE, TRUE)
  /\ UNCHANGED <<cards, promised, ofSite, form, edit>>

(* The UPDATE or the INSERT, flushed by the next query or by the commit.  A   *)
(* row that has gone, and a slug that was taken, make it fail.              *)
DeployWrites ==
  /\ deploy.at = "read" /\ deploy' = [deploy EXCEPT !.at = "card"]
  /\ IF deploy.new THEN BySlug("catalog") = {} ELSE deploy.writes => Exists(deploy.c)
  /\ UNCHANGED <<cards, promised, ofSite, form, edit, catalogBudget>>

(* _replace_product_gallery: the marks are those the product had when it was *)
(* read, the photos those it has now.                                       *)
DeployGallery ==
  /\ deploy.at = "card" /\ catalogBudget.kind = "product"
  /\ deploy' = IF deploy.bundle.gallery # {} /\ "gallery" \notin deploy.edited
                 THEN [deploy EXCEPT
                         !.at = "gallery", !.put = deploy.bundle.gallery,
                         !.drop = IF Exists(deploy.c) THEN cards[deploy.c].gallery ELSE {}]
                 ELSE [deploy EXCEPT !.at = "gallery"]
  /\ UNCHANGED <<cards, promised, ofSite, form, edit, catalogBudget>>

DeployCommits ==
  LET c == deploy.c IN
  /\ deploy.at = IF catalogBudget.kind = "product" THEN "gallery" ELSE "card"
  /\ Exists(c) \/ deploy.new \/ deploy.put = {}
  /\ cards' = IF deploy.new
                THEN [cards EXCEPT ![c] = Card("catalog", deploy.bundle.text, deploy.put, {})]
              ELSE IF ~Exists(c) THEN cards
              ELSE [cards EXCEPT
                      ![c].text = IF deploy.writes THEN deploy.bundle.text ELSE @,
                      ![c].gallery = (@ \ deploy.drop) \cup deploy.put]
  /\ ofSite' = IF deploy.new THEN ofSite \cup {c} ELSE ofSite
  /\ deploy' = Idle
  /\ UNCHANGED <<promised, form, edit, catalogBudget>>

(* Another row of the same transaction is refused.                          *)
DeployFails ==
  /\ deploy # Idle /\ deploy' = Idle
  /\ UNCHANGED <<cards, promised, ofSite, form, edit, catalogBudget>>

-----------------------------------------------------------------------------
(* The operators: routers/admin/products.py, cities.py, product_filters.py  *)

OpenForm(e, c) ==
  /\ edit[e] = Idle /\ Exists(c) /\ form[e] # [c |-> c, card |-> cards[c]]
  /\ form' = [form EXCEPT ![e] = [c |-> c, card |-> cards[c]]]
  /\ UNCHANGED <<cards, promised, ofSite, deploy, edit, catalogBudget>>

MayEdit(e) ==
  /\ edit[e] = Idle /\ CatalogSpends("edits")
  /\ catalogBudget.racing \/ Editing = {}
  /\ catalogBudget.aside # "never" \/ deploy = Idle

(* changed_fields                                                           *)
Changed(before, after) == {f \in Fields : before[f] # after[f]}

(* Mutant: the list of marks starts anew with each edit.                    *)
MarkAnew(before, changed) == changed

(* mark_admin_edited                                                        *)
Mark(before, changed) == before.edited \cup changed

(* The checks of slug in update_admin_product and update_admin_city.        *)
MayRename(c, slug) ==
  /\ BySlug(slug) \subseteq {c}
  /\ cards[c].slug = "catalog" => slug = "catalog"

(* update_admin_product, update_admin_city, update_product_filter up to the   *)
(* commit.                                                                  *)
StartEdit(e, payload) ==
  LET c == form[e].c IN
  /\ form[e] # Idle /\ Exists(c) /\ MayEdit(e)
  /\ MayRename(c, payload.slug)
  /\ edit' = [edit EXCEPT
                ![e] = [c |-> c, read |-> cards[c], to |-> payload,
                        marks |-> Mark(cards[c], Changed(cards[c], payload))]]
  /\ form' = [form EXCEPT ![e] = Idle]
  /\ UNCHANGED <<cards, promised, ofSite, deploy>>

(* The form with one field typed over; a filter has no slug of its own.      *)
Payloads(card) ==
  {Card(card.slug, t, card.gallery, {}) : t \in Texts}
    \cup (IF catalogBudget.kind = "product"
            THEN {Card(card.slug, card.text, g, {}) : g \in SUBSET Images} ELSE {})
    \cup (IF catalogBudget.kind = "filter" THEN {}
          ELSE {Card(s, card.text, card.gallery, {}) : s \in {"catalog", "own"}})

(* The commit: attributes that the handler has changed, photos it has read    *)
(* and did not keep, photos it adds.  It waits for a deploy that has changed *)
(* the row, not for one that has read it.                                   *)
EditCommits(e) ==
  LET q == edit[e]  c == q.c  new == Changed(q.read, q.to) IN
  /\ q # Idle /\ Exists(c) /\ ~Locked(c)
  /\ catalogBudget.aside = "outside" => ~Querying(c)
  /\ \/ q.to.slug = q.read.slug
     \/ BySlug(q.to.slug) \subseteq {c} /\ ~Inserting
  /\ cards' = [cards EXCEPT
       ![c].slug = IF q.to.slug = q.read.slug THEN @ ELSE q.to.slug,
       ![c].text = IF "text" \in new THEN q.to.text ELSE @,
       ![c].gallery = (@ \ (q.read.gallery \ q.to.gallery))
                        \cup (q.to.gallery \ q.read.gallery),
       ![c].edited = IF q.marks = q.read.edited THEN @ ELSE q.marks]
  /\ promised' = [promised EXCEPT
       ![c] = [text |-> IF "text" \in new THEN q.to.text ELSE @.text,
               gallery |-> IF "gallery" \in new THEN q.to.gallery ELSE @.gallery]]
  /\ ofSite' = IF q.to.slug = "catalog" THEN ofSite \cup {c} ELSE ofSite
  /\ edit' = [edit EXCEPT ![e] = Idle]
  /\ UNCHANGED <<deploy, form, catalogBudget>>

(* The row is gone, the slug was taken, or the commit fails.                *)
EditFails(e) ==
  /\ edit[e] # Idle /\ ~Locked(edit[e].c)
  /\ edit' = [edit EXCEPT ![e] = Idle]
  /\ UNCHANGED <<cards, promised, ofSite, deploy, form, catalogBudget>>

(* create_admin_product, create_admin_city: nothing is marked.              *)
CreateCard(e, slug, text) ==
  /\ MayEdit(e) /\ BySlug(slug) = {} /\ ~Inserting
  /\ catalogBudget.kind # "filter"
  /\ \E c \in Cards :
       /\ Unused(c)
       /\ cards' = [cards EXCEPT ![c] = Card(slug, text, {}, {})]
       /\ ofSite' = IF slug = "catalog" THEN ofSite \cup {c} ELSE ofSite
  /\ UNCHANGED <<promised, deploy, form, edit>>

(* create_product_filter: every field is marked.                            *)
CreateFilter(e, text) ==
  /\ MayEdit(e) /\ BySlug("catalog") = {} /\ ~Inserting
  /\ catalogBudget.kind = "filter"
  /\ \E c \in Cards :
       /\ Unused(c)
       /\ cards' = [cards EXCEPT ![c] = Card("catalog", text, {}, Fields)]
       /\ promised' = [promised EXCEPT ![c].text = text]
       /\ ofSite' = ofSite \cup {c}
  /\ UNCHANGED <<deploy, form, edit>>

(* delete_admin_product (no history, not in a cell, not on the front page),  *)
(* delete_admin_city (no lockers, no franchise), delete_product_filter.  A  *)
(* form of the card is answered 404 from now on.                            *)
DeleteCard(e, c) ==
  /\ Exists(c) /\ ~Locked(c) /\ MayEdit(e)
  /\ cards' = [cards EXCEPT ![c] = NoCard]
  /\ promised' = [promised EXCEPT ![c] = Free]
  /\ ofSite' = ofSite \ {c}
  /\ form' = [x \in Editors |-> IF form[x] # Idle /\ form[x].c = c THEN Idle ELSE form[x]]
  /\ UNCHANGED <<deploy, edit>>

CatalogNext ==
  \/ (\E b \in Bundles : DeployCard(b))
  \/ DeployWrites \/ DeployGallery \/ DeployCommits \/ DeployFails
  \/ \E e \in Editors :
       \/ EditCommits(e) \/ EditFails(e)
       \/ \E c \in Cards : OpenForm(e, c) \/ DeleteCard(e, c)
       \/ form[e] # Idle /\ \E p \in Payloads(form[e].card) : StartEdit(e, p)
       \/ \E slug \in {"catalog", "own"}, t \in Texts : CreateCard(e, slug, t)
       \/ \E t \in Texts : CreateFilter(e, t)
CatalogSpec == CatalogInit /\ [][CatalogNext]_catalogVars

-----------------------------------------------------------------------------
(* Every variable has its type.                                             *)
CatalogTypeOK ==
  /\ \A c \in Cards : Exists(c) =>
       /\ cards[c].slug \in {"catalog", "own"} /\ cards[c].text \in Texts
       /\ cards[c].gallery \subseteq Images /\ cards[c].edited \subseteq Fields
  /\ \A s \in {"catalog", "own"} : Cardinality(BySlug(s)) <= 1

(* A deploy leaves the operators' work alone.  What an operator has changed   *)
(* stays as they left it, whatever catalogues later deploys bring and         *)
(* whatever else is edited: a text also when the deploy runs beside the edit, *)
(* unless the edit commits after the deploy's query of the row and before its *)
(* UPDATE, the photos only when no deploy does (docstring of admin_edits.py). *)
(* No deploy makes a second card beside one that was renamed, deleted or made *)
(* by hand (is_catalog_product, is_catalog_city), at whatever moment it was.  *)
EditsKept ==
  /\ \A c \in Cards : Exists(c) /\ ~catalogBudget.racing =>
       /\ catalogBudget.aside # "anyhow" => promised[c].text \in {Free.text, cards[c].text}
       /\ catalogBudget.aside = "never" =>
            promised[c].gallery \in {Free.gallery, cards[c].gallery}
  /\ Cardinality(ofSite) <= 1
=============================================================================
