------------------------------ MODULE PlanCatalog ------------------------------
(***************************************************************************)
(* The price on the billing page (features/billing/BillingPage.tsx, api.ts) *)
(* and the price the server picks (features/billing/router.py).  Stripe's  *)
(* catalog is mirrored to Firestore document by document; the page listens *)
(* to the product and, through a second listener, to its prices, and asks  *)
(* the server while it can make out no price itself.  The server reads the *)
(* same mirror, the product and then its prices, and asks Stripe only when *)
(* they give no price.  A checkout picks its price in the same way.        *)
(*                                                                         *)
(* One product carries the plan.  Its document embeds no prices, a price   *)
(* keeps its lookup key, and one that has been mirrored is switched off    *)
(* and never deleted, which is what Stripe's extension does.               *)
(***************************************************************************)
EXTENDS Naturals

CONSTANTS
    Prices,       \* recurring prices of the product
    Keyings,      \* which of them have the lookup keys pro_monthly and pro, if any
    NoPrice,
    MaxChanges,   \* bound: changes made at Stripe, and what fails
    MaxTroubles   \* bound: listeners that fail and server requests that fail

Catalogs == [active : BOOLEAN, default : Prices \cup {NoPrice}, on : SUBSET Prices]
NoProduct == [default |-> NoPrice, prices |-> {}, known |-> FALSE]

VARIABLES
    stripe,     \* Stripe's catalog
    mirror,     \* the documents: the product's fields, and the prices there and those switched on
    heard,      \* what the product listener has delivered last, and whether it is alive
    listening,  \* the price listener: "off", "new" before its first snapshot, "on", "failed"
    byId,       \* productsById
    products,   \* products: byId as last emitted, or nothing after an error
    keys,       \* the lookup keys
    asked,      \* the request whose answer is awaited: what the server does next, or "no"
    found,      \* what the server has read for it: the product's default price, then the answer
    server,     \* serverCatalog
    changes, breakdowns,
    astray      \* history: a listener or a request has failed, or a change was undone unheard

catalogVars == <<stripe, mirror, heard, listening, byId, products, keys, asked, found,
                 server, changes, breakdowns, astray>>

Trouble == breakdowns > 0 /\ breakdowns' = breakdowns - 1 /\ astray' = TRUE
NoTrouble == UNCHANGED <<breakdowns, astray>>

--------------------------------------------------------------------------------
(* Which of the active prices is the plan's. *)

Sole(on) == IF \E p \in Prices : on = {p} THEN CHOOSE p \in Prices : on = {p} ELSE NoPrice

\* selectPlanCatalogPrice: the default price, the one with the key pro_monthly, or the only one.
Select(default, on) ==
    CASE default \in on -> default
      [] default \notin on /\ keys.monthly \in on -> keys.monthly
      [] {default, keys.monthly} \cap on = {} -> Sole(on)

\* _choose_price: the server knows a second key.
Choose(default, on) ==
    IF {default, keys.monthly} \cap on = {} /\ keys.pro \in on THEN keys.pro ELSE Select(default, on)

PriceOf(product) == IF product.known THEN Select(product.default, product.prices) ELSE NoPrice

\* _stripe_catalog_for_product: a default the mirror has stands in for one Stripe has not, and
\* whether Stripe's product is active is not looked at.
Live(default) == Choose(IF stripe.default # NoPrice THEN stripe.default ELSE default, stripe.on)

Local == PriceOf(products)

\* proPrice
Shown == IF Local # NoPrice THEN Local ELSE server

--------------------------------------------------------------------------------
(* Stripe, and its extension, which copies one document at a time. *)

\* A change that is undone before the page has heard of it leaves no trace in the documents.
Undoes(new) ==
    \/ stripe.active # heard.active /\ new.active = heard.active
    \/ heard.active /\ stripe.default # heard.default /\ new.default = heard.default
    \/ /\ listening = "on"
       /\ \E p \in Prices : (p \in stripe.on) # (p \in byId.prices) /\ (p \in new.on) = (p \in byId.prices)

\* The product is changed, or one of its prices.
OneObject(new) ==
    \/ new.on = stripe.on
    \/ /\ <<new.active, new.default>> = <<stripe.active, stripe.default>>
       /\ \E p \in Prices : new.on \in {stripe.on \cup {p}, stripe.on \ {p}}

ChangeCatalog ==
    /\ changes > 0 /\ changes' = changes - 1
    /\ \E new \in Catalogs \ {stripe} :
         OneObject(new) /\ stripe' = new /\ astray' = (astray \/ Undoes(new))
    /\ UNCHANGED <<mirror, heard, listening, byId, products, keys, asked, found, server, breakdowns>>

MirrorProduct ==
    /\ <<mirror.active, mirror.default>> # <<stripe.active, stripe.default>>
    /\ mirror' = [mirror EXCEPT !.active = stripe.active, !.default = stripe.default]
    /\ UNCHANGED <<stripe, heard, listening, byId, products, keys, asked, found, server, changes>> /\ NoTrouble

MirrorPrice(p) ==
    /\ (p \in mirror.on) # (p \in stripe.on)
    /\ mirror' = [mirror EXCEPT !.there = @ \cup {p},
                                !.on = IF p \in stripe.on THEN @ \cup {p} ELSE @ \ {p}]
    /\ UNCHANGED <<stripe, heard, listening, byId, products, keys, asked, found, server, changes>> /\ NoTrouble

--------------------------------------------------------------------------------
(* The effect on [products]: every emission drops the request before it. *)

\* Mutation of Emit: a price the server gave is not asked for again.
EmitAskOnce(product) ==
    /\ products' = product /\ found' = NoPrice
    /\ IF PriceOf(product) # NoPrice THEN asked' = "no" /\ server' = NoPrice
       ELSE asked' = (IF server = NoPrice THEN "product" ELSE "no") /\ UNCHANGED server

Emit(product) ==
    /\ products' = product /\ found' = NoPrice
    /\ IF PriceOf(product) # NoPrice THEN asked' = "no" /\ server' = NoPrice
                                     ELSE asked' = "product" /\ UNCHANGED server

(* _select_price_for_plan: each read of the documents, and of Stripe, is a step. *)

\* There is no plan without an active product in the documents.
ServerReadsProduct ==
    /\ asked = "product"
    /\ \/ mirror.active /\ asked' = "prices" /\ found' = mirror.default
       \/ ~mirror.active /\ asked' = "back" /\ found' = NoPrice

ServerReadsPrices ==
    LET price == Choose(found, mirror.on)
    IN /\ asked = "prices"
       /\ \/ price # NoPrice /\ asked' = "back" /\ found' = price
          \/ price = NoPrice /\ asked' = "stripe" /\ UNCHANGED found

\* Without an answer of Stripe's there is no price.
ServerAsksStripe == asked = "stripe" /\ asked' = "back" /\ found' \in {Live(found), NoPrice}

ServerWorks ==
    /\ ServerReadsProduct \/ ServerReadsPrices \/ ServerAsksStripe
    /\ UNCHANGED <<stripe, mirror, heard, listening, byId, products, keys, server, changes>> /\ NoTrouble

ServerAnswers ==
    /\ asked' = "no" /\ found' = NoPrice
    /\ \/ asked = "back" /\ server' = found /\ NoTrouble
       \/ asked # "no" /\ server' = NoPrice /\ Trouble
    /\ UNCHANGED <<stripe, mirror, heard, listening, byId, products, keys, changes>>

--------------------------------------------------------------------------------
(* observeActiveProducts *)

\* Prices that are known are kept until the price listener brings others.
ProductOf == [default |-> mirror.default, known |-> TRUE, prices |-> byId.prices]

ProductSnapshot ==
    /\ byId' = IF mirror.active THEN ProductOf ELSE NoProduct
    /\ listening' = IF mirror.active THEN IF listening = "off" THEN "new" ELSE listening ELSE "off"

\* The query is for active products.
Listed == [alive |-> TRUE, active |-> mirror.active, default |-> IF mirror.active THEN mirror.default ELSE NoPrice]

HearProduct ==
    /\ heard.alive /\ heard # Listed /\ heard' = Listed
    /\ ProductSnapshot
    /\ Emit(byId')
    /\ UNCHANGED <<stripe, mirror, keys, changes>> /\ NoTrouble

\* A snapshot with no document leaves the prices as they are.
Merged == IF mirror.there = {} THEN byId.prices ELSE mirror.on

HearPrices ==
    /\ \/ listening = "new"
       \/ listening = "on" /\ mirror.on # byId.prices
    /\ listening' = "on"
    /\ byId' = [byId EXCEPT !.prices = Merged]
    /\ Emit(byId')
    /\ UNCHANGED <<stripe, mirror, heard, keys, changes>> /\ NoTrouble

ProductListenerFails ==
    /\ heard.alive /\ heard' = [heard EXCEPT !.alive = FALSE]
    /\ Emit(NoProduct) /\ Trouble
    /\ UNCHANGED <<stripe, mirror, listening, byId, keys, changes>>

PriceListenerFails ==
    /\ listening \in {"new", "on"} /\ listening' = "failed"
    /\ Emit(byId) /\ Trouble
    /\ UNCHANGED <<stripe, mirror, heard, byId, keys, changes>>

\* The page opens on a mirror that is complete or has not begun.
CatalogInit ==
    /\ stripe \in Catalogs
    /\ mirror \in {[active |-> stripe.active, default |-> stripe.default, on |-> stripe.on, there |-> stripe.on],
                   [active |-> FALSE, default |-> NoPrice, on |-> {}, there |-> {}]}
    /\ heard = [alive |-> TRUE, active |-> FALSE, default |-> NoPrice]
    /\ listening = "off" /\ byId = NoProduct /\ products = NoProduct
    /\ keys \in Keyings /\ asked = "product" /\ found = NoPrice /\ server = NoPrice
    /\ \E t \in 0..MaxTroubles : breakdowns = t /\ changes = MaxChanges - t
    /\ astray = FALSE

Extension == MirrorProduct \/ \E p \in Prices : MirrorPrice(p)

CatalogNext == ChangeCatalog \/ Extension \/ ServerWorks \/ ServerAnswers \/ HearProduct \/ HearPrices
               \/ ProductListenerFails \/ PriceListenerFails

CatalogSpec == CatalogInit /\ [][CatalogNext]_catalogVars
--------------------------------------------------------------------------------
(* Properties *)

\* Every variable keeps its type, and there is a price listener for just the products that are known.
CatalogTypeOK ==
    /\ stripe \in Catalogs
    /\ mirror \in [active : BOOLEAN, default : Prices \cup {NoPrice}, on : SUBSET Prices, there : SUBSET Prices]
    /\ mirror.on \subseteq mirror.there
    /\ {products, byId} \subseteq [default : Prices \cup {NoPrice}, prices : SUBSET Prices, known : BOOLEAN]
    /\ {server, found} \subseteq Prices \cup {NoPrice}
    /\ asked \in {"no", "product", "prices", "stripe", "back"}
    /\ (listening = "off") = ~byId.known

\* What Stripe has was copied, and the listeners and the server have answered.
Heard ==
    /\ <<mirror.active, mirror.default, mirror.on>> = <<stripe.active, stripe.default, stripe.on>>
    /\ heard = Listed /\ listening # "new" /\ byId.prices = (IF byId.known THEN mirror.on ELSE {})
    /\ asked = "no"

OfStripe == IF stripe.active THEN Choose(stripe.default, stripe.on) ELSE NoPrice

\* create_checkout_session picks the price again, from the documents as they then are.
Charged ==
    LET mirrored == Choose(mirror.default, mirror.on)
    IN CASE ~mirror.active -> NoPrice
         [] mirror.active /\ mirrored # NoPrice -> mirrored
         [] mirror.active /\ mirrored = NoPrice -> Live(mirror.default)

\* "This lets price changes made in Stripe appear after the extension syncs Firestore"
\* (BillingPage.tsx): whatever order the product, its prices and the server's answers came in, and
\* however old the documents were that the server read, the page ends up with Stripe's price, which
\* is the one a checkout charges, unless a listener or a request has failed.
PriceFollows == Heard => astray \/ (Shown = OfStripe /\ Shown = Charged)
================================================================================
