----------------------------- MODULE ChangeProofs ------------------------------
(***************************************************************************)
(* Proofs about the pages from which a user changes what the service       *)
(* holds: manages the account, pays, starts a run, and orders its          *)
(* versions.  What was asked for is what is done, once; nobody is sent to  *)
(* the checkout of a plan the page was told of; the price shown is         *)
(* Stripe's; a run is made as its dialog showed it; and the map of         *)
(* versions draws what is saved.  For any methods, prices and versions,    *)
(* any number of requests, and every order of the answers.                 *)
(***************************************************************************)
EXTENDS Pages, FiniteSetTheorems, TLAPS

\* A visit stays on its page, and a step on a page is a step of that page.
LEMMA OnePage ==
    ASSUME [PagesNext]_pagesVars
    PROVE  /\ route' = route
           /\ route = "profile" => Account!ProfileNext \/ UNCHANGED accountVars
           /\ route = "billing" => Plan!BillingNext \/ UNCHANGED planVars
           /\ route = "catalog" => Catalog!CatalogNext \/ UNCHANGED catalogVars
           /\ route = "launcher" => Launch!LauncherNext \/ UNCHANGED launchVars
           /\ route = "versions" => Output!VersionsNext \/ UNCHANGED outputVars
<1>1. CASE UNCHANGED pagesVars
  BY <1>1 DEF pagesVars
<1>2. CASE PagesNext
  BY <1>2 DEF PagesNext, AccountStep, PlanStep, CatalogStep, LaunchStep, EditorStep, OutputStep,
    OnlyTheAccount, OnlyThePlan, OnlyTheCatalog, OnlyTheLaunch, OnlyTheEditor, OnlyTheOutput
<1> QED
  BY <1>1, <1>2

--------------------------------------------------------------------------------
(* Plan and usage. *)

\* A plan the user has is known, unless what was heard last is older or a failure.
PlanHeard == sub => unheard \/ subs \/ limits = "PRO"

LEMMA PlanStepKeeps ==
    ASSUME PlanHeard, Plan!BillingNext
    PROVE  PlanHeard'
<1> USE DEF PlanHeard
<1>1. CASE Plan!Loaded \/ Plan!PollAnswered
  BY <1>1 DEF Plan!Loaded, Plan!PollAnswered, Plan!Polled, Plan!Hears, Plan!Plan
<1>2. CASE Plan!Snapshot
  BY <1>2 DEF Plan!Snapshot
<1>3. CASE Plan!LoadFails \/ Plan!ListenerFails \/ Plan!Changed
  BY <1>3 DEF Plan!LoadFails, Plan!ListenerFails, Plan!Changed
<1>4. CASE \/ Plan!ServiceAnswers \/ Plan!Tick \/ Plan!PollFails \/ Plan!Listening \/ Plan!ObserverRefused
           \/ Plan!Renew \/ Plan!Subscribe \/ Plan!Manage \/ Plan!Portal \/ Plan!PortalFallsBack
  BY <1>4 DEF Plan!ServiceAnswers, Plan!Tick, Plan!PollFails, Plan!Listening, Plan!ObserverRefused, Plan!Renew,
    Plan!Subscribe, Plan!Manage, Plan!Portal, Plan!Leaves, Plan!CheckoutFails, Plan!PortalRefused,
    Plan!PortalFallsBack
<1> QED
  BY <1>1, <1>2, <1>3, <1>4 DEF Plan!BillingNext, Plan!BillingCalls

\* Only Subscribe begins a checkout.
LEMMA CheckoutNeeded ==
    ASSUME PlanHeard, Plan!BillingNext
    PROVE  Plan!Needed
<1>1. CASE Plan!Subscribe
  BY <1>1 DEF Plan!Subscribe, Plan!MaySubscribe, Plan!OnPro, Plan!Needed, PlanHeard
<1>2. CASE btn' = btn \/ btn' # "checkout"
  BY <1>2 DEF Plan!Needed
<1>3. \/ Plan!Subscribe
      \/ btn' = btn \/ btn' # "checkout"
  BY DEF Plan!BillingNext, Plan!BillingCalls, Plan!ServiceAnswers, Plan!Loaded, Plan!PollAnswered, Plan!Tick,
    Plan!LoadFails, Plan!PollFails, Plan!Listening, Plan!ObserverRefused, Plan!Snapshot, Plan!ListenerFails,
    Plan!Renew, Plan!Changed, Plan!Manage, Plan!Portal, Plan!Leaves, Plan!CheckoutFails, Plan!PortalRefused,
    Plan!PortalFallsBack, Plan!GivesUp
<1> QED
  BY <1>1, <1>2, <1>3

\* BillingPage: a user with a plan is sent to the checkout only while what the page heard last,
\* from the limits or the subscriptions, is older than that plan or a failure.
THEOREM NeverASecondPlan == PagesSpec => NoSecondPlan
<1> DEFINE Inv == route = "billing" => PlanHeard
<1>1. PagesInit => Inv
  BY DEF PagesInit, Plan!BillingInit, PlanHeard
<1>2. Inv /\ [PagesNext]_pagesVars => Inv'
  <2> SUFFICES ASSUME Inv, [PagesNext]_pagesVars, route = "billing"
               PROVE  PlanHeard'
    BY OnePage
  <2>1. CASE UNCHANGED planVars
    BY <2>1 DEF planVars, PlanHeard
  <2> QED
    BY <2>1, PlanStepKeeps, OnePage
<1>3. Inv /\ [PagesNext]_pagesVars => [route = "billing" => Plan!Needed]_pagesVars
  <2> SUFFICES ASSUME Inv, [PagesNext]_pagesVars, route = "billing"
               PROVE  Plan!Needed
    OBVIOUS
  <2>1. CASE UNCHANGED planVars
    BY <2>1 DEF planVars, Plan!Needed
  <2> QED
    BY <2>1, CheckoutNeeded, OnePage
<1> QED
  BY <1>1, <1>2, <1>3, PTL DEF PagesSpec, NoSecondPlan

--------------------------------------------------------------------------------
(* The price. *)

Mirrors == [active : BOOLEAN, default : Prices \cup {NoPrice}, on : SUBSET Prices, there : SUBSET Prices]
Heards == [alive : BOOLEAN, active : BOOLEAN, default : Prices \cup {NoPrice}]
Products == [default : Prices \cup {NoPrice}, prices : SUBSET Prices, known : BOOLEAN]

CatalogTypes ==
    /\ stripe \in Catalog!Catalogs /\ mirror \in Mirrors /\ heard \in Heards /\ byId \in Products
    /\ mirror.on \subseteq mirror.there /\ (mirror.there = {} => byId.prices = {})

\* The product the page has is the one heard of, with the default heard.
ProductHeard ==
    /\ byId.known = heard.active
    /\ heard.active => byId.default = heard.default
    /\ ~heard.active => byId.prices = {}
    /\ (listening = "off") = ~byId.known
    /\ listening \in {"off", "new", "on", "failed"}

\* The page has yet to hear of something.
Behind ==
    \/ stripe.active # heard.active
    \/ heard.active /\ (stripe.default # heard.default \/ listening = "new" \/ stripe.on # byId.prices)

\* What the page has heard is in the documents still, or has changed at Stripe.
MirrorBetween ==
    /\ stripe.active = heard.active => mirror.active = stripe.active
    /\ heard.active /\ stripe.default = heard.default => mirror.default = stripe.default
    /\ listening = "on" =>
         \A p \in Prices : (p \in stripe.on) = (p \in byId.prices) => (p \in mirror.on) = (p \in stripe.on)

\* The server's choice from what the page has heard.
Expected == IF heard.active THEN Catalog!Choose(heard.default, byId.prices) ELSE NoPrice

\* What the server has read so far for the request is what the page has heard.
ReadAsHeard ==
    /\ asked = "prices" => heard.active /\ found = heard.default
    /\ asked = "stripe" => heard.active /\ found = heard.default /\ Expected = NoPrice
    /\ asked = "back" => found = Expected
    /\ asked = "no" /\ Catalog!Local = NoPrice => server = Expected

\* As long as nothing failed and no change was undone unheard: the page shows what it heard, and
\* the server's answer is read from nothing else, unless something is still on its way to the page.
AnswerStands ==
    ~astray => products = byId /\ listening # "failed" /\ MirrorBetween /\ (Behind \/ ReadAsHeard)

CatalogInv == CatalogTypes /\ ProductHeard /\ AnswerStands

\* A price the page can make out itself is the one the server would choose.
LEMMA SameChoice ==
    ASSUME NEW default, NEW on \in SUBSET Prices,
           Catalog!Select(default, on) # NoPrice
    PROVE  Catalog!Select(default, on) = Catalog!Choose(default, on)
<1>1. CASE {default, keys.monthly} \cap on = {} /\ keys.pro \in on
  <2>1. Catalog!Select(default, on) = Catalog!Sole(on)
    BY <1>1 DEF Catalog!Select
  <2>2. PICK p \in Prices : on = {p}
    BY <2>1 DEF Catalog!Sole
  <2>3. (CHOOSE q \in Prices : on = {q}) = p /\ keys.pro = p
    BY <1>1, <2>2
  <2> QED
    BY <1>1, <2>1, <2>2, <2>3 DEF Catalog!Sole, Catalog!Choose
<1> QED
  BY <1>1 DEF Catalog!Choose

\* A page that is not behind has heard what the documents and Stripe hold.
LEMMA HeardAll ==
    ASSUME CatalogInv, ~astray, ~Behind
    PROVE  /\ stripe.active = heard.active /\ mirror.active = heard.active
           /\ heard.active => /\ stripe.default = heard.default /\ mirror.default = heard.default
                              /\ stripe.on = byId.prices /\ mirror.on = byId.prices
<1>1. ProductHeard /\ MirrorBetween /\ listening # "failed"
  BY DEF CatalogInv, AnswerStands
<1>2. stripe.active = heard.active /\ mirror.active = heard.active
  BY <1>1 DEF Behind, MirrorBetween
<1>3. ASSUME heard.active
      PROVE  /\ stripe.default = heard.default /\ mirror.default = heard.default
             /\ stripe.on = byId.prices /\ mirror.on = byId.prices
  <2>1. stripe.default = heard.default /\ stripe.on = byId.prices /\ listening = "on"
    BY <1>1, <1>3 DEF Behind, ProductHeard
  <2>2. mirror.default = heard.default
    BY <1>1, <1>3, <2>1 DEF MirrorBetween
  <2>3. mirror.on \subseteq Prices /\ stripe.on \subseteq Prices
    BY DEF CatalogInv, CatalogTypes, Mirrors, Catalog!Catalogs
  <2>4. mirror.on = stripe.on
    BY <1>1, <2>1, <2>3 DEF MirrorBetween
  <2> QED
    BY <2>1, <2>2, <2>4
<1> QED
  BY <1>2, <1>3

\* With all answers in, the page shows Stripe's price, and a checkout charges it.
LEMMA PriceHeard == CatalogInv => Catalog!PriceFollows
<1> SUFFICES ASSUME CatalogInv, Catalog!Heard, ~astray
             PROVE  Catalog!Shown = Catalog!OfStripe /\ Catalog!Shown = Catalog!Charged
  BY DEF Catalog!PriceFollows
<1>1. /\ mirror.active = stripe.active /\ mirror.default = stripe.default /\ mirror.on = stripe.on
      /\ heard.active = mirror.active /\ (mirror.active => heard.default = mirror.default)
      /\ byId.prices = (IF byId.known THEN mirror.on ELSE {}) /\ asked = "no" /\ listening # "new"
  BY DEF Catalog!Heard, Catalog!Listed
<1>2. byId.known = heard.active /\ (heard.active => byId.default = heard.default)
  BY DEF CatalogInv, ProductHeard
<1>3. ~Behind
  BY <1>1, <1>2 DEF Behind
<1>4. products = byId /\ (Catalog!Local = NoPrice => server = Expected)
  BY <1>1, <1>3 DEF CatalogInv, AnswerStands, ReadAsHeard
<1>5. CASE stripe.active
  <2>1. byId.known /\ byId.default = stripe.default /\ byId.prices = stripe.on
    BY <1>1, <1>2, <1>5
  <2>2. Catalog!Local = Catalog!Select(stripe.default, stripe.on)
    BY <1>4, <2>1 DEF Catalog!Local, Catalog!PriceOf
  <2>3. Catalog!OfStripe = Catalog!Choose(stripe.default, stripe.on)
    BY <1>5 DEF Catalog!OfStripe
  <2>4. Expected = Catalog!OfStripe
    BY <1>1, <1>5, <2>1, <2>3 DEF Expected
  <2>5. stripe.on \in SUBSET Prices
    BY DEF CatalogInv, CatalogTypes, Catalog!Catalogs
  <2>6. Catalog!Shown = Catalog!OfStripe
    BY <1>4, <2>2, <2>3, <2>4, <2>5, SameChoice DEF Catalog!Shown
  <2>7. Catalog!Live(stripe.default) = Catalog!OfStripe
    BY <2>3 DEF Catalog!Live
  <2>8. Catalog!Charged = Catalog!OfStripe
    BY <1>1, <1>5, <2>3, <2>7 DEF Catalog!Charged
  <2> QED
    BY <2>6, <2>8
<1>6. CASE ~stripe.active
  <2>1. ~byId.known /\ ~heard.active /\ ~mirror.active
    BY <1>1, <1>2, <1>6
  <2>2. Catalog!Local = NoPrice /\ Expected = NoPrice
    BY <1>4, <2>1 DEF Catalog!Local, Catalog!PriceOf, Expected
  <2>3. Catalog!OfStripe = NoPrice /\ Catalog!Charged = NoPrice
    BY <1>6, <2>1 DEF Catalog!OfStripe, Catalog!Charged
  <2> QED
    BY <1>4, <2>2, <2>3 DEF Catalog!Shown
<1> QED
  BY <1>5, <1>6

\* An emission asks the server again, or has a price of its own.
LEMMA EmitStep ==
    ASSUME NEW product, Catalog!Emit(product), UNCHANGED keys
    PROVE  products' = product /\ (asked' = "product" \/ (asked' = "no" /\ Catalog!Local' # NoPrice))
<1>1. products' = product
  BY DEF Catalog!Emit
<1>2. Catalog!Local' = Catalog!PriceOf(product)
  <2>1. Catalog!Local' = (IF product.known THEN Catalog!Select(product.default, product.prices)' ELSE NoPrice)
    BY <1>1 DEF Catalog!Local, Catalog!PriceOf
  <2>2. Catalog!Select(product.default, product.prices)' = Catalog!Select(product.default, product.prices)
    BY DEF Catalog!Select
  <2> QED
    BY <2>1, <2>2 DEF Catalog!PriceOf
<1> QED
  BY <1>1, <1>2 DEF Catalog!Emit

\* A change at Stripe leaves the page behind, unless it undoes what the page was not told of.
LEMMA ChangeStep ==
    ASSUME CatalogInv, Catalog!ChangeCatalog
    PROVE  CatalogInv'
<1>1. PICK new \in Catalog!Catalogs \ {stripe} : stripe' = new /\ astray' = (astray \/ Catalog!Undoes(new))
  BY DEF Catalog!ChangeCatalog
<1>2. UNCHANGED <<mirror, heard, listening, byId, products, keys, asked, found, server>>
  BY DEF Catalog!ChangeCatalog
<1>3. CatalogTypes' /\ ProductHeard'
  BY <1>1, <1>2 DEF CatalogInv, CatalogTypes, ProductHeard
<1> SUFFICES ASSUME ~astray'
             PROVE  products' = byId' /\ listening' # "failed" /\ MirrorBetween' /\ (Behind' \/ ReadAsHeard')
  BY <1>3 DEF CatalogInv, AnswerStands
<1>4. ~Catalog!Undoes(new) /\ ~astray
  BY <1>1
<1>5. products = byId /\ listening # "failed" /\ MirrorBetween /\ (Behind \/ ReadAsHeard)
  BY <1>4 DEF CatalogInv, AnswerStands
<1>6. MirrorBetween'
  BY <1>1, <1>2, <1>4, <1>5 DEF MirrorBetween, Catalog!Undoes
<1>7. ASSUME Behind
      PROVE  Behind'
  <2>1. CASE stripe.active # heard.active
    BY <1>1, <1>2, <1>4, <2>1 DEF Behind, Catalog!Undoes
  <2>2. CASE heard.active /\ (stripe.default # heard.default \/ listening = "new")
    BY <1>1, <1>2, <1>4, <2>2 DEF Behind, Catalog!Undoes
  <2>3. CASE heard.active /\ listening # "new" /\ stripe.on # byId.prices
    <3>1. stripe.on \subseteq Prices /\ byId.prices \subseteq Prices /\ listening = "on"
      BY <1>5, <2>3 DEF CatalogInv, CatalogTypes, Catalog!Catalogs, Products, ProductHeard
    <3>2. PICK p \in Prices : (p \in stripe.on) # (p \in byId.prices)
      BY <2>3, <3>1
    <3>3. (p \in new.on) # (p \in byId.prices)
      BY <1>4, <3>1, <3>2 DEF Catalog!Undoes
    <3> QED
      BY <1>1, <1>2, <2>3, <3>3 DEF Behind
  <2> QED
    BY <1>7, <2>1, <2>2, <2>3 DEF Behind
<1>8. ReadAsHeard => ReadAsHeard'
  BY <1>2 DEF ReadAsHeard, Expected, Catalog!Local, Catalog!PriceOf, Catalog!Select, Catalog!Choose, Catalog!Sole
<1> QED
  BY <1>2, <1>5, <1>6, <1>7, <1>8

\* What the listeners bring is in the documents, and is emitted.
LEMMA HearStep ==
    ASSUME CatalogInv, Catalog!HearProduct \/ Catalog!HearPrices
    PROVE  CatalogInv'
<1>1. /\ products' = byId' /\ (asked' = "product" \/ (asked' = "no" /\ Catalog!Local' # NoPrice))
      /\ UNCHANGED <<stripe, mirror, astray>>
  BY EmitStep DEF Catalog!HearProduct, Catalog!HearPrices, Catalog!NoTrouble
<1>2. ReadAsHeard'
  BY <1>1 DEF ReadAsHeard
<1>3. ASSUME CatalogTypes', ProductHeard', ~astray => listening' # "failed" /\ MirrorBetween'
      PROVE  CatalogInv'
  BY <1>1, <1>2, <1>3 DEF CatalogInv, AnswerStands
<1>4. CASE Catalog!HearProduct
  <2>1. /\ heard' = Catalog!Listed /\ byId' = IF mirror.active THEN Catalog!ProductOf ELSE Catalog!NoProduct
        /\ listening' = IF mirror.active THEN IF listening = "off" THEN "new" ELSE listening ELSE "off"
    BY <1>4 DEF Catalog!HearProduct, Catalog!ProductSnapshot
  <2>2. CatalogTypes'
    BY <1>1, <2>1 DEF CatalogInv, CatalogTypes, Catalog!Listed, Catalog!ProductOf, Catalog!NoProduct, Heards,
      Products, Mirrors
  <2>3. ProductHeard'
    BY <2>1 DEF CatalogInv, CatalogTypes, ProductHeard, Catalog!Listed, Catalog!ProductOf, Catalog!NoProduct,
      Mirrors
  <2>4. ~astray => listening' # "failed" /\ MirrorBetween'
    BY <1>1, <2>1 DEF CatalogInv, AnswerStands, MirrorBetween, Catalog!Listed, Catalog!ProductOf
  <2> QED
    BY <1>3, <2>2, <2>3, <2>4
<1>5. CASE Catalog!HearPrices
  <2>1. byId' = [byId EXCEPT !.prices = Catalog!Merged] /\ UNCHANGED heard /\ listening' = "on"
        /\ listening \in {"new", "on"}
    BY <1>5 DEF Catalog!HearPrices
  <2>2. Catalog!Merged = mirror.on /\ mirror.on \in SUBSET Prices /\ byId \in Products
    BY DEF CatalogInv, CatalogTypes, Catalog!Merged, Mirrors
  <2>3. byId' \in Products /\ byId'.known = byId.known /\ byId'.default = byId.default /\ byId'.prices = mirror.on
    BY <2>1, <2>2 DEF Products
  <2>4. CatalogTypes'
    BY <1>1, <2>1, <2>3 DEF CatalogInv, CatalogTypes
  <2>5. ProductHeard'
    BY <2>1, <2>3 DEF CatalogInv, ProductHeard
  <2>6. ~astray => listening' # "failed" /\ MirrorBetween'
    BY <1>1, <2>1, <2>3 DEF CatalogInv, AnswerStands, MirrorBetween
  <2> QED
    BY <1>3, <2>4, <2>5, <2>6
<1> QED
  BY <1>4, <1>5

\* A document that is copied brings what Stripe has.
LEMMA MirrorStep ==
    ASSUME CatalogInv, Catalog!Extension
    PROVE  CatalogInv'
<1>1. UNCHANGED <<stripe, heard, listening, byId, products, keys, asked, found, server, astray>>
  <2>1. CASE Catalog!MirrorProduct
    BY <2>1 DEF Catalog!MirrorProduct, Catalog!NoTrouble
  <2>2. ASSUME NEW p \in Prices, Catalog!MirrorPrice(p)
        PROVE  UNCHANGED <<stripe, heard, listening, byId, products, keys, asked, found, server, astray>>
    BY <2>2 DEF Catalog!MirrorPrice, Catalog!NoTrouble
  <2> QED
    BY <2>1, <2>2 DEF Catalog!Extension
<1>2. mirror' \in Mirrors /\ mirror'.on \subseteq mirror'.there /\ (mirror'.there = {} => mirror.there = {})
      /\ (MirrorBetween => MirrorBetween')
  <2> USE DEF CatalogInv, CatalogTypes
  <2>1. CASE Catalog!MirrorProduct
    <3>1. /\ mirror' \in Mirrors /\ mirror'.active = stripe.active /\ mirror'.default = stripe.default
          /\ mirror'.on = mirror.on /\ mirror'.there = mirror.there
      BY <2>1 DEF Catalog!MirrorProduct, Mirrors, Catalog!Catalogs
    <3> QED
      BY <1>1, <3>1 DEF MirrorBetween
  <2>2. ASSUME NEW p \in Prices, Catalog!MirrorPrice(p)
        PROVE  /\ mirror' \in Mirrors /\ mirror'.on \subseteq mirror'.there /\ mirror'.there # {}
               /\ MirrorBetween => MirrorBetween'
    <3> DEFINE now == IF p \in stripe.on THEN mirror.on \cup {p} ELSE mirror.on \ {p}
    <3>1. mirror.there \cup {p} \in SUBSET Prices /\ now \in SUBSET Prices /\ now \subseteq mirror.there \cup {p}
      BY DEF Mirrors
    <3>2. mirror' = [mirror EXCEPT !.there = mirror.there \cup {p}, !.on = now]
      BY <2>2 DEF Catalog!MirrorPrice
    <3>3. /\ mirror' \in Mirrors /\ mirror'.active = mirror.active /\ mirror'.default = mirror.default
          /\ mirror'.on = now /\ mirror'.there = mirror.there \cup {p}
      BY <3>1, <3>2 DEF Mirrors
    <3>4. \A q \in Prices : q \in mirror'.on <=> (IF q = p THEN q \in stripe.on ELSE q \in mirror.on)
      BY <3>3
    <3>5. MirrorBetween => MirrorBetween'
      BY <1>1, <3>3, <3>4 DEF MirrorBetween
    <3> QED
      BY <3>1, <3>3, <3>5
  <2> QED
    BY <2>1, <2>2 DEF Catalog!Extension
<1>3. CatalogTypes' /\ ProductHeard'
  BY <1>1, <1>2 DEF CatalogInv, CatalogTypes, ProductHeard
<1>4. (ReadAsHeard => ReadAsHeard') /\ (Behind => Behind')
  BY <1>1 DEF ReadAsHeard, Behind, Expected, Catalog!Local, Catalog!PriceOf, Catalog!Select, Catalog!Choose,
    Catalog!Sole
<1>5. AnswerStands'
  BY <1>1, <1>2, <1>4 DEF CatalogInv, AnswerStands
<1> QED
  BY <1>3, <1>5 DEF CatalogInv

\* The server reads what the page has heard, or the page is yet to hear of it.
LEMMA ServerStep ==
    ASSUME CatalogInv, Catalog!ServerWorks \/ Catalog!ServerAnswers
    PROVE  CatalogInv'
<1>1. UNCHANGED <<stripe, mirror, heard, listening, byId, products, keys>>
  BY DEF Catalog!ServerWorks, Catalog!ServerAnswers
<1>2. CatalogTypes' /\ ProductHeard' /\ (MirrorBetween => MirrorBetween') /\ (Behind => Behind')
  BY <1>1 DEF CatalogInv, CatalogTypes, ProductHeard, MirrorBetween, Behind
<1> SUFFICES ASSUME ~astray', ~Behind
             PROVE  ReadAsHeard'
  BY <1>1, <1>2 DEF CatalogInv, AnswerStands, Catalog!ServerWorks, Catalog!ServerAnswers, Catalog!Trouble,
    Catalog!NoTrouble
<1>3. ~astray
  BY DEF Catalog!ServerWorks, Catalog!ServerAnswers, Catalog!Trouble, Catalog!NoTrouble
<1>4. ReadAsHeard
  BY <1>3 DEF CatalogInv, AnswerStands
<1>5. /\ stripe.active = heard.active /\ mirror.active = heard.active
      /\ heard.active => /\ stripe.default = heard.default /\ mirror.default = heard.default
                         /\ stripe.on = byId.prices /\ mirror.on = byId.prices
  BY <1>3, HeardAll
<1>6. Expected' = Expected /\ Catalog!Local' = Catalog!Local
  BY <1>1 DEF Expected, Catalog!Local, Catalog!PriceOf, Catalog!Select, Catalog!Choose, Catalog!Sole
<1>7. CASE Catalog!ServerReadsProduct /\ Catalog!ServerWorks
  BY <1>1, <1>5, <1>6, <1>7 DEF Catalog!ServerReadsProduct, ReadAsHeard, Expected
<1>8. CASE Catalog!ServerReadsPrices /\ Catalog!ServerWorks
  <2>1. asked = "prices" /\ heard.active /\ found = heard.default
    BY <1>4, <1>8 DEF Catalog!ServerReadsPrices, ReadAsHeard
  <2>2. Catalog!Choose(found, mirror.on) = Expected
    BY <1>5, <2>1 DEF Expected
  <2> QED
    BY <1>1, <1>6, <1>8, <2>1, <2>2 DEF Catalog!ServerReadsPrices, ReadAsHeard
<1>9. CASE Catalog!ServerAsksStripe /\ Catalog!ServerWorks
  <2>1. heard.active /\ found = heard.default /\ Expected = NoPrice
    BY <1>4, <1>9 DEF Catalog!ServerAsksStripe, ReadAsHeard
  <2>2. Catalog!Live(found) = Expected
    BY <1>5, <2>1 DEF Catalog!Live, Expected
  <2> QED
    BY <1>6, <1>9, <2>1, <2>2 DEF Catalog!ServerAsksStripe, ReadAsHeard
<1>10. CASE Catalog!ServerAnswers
  <2>1. asked = "back" /\ server' = found /\ asked' = "no"
    BY <1>10 DEF Catalog!ServerAnswers, Catalog!Trouble
  <2> QED
    BY <1>4, <1>6, <2>1 DEF ReadAsHeard
<1> QED
  BY <1>7, <1>8, <1>9, <1>10 DEF Catalog!ServerWorks

LEMMA CatalogStepKeeps ==
    ASSUME CatalogInv, Catalog!CatalogNext
    PROVE  CatalogInv'
<1>1. CASE Catalog!ProductListenerFails \/ Catalog!PriceListenerFails
  <2>1. astray' /\ UNCHANGED <<stripe, mirror, byId>>
    BY <1>1 DEF Catalog!ProductListenerFails, Catalog!PriceListenerFails, Catalog!Trouble
  <2>2. heard' \in Heards /\ heard'.active = heard.active /\ heard'.default = heard.default
    BY <1>1 DEF CatalogInv, CatalogTypes, Catalog!ProductListenerFails, Catalog!PriceListenerFails, Heards
  <2>3. listening' = listening \/ (listening \in {"new", "on"} /\ listening' = "failed")
    BY <1>1 DEF Catalog!ProductListenerFails, Catalog!PriceListenerFails
  <2> QED
    BY <2>1, <2>2, <2>3 DEF CatalogInv, CatalogTypes, ProductHeard, AnswerStands
<1> QED
  BY <1>1, ChangeStep, HearStep, MirrorStep, ServerStep DEF Catalog!CatalogNext

THEOREM CatalogInductive == PagesSpec => [](route = "catalog" => CatalogInv)
<1>1. PagesInit => (route = "catalog" => CatalogInv)
  <2>1. Catalog!CatalogInit => CatalogInv
    <3> SUFFICES ASSUME Catalog!CatalogInit
                 PROVE  CatalogInv
      OBVIOUS
    <3>1. /\ stripe \in Catalog!Catalogs /\ heard \in Heards /\ byId \in Products
          /\ heard.active = FALSE /\ byId.known = FALSE /\ byId.prices = {} /\ listening = "off"
      BY DEF Catalog!CatalogInit, Heards, Products, Catalog!NoProduct
    <3>2. /\ mirror \in Mirrors /\ mirror.on \subseteq mirror.there
          /\ mirror.active = stripe.active \/ mirror.active = FALSE
      <4>1. /\ stripe.active \in BOOLEAN /\ stripe.default \in Prices \cup {NoPrice}
            /\ stripe.on \in SUBSET Prices
        BY <3>1 DEF Catalog!Catalogs
      <4>2. \/ mirror = [active |-> stripe.active, default |-> stripe.default, on |-> stripe.on,
                        there |-> stripe.on]
            \/ mirror = [active |-> FALSE, default |-> NoPrice, on |-> {}, there |-> {}]
        BY DEF Catalog!CatalogInit
      <4>3. ASSUME NEW a \in BOOLEAN, NEW d \in Prices \cup {NoPrice}, NEW o \in SUBSET Prices
            PROVE  [active |-> a, default |-> d, on |-> o, there |-> o] \in Mirrors
        BY DEF Mirrors
      <4>5. mirror.on \subseteq mirror.there /\ (mirror.active = stripe.active \/ mirror.active = FALSE)
        BY <4>2
      <4>4. {} \in SUBSET Prices /\ FALSE \in BOOLEAN /\ NoPrice \in Prices \cup {NoPrice}
        OBVIOUS
      <4> QED
        BY <4>1, <4>2, <4>3, <4>4, <4>5
    <3>3. ProductHeard
      BY <3>1 DEF ProductHeard
    <3>4. AnswerStands
      <4>1. products = byId /\ asked = "product"
        BY DEF Catalog!CatalogInit
      <4> QED
        BY <3>1, <3>2, <4>1 DEF AnswerStands, MirrorBetween, ReadAsHeard
    <3> QED
      BY <3>1, <3>2, <3>3, <3>4 DEF CatalogInv, CatalogTypes
  <2> QED
    BY <2>1 DEF PagesInit
<1>2. ASSUME route = "catalog" => CatalogInv, [PagesNext]_pagesVars
      PROVE  (route = "catalog" => CatalogInv)'
  <2> SUFFICES ASSUME route = "catalog"
               PROVE  CatalogInv'
    BY <1>2, OnePage
  <2>1. CASE UNCHANGED catalogVars
    BY <1>2, <2>1 DEF catalogVars, CatalogInv, CatalogTypes, ProductHeard, AnswerStands, MirrorBetween, Behind,
      ReadAsHeard, Expected, Catalog!Local, Catalog!PriceOf, Catalog!Select, Catalog!Choose, Catalog!Sole
  <2> QED
    BY <1>2, <2>1, CatalogStepKeeps, OnePage
<1> QED
  BY <1>1, <1>2, PTL DEF PagesSpec

\* BillingPage's catalog: once all have answered, the price on offer is Stripe's and the one a
\* checkout charges, in whatever order the product, its prices and the server's answers came and
\* however old the documents the server read, unless something failed or a change was undone before
\* it was heard of.
THEOREM ThePriceFollows == PagesSpec => []PriceFollows
<1>1. (route = "catalog" => CatalogInv) => PriceFollows
  BY PriceHeard DEF PriceFollows
<1> QED
  BY <1>1, CatalogInductive, PTL

--------------------------------------------------------------------------------
(* The dialog that starts a run. *)

AsShown(a, s) == a = s \/ a = [s EXCEPT !.chips = {}]

\* A call carries what was asked for beside what the dialog showed, and so do the runs it made.
CallAsShown ==
    request = Launch!NoCall
        \/ \E to, a, s : request = [to |-> to, asked |-> a, shown |-> s] /\ AsShown(a, s)

\* The catalog and the dialog are not open together.
OneDialog ==
    /\ catalog \in [open : BOOLEAN, step : {"library", "workflow"}, library : {"core", "pro"}]
    /\ open \in BOOLEAN /\ ~(open /\ catalog.open)

LaunchInv == CallAsShown /\ Launch!RunAsShown /\ OneDialog

\* What is sent differs from what is shown by the chips only, when all were taken away.
LEMMA AskedAsShown == AsShown(Launch!Asked, Launch!Shown)
<1> DEFINE base == Launch!Shown
<1>1. CASE workflow = "legal" /\ form.chips # {}
  <2>1. Launch!Shown.chips = form.chips
    BY <1>1 DEF Launch!Shown, Launch!ShownChips
  <2> QED
    BY <1>1, <2>1 DEF AsShown, Launch!Asked, Launch!Shown, Launch!ShownChips
<1>2. CASE workflow = "legal" /\ form.chips = {}
  BY <1>2 DEF AsShown, Launch!Asked
<1>3. CASE workflow # "legal"
  BY <1>3 DEF AsShown, Launch!Asked
<1> QED
  BY <1>1, <1>2, <1>3

\* Running.
LEMMA RunStep ==
    ASSUME LaunchInv, Launch!Run \/ Launch!ServeRun \/ Launch!RunAnswered \/ Launch!RunFails
    PROVE  LaunchInv' /\ Launch!LosesNothing
<1> USE DEF LaunchInv
<1>1. CASE Launch!Run
  <2>1. /\ request' = [to |-> "asked", asked |-> Launch!Asked, shown |-> Launch!Shown]
        /\ UNCHANGED <<runs, catalog, open, form>>
    BY <1>1 DEF Launch!Run, Launch!service, Launch!dialog
  <2>2. CallAsShown'
    BY <2>1, AskedAsShown DEF CallAsShown
  <2> QED
    BY <2>1, <2>2 DEF Launch!RunAsShown, OneDialog, Launch!LosesNothing
<1>2. CASE Launch!ServeRun
  <2>1. /\ request.to = "asked" /\ request' = [request EXCEPT !.to = "made"]
        /\ runs' = runs \cup {[asked |-> request.asked, shown |-> request.shown]}
        /\ UNCHANGED <<catalog, open, form>>
    BY <1>2 DEF Launch!ServeRun, Launch!dialog
  <2>2. request # Launch!NoCall
    BY <2>1 DEF Launch!NoCall
  <2>3. PICK to, a, s : request = [to |-> to, asked |-> a, shown |-> s] /\ AsShown(a, s)
    BY <2>2 DEF CallAsShown
  <2>4. request' = [to |-> "made", asked |-> a, shown |-> s] /\ request.asked = a /\ request.shown = s
    BY <2>1, <2>3
  <2>5. CallAsShown'
    BY <2>3, <2>4 DEF CallAsShown
  <2>6. Launch!RunAsShown'
    <3>1. runs' = runs \cup {[asked |-> a, shown |-> s]}
      BY <2>1, <2>4
    <3>2. ASSUME NEW r \in runs'
          PROVE  AsShown(r.asked, r.shown)
      <4>1. CASE r \in runs
        BY <4>1 DEF Launch!RunAsShown, AsShown
      <4>2. CASE r = [asked |-> a, shown |-> s]
        BY <2>3, <4>2
      <4> QED
        BY <3>1, <3>2, <4>1, <4>2
    <3> QED
      BY <3>2 DEF Launch!RunAsShown, AsShown
  <2> QED
    BY <2>1, <2>5, <2>6 DEF OneDialog, Launch!LosesNothing
<1>3. CASE Launch!RunAnswered
  BY <1>3 DEF Launch!RunAnswered, Launch!Cleared, Launch!service, Launch!files, CallAsShown, Launch!RunAsShown,
    OneDialog, Launch!LosesNothing
<1>4. CASE Launch!RunFails
  BY <1>4 DEF Launch!RunFails, Launch!FailKeeps, Launch!dialog, Launch!service, Launch!files, CallAsShown,
    Launch!RunAsShown, OneDialog, Launch!LosesNothing
<1> QED
  BY <1>1, <1>2, <1>3, <1>4

\* The catalog and the dialog open and close.
LEMMA OpenStep ==
    ASSUME LaunchInv,
           \/ Launch!OpenCatalog \/ Launch!CloseCatalog \/ Launch!CatalogBack
           \/ \E v \in {"core", "pro"} : Launch!ChooseLibrary(v)
           \/ Launch!LaunchCore \/ Launch!LaunchPack
           \/ \E w \in Launch!Workflows : Launch!FollowUp(w)
           \/ Launch!Close
    PROVE  LaunchInv' /\ Launch!LosesNothing
<1>1. UNCHANGED <<runs, request>>
  BY DEF Launch!OpenCatalog, Launch!CloseCatalog, Launch!CatalogBack, Launch!ChooseLibrary, Launch!LaunchCore,
    Launch!LaunchPack, Launch!FollowUp, Launch!Close, Launch!Browse, Launch!Handed, Launch!service
<1>2. CallAsShown' /\ Launch!RunAsShown'
  BY <1>1 DEF LaunchInv, CallAsShown, Launch!RunAsShown
<1>3. CASE \/ Launch!OpenCatalog \/ Launch!CloseCatalog \/ Launch!CatalogBack
           \/ \E v \in {"core", "pro"} : Launch!ChooseLibrary(v)
  <2>1. OneDialog'
    <3> USE DEF LaunchInv, OneDialog, Launch!Browse, Launch!dialog
    <3>1. CASE Launch!OpenCatalog
      BY <3>1 DEF Launch!OpenCatalog
    <3>2. CASE Launch!CloseCatalog
      BY <3>2 DEF Launch!CloseCatalog
    <3>3. CASE Launch!CatalogBack
      BY <3>3 DEF Launch!CatalogBack, Launch!InCatalog
    <3>4. ASSUME NEW v \in {"core", "pro"}, Launch!ChooseLibrary(v)
          PROVE  OneDialog'
      BY <3>4 DEF Launch!ChooseLibrary, Launch!LibraryOffered, Launch!InCatalog
    <3> QED
      BY <1>3, <3>1, <3>2, <3>3, <3>4
  <2>2. UNCHANGED <<open, form>>
    BY <1>3 DEF Launch!OpenCatalog, Launch!CloseCatalog, Launch!CatalogBack, Launch!ChooseLibrary, Launch!Browse,
      Launch!dialog
  <2> QED
    BY <1>2, <2>1, <2>2 DEF LaunchInv, OneDialog, Launch!LosesNothing
<1>4. CASE Launch!LaunchCore \/ Launch!LaunchPack
  <2>1. catalog.open /\ catalog' = [catalog EXCEPT !.open = FALSE, !.step = "library"] /\ open' = TRUE
    BY <1>4 DEF Launch!LaunchCore, Launch!LaunchPack, Launch!CoreOffered, Launch!PackOffered,
      Launch!CatalogOffers, Launch!InCatalog, Launch!LeaveCatalog, Launch!Handed
  <2> QED
    BY <1>2, <2>1 DEF LaunchInv, OneDialog, Launch!LosesNothing
<1>5. ASSUME NEW w \in Launch!Workflows, Launch!FollowUp(w)
      PROVE  LaunchInv' /\ Launch!LosesNothing
  <2>1. ~open /\ ~catalog.open /\ UNCHANGED catalog /\ open' = TRUE
    BY <1>5 DEF Launch!FollowUp, Launch!Handed
  <2> QED
    BY <1>2, <2>1 DEF LaunchInv, OneDialog, Launch!LosesNothing
<1>6. CASE Launch!Close
  BY <1>2, <1>6 DEF LaunchInv, OneDialog, Launch!LosesNothing, Launch!Close, Launch!Cleared
<1> QED
  BY <1>3, <1>4, <1>5, <1>6

\* The list of files, and what the user fills in.
LEMMA FillStep ==
    ASSUME LaunchInv,
           \/ Launch!ServeList \/ Launch!ShowList \/ Launch!ListFails
           \/ \E f \in Files : Launch!DeletedElsewhere(f) \/ Launch!Pick(f)
           \/ Launch!ClearAll \/ Launch!Type
           \/ \E c \in Chips : Launch!ToggleChip(c)
           \/ \E s \in 1 .. Len(Launch!Steps) : Launch!GoTo(s)
    PROVE  LaunchInv' /\ Launch!LosesNothing
<1>1. UNCHANGED <<runs, request, catalog, open>>
  BY DEF Launch!ServeList, Launch!ShowList, Launch!ListFails, Launch!DeletedElsewhere, Launch!Pick,
    Launch!ClearAll, Launch!Type, Launch!ToggleChip, Launch!GoTo, Launch!Fill, Launch!service, Launch!dialog
<1>2. UNCHANGED form \/ UNCHANGED <<list, listing, stored>>
  BY DEF Launch!ServeList, Launch!ShowList, Launch!ListFails, Launch!DeletedElsewhere, Launch!Pick,
    Launch!ClearAll, Launch!Type, Launch!ToggleChip, Launch!GoTo, Launch!Fill, Launch!KeepForm, Launch!service,
    Launch!files, Launch!dialog
<1> QED
  BY <1>1, <1>2 DEF LaunchInv, CallAsShown, Launch!RunAsShown, OneDialog, Launch!LosesNothing

LEMMA LaunchStepKeeps ==
    ASSUME LaunchInv, Launch!LauncherNext \/ UNCHANGED launchVars
    PROVE  LaunchInv' /\ Launch!LosesNothing
<1>1. CASE UNCHANGED launchVars
  BY <1>1 DEF launchVars, LaunchInv, CallAsShown, Launch!RunAsShown, OneDialog, Launch!LosesNothing
<1>2. CASE Launch!LauncherNext
  BY <1>2, RunStep, OpenStep, FillStep DEF Launch!LauncherNext
<1> QED
  BY <1>1, <1>2

THEOREM LaunchInductive == PagesSpec => [](route = "launcher" => LaunchInv)
<1>1. PagesInit => (route = "launcher" => LaunchInv)
  <2>1. Launch!LauncherInit => CallAsShown /\ Launch!RunAsShown
    BY DEF Launch!LauncherInit, CallAsShown, Launch!RunAsShown
  <2>2. Launch!LauncherInit => OneDialog
    <3>1. Launch!LauncherInit => /\ catalog = [open |-> FALSE, step |-> "library", library |-> "core"]
                                 /\ open = FALSE
      BY DEF Launch!LauncherInit
    <3>2. [open |-> FALSE, step |-> "library", library |-> "core"]
            \in [open : BOOLEAN, step : {"library", "workflow"}, library : {"core", "pro"}]
      OBVIOUS
    <3> QED
      BY <3>1, <3>2, Zenon DEF OneDialog
  <2> QED
    BY <2>1, <2>2 DEF PagesInit, LaunchInv
<1>2. ASSUME route = "launcher" => LaunchInv, [PagesNext]_pagesVars
      PROVE  (route = "launcher" => LaunchInv)'
  BY <1>2, LaunchStepKeeps, OnePage
<1> QED
  BY <1>1, <1>2, PTL DEF PagesSpec

\* The launchers: a run is made with the files, the text, the chips and the source its dialog
\* showed when Run was pressed, whatever is opened, closed or filled in until the answer.
THEOREM RunsAreAsShown == PagesSpec => []RunAsShown
<1>1. (route = "launcher" => LaunchInv) => RunAsShown
  BY DEF LaunchInv, RunAsShown
<1> QED
  BY <1>1, LaunchInductive, PTL

\* The launchers: what a user has filled in is lost only when he closes the dialog or a run was made.
THEOREM NothingFilledLost == PagesSpec => FilledKept
<1>1. (route = "launcher" => LaunchInv) /\ [PagesNext]_pagesVars => [route = "launcher" => Launch!LosesNothing]_pagesVars
  BY LaunchStepKeeps, OnePage
<1> QED
  BY <1>1, LaunchInductive, PTL DEF PagesSpec, FilledKept

--------------------------------------------------------------------------------
(* The account. *)

ClickStates == [change : Account!Changes, again : BOOLEAN, done : Nat, givenUp : BOOLEAN,
                stage : Account!Stages]

\* The change kept for after the verification waits for it.
ProfileTypes ==
    /\ click \in [Account!Clicks -> ClickStates]
    /\ pending \in Account!Clicks \cup {Account!NoClick}
    /\ pending # Account!NoClick => click[pending].stage = "waiting"
    /\ dialog \in [open : BOOLEAN, step : {"enter", "code"}, loading : BOOLEAN]

\* A change is done when its request is sent, and not before; what was given up is never sent
\* again, although it may still be kept while no verification is on its way.
Once(i) ==
    /\ click[i].done <= 1
    /\ click[i].stage \in {"unused", "sent", "waiting"} => click[i].done = 0
    /\ click[i].givenUp => /\ click[i].done = 0
                           /\ click[i].stage = "over" \/ (pending = i /\ verifying = 0 /\ ~dialog.open)

DoneOnce == \A i \in Account!Clicks : Once(i)

\* A change that is under way, or will be if the dialog that is open verifies the user.
Active(i) == Account!Running(i) \/ (dialog.open /\ pending = i)

\* As long as the page knows the account's methods, one change at most is under way, and it
\* leaves a way to sign in.
Known ==
    ~estranged =>
        /\ local = methods /\ methods # {}
        /\ shown = methods \/ \E i \in Account!Clicks : click[i].stage = "after"
        /\ \A i, j \in Account!Clicks : Active(i) /\ Active(j) => i = j
        /\ \A i \in Account!Clicks : Active(i) /\ click[i].stage # "after" =>
                                        Account!Effect(click[i].change) # {}

ProfileInv == ProfileTypes /\ DoneOnce /\ Known

\* No change becomes active, and the account stays as it is.
LEMMA KnownStep ==
    ASSUME Known,
           ~estranged' =>
               /\ ~estranged /\ methods' = methods /\ local' \in {local, methods}
               /\ \/ shown' \in {local, methods}
                  \/ /\ shown' = shown
                     /\ \A j \in Account!Clicks : click[j].stage = "after" => click'[j].stage = "after"
               /\ \A j \in Account!Clicks : Active(j)' =>
                     /\ Active(j) /\ click'[j].change = click[j].change
                     /\ click[j].stage = "after" => click'[j].stage = "after"
    PROVE  Known'
<1> SUFFICES ASSUME ~estranged'
             PROVE  /\ local' = methods' /\ methods' # {}
                    /\ shown' = methods' \/ \E i \in Account!Clicks : click'[i].stage = "after"
                    /\ \A i, j \in Account!Clicks : Active(i)' /\ Active(j)' => i = j
                    /\ \A i \in Account!Clicks : Active(i)' /\ click'[i].stage # "after" =>
                                                   Account!Effect(click[i].change)' # {}
  BY DEF Known
<1>1. /\ ~estranged /\ methods' = methods /\ local = methods /\ methods # {}
      /\ \A i, j \in Account!Clicks : Active(i) /\ Active(j) => i = j
  BY DEF Known
<1>2. local' = methods' /\ methods' # {}
  BY <1>1
<1>3. shown' = methods' \/ \E i \in Account!Clicks : click'[i].stage = "after"
  BY <1>1 DEF Known
<1>4. \A i, j \in Account!Clicks : Active(i)' /\ Active(j)' => i = j
  BY <1>1
<1>5. ASSUME NEW i \in Account!Clicks, Active(i)', click'[i].stage # "after"
      PROVE  Account!Effect(click[i].change)' # {}
  <2>1. Active(i) /\ click'[i].change = click[i].change /\ click[i].stage # "after"
    BY <1>5
  <2>2. Account!Effect(click[i].change) # {}
    BY <1>1, <2>1 DEF Known
  <2>3. Account!Effect(click[i].change)' = Account!Effect(click[i].change)
    BY <1>1, <2>1 DEF Account!Effect
  <2> QED
    BY <2>2, <2>3
<1> QED
  BY <1>2, <1>3, <1>4, <1>5

\* A change that is under way ends.
LEMMA OverStep ==
    ASSUME ProfileInv, NEW i \in Account!Clicks, Account!Running(i), NEW d \in {0, 1},
           click' = [click EXCEPT ![i].done = d, ![i].stage = "over"],
           UNCHANGED <<pending, dialog, verifying>>
    PROVE  /\ ProfileTypes' /\ DoneOnce'
           /\ \A j \in Account!Clicks : j # i => click'[j] = click[j]
           /\ \A j \in Account!Clicks : Active(j)' => Active(j) /\ j # i
<1> USE DEF ProfileInv, ProfileTypes
<1>1. /\ click' \in [Account!Clicks -> ClickStates] /\ click'[i].stage = "over" /\ click'[i].done = d
      /\ click'[i].givenUp = click[i].givenUp
  <2>1. click[i] \in ClickStates /\ d \in Nat /\ "over" \in Account!Stages
    BY DEF Account!Stages
  <2>2. [click[i] EXCEPT !.done = d, !.stage = "over"] \in ClickStates
    BY <2>1 DEF ClickStates
  <2>3. click' = [click EXCEPT ![i] = [click[i] EXCEPT !.done = d, !.stage = "over"]]
    BY <2>1 DEF ClickStates
  <2> QED
    BY <2>1, <2>2, <2>3 DEF ClickStates
<1>2. \A j \in Account!Clicks : j # i => click'[j] = click[j]
  OBVIOUS
<1>3. pending # i /\ click[i].stage \in {"sent", "after"}
  BY DEF Account!Running, Account!Clicks, Account!NoClick
<1>4. ~click[i].givenUp
  BY <1>3 DEF DoneOnce, Once
<1>5. ProfileTypes'
  BY <1>1, <1>2, <1>3
<1>6. DoneOnce'
  BY <1>1, <1>2, <1>4 DEF DoneOnce, Once
<1>7. \A j \in Account!Clicks : Active(j)' => Active(j) /\ j # i
  BY <1>1, <1>2, <1>3 DEF Active, Account!Running
<1> QED
  BY <1>2, <1>5, <1>6, <1>7


LEMMA EndedAsIs ==
    ASSUME ProfileInv, NEW i \in Account!Clicks, Account!Running(i)
    PROVE  /\ Account!To(i, "over") = [click EXCEPT ![i].done = click[i].done, ![i].stage = "over"]
           /\ click[i].done \in {0, 1}
           /\ click[i].stage = "sent" => click[i].done + 1 \in {0, 1}
<1>1. click \in [Account!Clicks -> ClickStates] /\ click[i] \in ClickStates
  BY DEF ProfileInv, ProfileTypes
<1>2. click[i].done \in Nat /\ click[i].done <= 1
  BY <1>1 DEF ClickStates, ProfileInv, DoneOnce, Once
<1>3. click[i].stage = "sent" => click[i].done = 0
  BY DEF ProfileInv, DoneOnce, Once
<1>4. [click[i] EXCEPT !.stage = "over"] = [click[i] EXCEPT !.done = click[i].done, !.stage = "over"]
  BY <1>1 DEF ClickStates
<1>5. Account!To(i, "over") = [click EXCEPT ![i].done = click[i].done, ![i].stage = "over"]
  BY <1>1, <1>4 DEF Account!To
<1> QED
  BY <1>2, <1>3, <1>5

\* A request is answered, and its change is over.
LEMMA AnswerStep ==
    ASSUME ProfileInv, NEW i \in Account!Clicks,
           Account!CodeSent(i) \/ Account!Reloaded(i) \/ Account!ReloadFailed(i) \/ Account!Failed(i)
    PROVE  ProfileInv'
<1>1. Account!Running(i)
  BY DEF Account!Running, Account!CodeSent, Account!Reloaded, Account!ReloadFailed, Account!Failed
<1>2. UNCHANGED <<pending, dialog, verifying>>
  BY DEF Account!CodeSent, Account!Reloaded, Account!ReloadFailed, Account!Failed, Account!reauth
<1>3. \/ click' = Account!To(i, "over")
      \/ click[i].stage = "sent" /\ click' = [click EXCEPT ![i].done = @ + 1, ![i].stage = "over"]
  BY DEF Account!CodeSent, Account!Reloaded, Account!ReloadFailed, Account!Failed
<1>4. \E d \in {0, 1} : click' = [click EXCEPT ![i].done = d, ![i].stage = "over"]
  BY <1>1, <1>3, EndedAsIs
<1>5. /\ ProfileTypes' /\ DoneOnce'
      /\ \A j \in Account!Clicks : j # i => click'[j] = click[j]
      /\ \A j \in Account!Clicks : Active(j)' => Active(j) /\ j # i
  BY <1>1, <1>2, <1>4, OverStep
<1>6. \/ estranged'
      \/ /\ estranged' = estranged /\ methods' = methods /\ local' \in {local, methods}
         /\ shown' \in {local, methods} \/ (shown' = shown /\ click[i].stage = "sent")
  BY DEF Account!CodeSent, Account!Reloaded, Account!ReloadFailed, Account!Failed, Account!ShowLocal,
    Account!account
<1>7. Known'
  BY <1>5, <1>6, KnownStep DEF ProfileInv
<1> QED
  BY <1>5, <1>7 DEF ProfileInv

\* Firebase does what was asked for.
LEMMA PerformedStep ==
    ASSUME ProfileInv, NEW i \in Account!Clicks, Account!Performed(i)
    PROVE  ProfileInv'
<1> USE DEF ProfileInv, ProfileTypes
<1>1. /\ click[i].stage = "sent" /\ methods' = Account!Effect(click[i].change) /\ local' = methods'
      /\ click' = [click EXCEPT ![i].done = @ + 1, ![i].stage = "after"]
      /\ UNCHANGED <<shown, pending, dialog, verifying, estranged>>
  BY DEF Account!Performed, Account!Perform, Account!reauth
<1>2. click[i] \in ClickStates /\ click[i].done = 0 /\ ~click[i].givenUp /\ pending # i
  BY <1>1 DEF DoneOnce, Once, Account!Clicks, Account!NoClick
<1>3. click' \in [Account!Clicks -> ClickStates] /\ click'[i].stage = "after" /\ click'[i].done = 1
      /\ click'[i].givenUp = click[i].givenUp
  <2>1. \A d \in Nat : [click[i] EXCEPT !.done = d, !.stage = "after"] \in ClickStates
    BY <1>2 DEF ClickStates, Account!Stages
  <2>2. click' = [click EXCEPT ![i] = [click[i] EXCEPT !.done = click[i].done + 1, !.stage = "after"]]
    BY <1>1, <1>2 DEF ClickStates
  <2>3. click[i].done + 1 = 1
    BY <1>2
  <2> QED
    BY <1>2, <2>1, <2>2, <2>3 DEF ClickStates
<1>4. \A j \in Account!Clicks : j # i => click'[j] = click[j]
  BY <1>1
<1>5. ProfileTypes' /\ DoneOnce'
  BY <1>1, <1>2, <1>3, <1>4 DEF DoneOnce, Once
<1>6. Active(i) /\ \A j \in Account!Clicks : Active(j)' => Active(j)
  BY <1>1, <1>4 DEF Active, Account!Running
<1>7. Known'
  <2> SUFFICES ASSUME ~estranged'
               PROVE  /\ local' = methods' /\ methods' # {}
                      /\ shown' = methods' \/ \E j \in Account!Clicks : click'[j].stage = "after"
                      /\ \A j, k \in Account!Clicks : Active(j)' /\ Active(k)' => j = k
                      /\ \A j \in Account!Clicks : Active(j)' /\ click'[j].stage # "after" =>
                                                     Account!Effect(click[j].change)' # {}
    BY DEF Known
  <2>1. /\ \A j, k \in Account!Clicks : Active(j) /\ Active(k) => j = k
        /\ Account!Effect(click[i].change) # {}
    BY <1>1, <1>6 DEF Known
  <2>2. \A j \in Account!Clicks : Active(j)' => j = i
    BY <1>6, <2>1
  <2> QED
    BY <1>1, <1>3, <2>1, <2>2
<1> QED
  BY <1>5, <1>7

\* The sign-in is too old: the change waits for the verification, and the one that waited is over.
LEMMA KeepStepAccount ==
    ASSUME ProfileInv, NEW i \in Account!Clicks, click[i].stage = "sent", Account!Keep(i),
           Account!OpenDialog, UNCHANGED <<methods, local, verifying, estranged>>, shown' = local
    PROVE  ProfileInv'
<1> USE DEF ProfileInv, ProfileTypes
<1>1. /\ pending' = i
      /\ click' = [j \in Account!Clicks |->
                     IF j = i THEN [click[j] EXCEPT !.stage = "waiting"]
                     ELSE IF j = pending THEN [click[j] EXCEPT !.stage = "over"] ELSE click[j]]
  BY DEF Account!Keep
<1>2. dialog'.open /\ dialog' \in [open : BOOLEAN, step : {"enter", "code"}, loading : BOOLEAN]
  BY DEF Account!OpenDialog, Account!ClosedDialog
<1>3. \A c \in ClickStates, s \in Account!Stages :
         /\ [c EXCEPT !.stage = s] \in ClickStates /\ [c EXCEPT !.stage = s].stage = s
         /\ [c EXCEPT !.stage = s].done = c.done /\ [c EXCEPT !.stage = s].givenUp = c.givenUp
         /\ [c EXCEPT !.stage = s].change = c.change
  BY DEF ClickStates
<1>4. {"waiting", "over"} \subseteq Account!Stages
  BY DEF Account!Stages
<1>5. \A j \in Account!Clicks :
         /\ click'[j] \in ClickStates
         /\ click'[j].stage = IF j = i THEN "waiting" ELSE IF j = pending THEN "over" ELSE click[j].stage
         /\ click'[j].done = click[j].done /\ click'[j].givenUp = click[j].givenUp
         /\ click'[j].change = click[j].change
  BY <1>1, <1>3, <1>4
<1>6. i # Account!NoClick /\ (pending # Account!NoClick => click[pending].stage = "waiting" /\ pending # i)
  BY DEF Account!Clicks, Account!NoClick
<1>7. ProfileTypes'
  BY <1>1, <1>2, <1>5, <1>6
<1>8. DoneOnce'
  <2> SUFFICES ASSUME NEW j \in Account!Clicks
               PROVE  Once(j)'
    BY DEF DoneOnce
  <2>1. Once(j)
    BY DEF DoneOnce
  <2>2. ~click[i].givenUp /\ click[i].done = 0
    BY <1>6 DEF DoneOnce, Once
  <2> QED
    BY <1>1, <1>5, <1>6, <2>1, <2>2 DEF Once
<1>9. \A j \in Account!Clicks : Active(j)' => Active(j) /\ (click[j].stage = "after" => click'[j].stage = "after")
  BY <1>1, <1>5 DEF Active, Account!Running
<1>10. Known'
  BY <1>5, <1>9, KnownStep
<1> QED
  BY <1>7, <1>8, <1>10

LEMMA TooOldStep ==
    ASSUME ProfileInv, NEW i \in Account!Clicks, Account!TooOld(i)
    PROVE  ProfileInv'
<1>1. /\ click[i].stage = "sent" /\ shown' = local /\ UNCHANGED <<methods, local, verifying, estranged>>
      /\ \/ Account!Keep(i) /\ Account!OpenDialog
         \/ click' = Account!To(i, "over") /\ UNCHANGED <<pending, dialog>>
  BY DEF Account!TooOld, Account!account
<1>2. CASE Account!Keep(i) /\ Account!OpenDialog
  BY <1>1, <1>2, KeepStepAccount
<1>3. CASE click' = Account!To(i, "over") /\ UNCHANGED <<pending, dialog>>
  <2>1. Account!Running(i)
    BY <1>1 DEF Account!Running
  <2>2. \E d \in {0, 1} : click' = [click EXCEPT ![i].done = d, ![i].stage = "over"]
    BY <1>3, <2>1, EndedAsIs
  <2>3. /\ ProfileTypes' /\ DoneOnce'
        /\ \A j \in Account!Clicks : j # i => click'[j] = click[j]
        /\ \A j \in Account!Clicks : Active(j)' => Active(j) /\ j # i
    BY <1>1, <1>3, <2>1, <2>2, OverStep
  <2>4. Known'
    BY <1>1, <2>3, KnownStep DEF ProfileInv
  <2> QED
    BY <2>3, <2>4 DEF ProfileInv
<1> QED
  BY <1>1, <1>2, <1>3

\* The page offers to unlink a method when it shows another one.
LEMMA AnotherMethod ==
    ASSUME NEW m, Account!CanUnlink(m), shown = methods
    PROVE  methods \ {m} # {}
<1> SUFFICES ASSUME methods \ {m} = {}
             PROVE  FALSE
  OBVIOUS
<1>1. m \in methods /\ Cardinality(methods) > 1
  <2>1. m \in shown /\ Account!Cardinality(shown) > 1
    BY DEF Account!CanUnlink
  <2>2. Account!Cardinality(shown) = Cardinality(shown)
    BY DEF Account!Cardinality, Cardinality
  <2> QED
    BY <2>1, <2>2
<1>2. \A x \in methods : x = m
  OBVIOUS
<1>3. methods = {m}
  BY <1>1, <1>2
<1>4. Cardinality(methods) = 1
  BY <1>3, FS_Singleton
<1> QED
  BY <1>1, <1>4

\* A change the page offers, alone and of methods it knows, leaves a way to sign in.
LEMMA OfferedLeavesOne ==
    ASSUME NEW change \in Account!Changes, Account!CardOffers(change) \/ Account!FormOffers(change),
           shown = methods, methods # {}
    PROVE  Account!Effect(change) # {}
<1>1. CASE change = "unlinkGoogle"
  BY <1>1, AnotherMethod DEF Account!CardOffers, Account!FormOffers, Account!Effect
<1>2. CASE change = "unlinkPhone"
  BY <1>2, AnotherMethod DEF Account!CardOffers, Account!FormOffers, Account!Effect
<1>3. CASE change \notin {"unlinkGoogle", "unlinkPhone"}
  BY <1>3 DEF Account!Effect, Account!Changes
<1> QED
  BY <1>1, <1>2, <1>3

LEMMA AskStep ==
    ASSUME ProfileInv, NEW i \in Account!Clicks, NEW change \in Account!Changes, Account!Ask(i, change)
    PROVE  ProfileInv'
<1> USE DEF ProfileInv, ProfileTypes
<1>1. /\ ~dialog.open /\ click[i].stage = "unused"
      /\ Account!CardOffers(change) \/ Account!FormOffers(change)
      /\ click' = [click EXCEPT ![i].change = change, ![i].stage = "sent"]
      /\ shown' \in {local, shown} /\ UNCHANGED <<methods, local, pending, dialog, verifying>>
      /\ estranged' = (estranged \/ \E j \in Account!Clicks : Account!Running(j))
  BY DEF Account!Ask, Account!Reachable, Account!account, Account!reauth
<1>2. click[i] \in ClickStates /\ click[i].done = 0 /\ ~click[i].givenUp /\ pending # i
  BY <1>1 DEF DoneOnce, Once, Account!Clicks, Account!NoClick
<1>3. /\ click' \in [Account!Clicks -> ClickStates] /\ click'[i].stage = "sent" /\ click'[i].done = 0
      /\ click'[i].givenUp = click[i].givenUp /\ click'[i].change = change
  <2>1. [click[i] EXCEPT !.change = change, !.stage = "sent"] \in ClickStates
    BY <1>2 DEF ClickStates, Account!Stages
  <2>2. click' = [click EXCEPT ![i] = [click[i] EXCEPT !.change = change, !.stage = "sent"]]
    BY <1>1, <1>2 DEF ClickStates
  <2> QED
    BY <1>2, <2>1, <2>2 DEF ClickStates
<1>4. \A j \in Account!Clicks : j # i => click'[j] = click[j]
  BY <1>1
<1>5. ProfileTypes' /\ DoneOnce'
  BY <1>1, <1>2, <1>3, <1>4 DEF DoneOnce, Once
<1>6. Known'
  <2> SUFFICES ASSUME ~estranged'
               PROVE  /\ local' = methods' /\ methods' # {}
                      /\ shown' = methods' \/ \E j \in Account!Clicks : click'[j].stage = "after"
                      /\ \A j, k \in Account!Clicks : Active(j)' /\ Active(k)' => j = k
                      /\ \A j \in Account!Clicks : Active(j)' /\ click'[j].stage # "after" =>
                                                     Account!Effect(click[j].change)' # {}
    BY DEF Known
  <2>1. ~estranged /\ \A j \in Account!Clicks : ~Account!Running(j)
    BY <1>1
  <2>2. local = methods /\ methods # {} /\ shown = methods
    BY <2>1 DEF Known, Account!Running
  <2>3. \A j \in Account!Clicks : Active(j)' => j = i
    BY <1>1, <1>4, <2>1 DEF Active, Account!Running
  <2>4. Account!Effect(change) # {}
    BY <1>1, <2>2, OfferedLeavesOne
  <2>5. Account!Effect(click[i].change)' # {}
    BY <1>1, <1>3, <2>4 DEF Account!Effect
  <2> QED
    BY <1>1, <2>2, <2>3, <2>5
<1> QED
  BY <1>5, <1>6

\* The verification that succeeds sends the change that waited, unless it was given up.
LEMMA VerifiedStep ==
    ASSUME ProfileInv, Account!Verified
    PROVE  ProfileInv'
<1> USE DEF ProfileInv, ProfileTypes
<1>1. /\ verifying > 0 /\ shown' = local /\ pending' = Account!NoClick /\ UNCHANGED <<methods, local>>
      /\ dialog' = Account!ClosedDialog
  BY DEF Account!Verified, Account!TakePending
<1>2. ~dialog'.open /\ dialog' \in [open : BOOLEAN, step : {"enter", "code"}, loading : BOOLEAN]
  BY <1>1 DEF Account!ClosedDialog
<1>3. \A j \in Account!Clicks : click[j].givenUp => click[j].done = 0 /\ click[j].stage = "over"
  BY <1>1 DEF DoneOnce, Once
<1>4. CASE pending = Account!NoClick /\ click' = click /\ estranged' = estranged
  <2>1. ProfileTypes' /\ DoneOnce'
    BY <1>1, <1>2, <1>3, <1>4 DEF DoneOnce, Once
  <2>2. \A j \in Account!Clicks : Active(j)' => Active(j)
    BY <1>2, <1>4 DEF Active, Account!Running
  <2>3. Known'
    BY <1>1, <1>4, <2>2, KnownStep
  <2> QED
    BY <2>1, <2>3
<1>5. ASSUME pending # Account!NoClick,
             \/ click' = Account!To(pending, "over") /\ estranged' = estranged
             \/ /\ click' = [click EXCEPT ![pending].stage = "sent", ![pending].again = TRUE]
                /\ estranged' = (estranged \/ ~dialog.open \/ \E j \in Account!Clicks : Account!Running(j))
      PROVE  ProfileInv'
  <2>1. /\ pending \in Account!Clicks /\ click[pending] \in ClickStates /\ click[pending].stage = "waiting"
        /\ click[pending].done = 0 /\ ~click[pending].givenUp
    BY <1>3, <1>5 DEF DoneOnce, Once
  <2>2. /\ click' \in [Account!Clicks -> ClickStates] /\ click'[pending].done = 0
        /\ ~click'[pending].givenUp /\ click'[pending].change = click[pending].change
        /\ \/ click'[pending].stage = "over" /\ estranged' = estranged
           \/ /\ click'[pending].stage = "sent"
              /\ estranged' = (estranged \/ ~dialog.open \/ \E j \in Account!Clicks : Account!Running(j))
    <3>1. /\ [click[pending] EXCEPT !.stage = "over"] \in ClickStates
          /\ [click[pending] EXCEPT !.stage = "sent", !.again = TRUE] \in ClickStates
      BY <2>1 DEF ClickStates, Account!Stages
    <3>2. \/ /\ click' = [click EXCEPT ![pending] = [click[pending] EXCEPT !.stage = "over"]]
             /\ estranged' = estranged
          \/ /\ click' = [click EXCEPT ![pending] = [click[pending] EXCEPT !.stage = "sent", !.again = TRUE]]
             /\ estranged' = (estranged \/ ~dialog.open \/ \E j \in Account!Clicks : Account!Running(j))
      BY <1>5, <2>1 DEF ClickStates, Account!To
    <3>3. \A c \in ClickStates : click' = [click EXCEPT ![pending] = c] =>
                                   click' \in [Account!Clicks -> ClickStates] /\ click'[pending] = c
      BY <2>1
    <3>4. \A c \in ClickStates :
             /\ [c EXCEPT !.stage = "over"].stage = "over"
             /\ [c EXCEPT !.stage = "over"].done = c.done
             /\ [c EXCEPT !.stage = "over"].givenUp = c.givenUp
             /\ [c EXCEPT !.stage = "over"].change = c.change
             /\ [c EXCEPT !.stage = "sent", !.again = TRUE].stage = "sent"
             /\ [c EXCEPT !.stage = "sent", !.again = TRUE].done = c.done
             /\ [c EXCEPT !.stage = "sent", !.again = TRUE].givenUp = c.givenUp
             /\ [c EXCEPT !.stage = "sent", !.again = TRUE].change = c.change
      BY DEF ClickStates
    <3>5. CASE /\ click' = [click EXCEPT ![pending] = [click[pending] EXCEPT !.stage = "over"]]
               /\ estranged' = estranged
      BY <2>1, <3>1, <3>3, <3>4, <3>5
    <3>6. CASE /\ click' = [click EXCEPT ![pending] = [click[pending] EXCEPT !.stage = "sent", !.again = TRUE]]
               /\ estranged' = (estranged \/ ~dialog.open \/ \E j \in Account!Clicks : Account!Running(j))
      BY <2>1, <3>1, <3>3, <3>4, <3>6
    <3> QED
      BY <3>2, <3>5, <3>6
  <2>3. \A j \in Account!Clicks : j # pending => click'[j] = click[j]
    BY <1>5 DEF Account!To
  <2>4. ProfileTypes' /\ DoneOnce'
    BY <1>1, <1>2, <1>3, <2>1, <2>2, <2>3 DEF DoneOnce, Once
  <2>5. ASSUME ~estranged', NEW j \in Account!Clicks, Active(j)'
        PROVE  Active(j) /\ (click[j].stage = "after" => click'[j].stage = "after")
    <3>1. CASE j = pending /\ click'[pending].stage = "over"
      BY <1>2, <2>5, <3>1 DEF Active, Account!Running
    <3>2. CASE j = pending /\ dialog.open
      BY <2>1, <3>2 DEF Active
    <3>3. CASE j # pending
      BY <1>2, <2>3, <2>5, <3>3 DEF Active, Account!Running
    <3> QED
      BY <2>2, <2>5, <3>1, <3>2, <3>3
  <2>6. ~estranged' => ~estranged
    BY <2>2
  <2>7. \A j \in Account!Clicks : click'[j].change = click[j].change
    BY <2>2, <2>3
  <2>8. Known'
    BY <1>1, <2>5, <2>6, <2>7, KnownStep
  <2> QED
    BY <2>4, <2>8
<1> QED
  BY <1>4, <1>5 DEF Account!Verified

\* Closing the dialog gives the change up, unless its verification is on its way.
LEMMA CloseDialogStep ==
    ASSUME ProfileInv, Account!CloseDialog
    PROVE  ProfileInv'
<1> USE DEF ProfileInv, ProfileTypes
<1>1. /\ dialog.open /\ dialog' = [dialog EXCEPT !.open = FALSE] /\ shown' = local
      /\ UNCHANGED <<methods, local, pending, verifying, estranged>>
  BY DEF Account!CloseDialog, Account!account
<1>2. dialog' \in [open : BOOLEAN, step : {"enter", "code"}, loading : BOOLEAN] /\ dialog'.open = FALSE
  BY <1>1
<1>3. ~dialog'.open
  BY <1>2, Zenon
<1>4. \A j \in Account!Clicks : click[j].givenUp => click[j].done = 0 /\ click[j].stage = "over"
  BY <1>1 DEF DoneOnce, Once
<1>5. CASE click' = click
  <2>1. ProfileTypes' /\ DoneOnce'
    BY <1>1, <1>2, <1>4, <1>5 DEF DoneOnce, Once
  <2>2. \A j \in Account!Clicks : Active(j)' => Active(j)
    BY <1>3, <1>5 DEF Active, Account!Running
  <2>3. Known'
    BY <1>1, <1>5, <2>2, KnownStep
  <2> QED
    BY <2>1, <2>3
<1>6. ASSUME pending # Account!NoClick, verifying = 0, click' = [click EXCEPT ![pending].givenUp = TRUE]
      PROVE  ProfileInv'
  <2>1. pending \in Account!Clicks /\ click[pending] \in ClickStates /\ click[pending].stage = "waiting"
    BY <1>6
  <2>2. click[pending].done = 0
    BY <2>1 DEF DoneOnce, Once
  <2>3. /\ click' \in [Account!Clicks -> ClickStates] /\ click'[pending].done = 0
        /\ click'[pending].stage = "waiting" /\ click'[pending].change = click[pending].change
    <3>1. [click[pending] EXCEPT !.givenUp = TRUE] \in ClickStates
      BY <2>1 DEF ClickStates
    <3>2. click' = [click EXCEPT ![pending] = [click[pending] EXCEPT !.givenUp = TRUE]]
      BY <1>6
    <3> QED
      BY <2>1, <2>2, <3>1, <3>2 DEF ClickStates
  <2>4. \A j \in Account!Clicks : j # pending => click'[j] = click[j]
    BY <1>6
  <2>5. ProfileTypes'
    BY <1>1, <1>2, <2>3
  <2>6. DoneOnce'
    BY <1>1, <1>3, <1>4, <1>6, <2>3, <2>4 DEF DoneOnce, Once
  <2>7. \A j \in Account!Clicks : Active(j)' =>
           /\ Active(j) /\ click'[j].change = click[j].change
           /\ click[j].stage = "after" => click'[j].stage = "after"
    BY <1>3, <2>3, <2>4 DEF Active, Account!Running
  <2>8. Known'
    <3>1. /\ ~estranged' => ~estranged /\ methods' = methods /\ local' \in {local, methods}
          /\ shown' \in {local, methods}
      BY <1>1
    <3> QED
      BY <2>7, <3>1, KnownStep
  <2> QED
    BY <2>5, <2>6, <2>8
<1> QED
  BY <1>5, <1>6 DEF Account!CloseDialog

\* The rest changes no request, and neither opens nor closes the dialog.
LEMMA QuietStep ==
    ASSUME ProfileInv,
           \/ Account!ChangeNumber \/ Account!Verify \/ Account!SendReauthCode \/ Account!VerificationFailed
           \/ Account!SignOut \/ Account!DeleteAccount \/ Account!Ages \/ Account!OtherTab
    PROVE  ProfileInv'
<1> USE DEF ProfileInv, ProfileTypes
<1>1. UNCHANGED <<click, pending>>
  BY DEF Account!ChangeNumber, Account!Verify, Account!SendReauthCode, Account!VerificationFailed,
    Account!SignOut, Account!DeleteAccount, Account!Ages, Account!OtherTab, Account!account, Account!reauth
<1>2. \/ estranged'
      \/ UNCHANGED <<methods, local, estranged>> /\ shown' \in {local, shown}
  BY DEF Account!ChangeNumber, Account!Verify, Account!SendReauthCode, Account!VerificationFailed,
    Account!SignOut, Account!DeleteAccount, Account!Ages, Account!OtherTab, Account!account, Account!reauth
<1>3. \/ dialog' = dialog
      \/ dialog' = [dialog EXCEPT !.loading = TRUE] \/ dialog' = [dialog EXCEPT !.loading = FALSE]
      \/ dialog' = [dialog EXCEPT !.step = "code"]
  BY DEF Account!ChangeNumber, Account!Verify, Account!SendReauthCode, Account!VerificationFailed,
    Account!SignOut, Account!DeleteAccount, Account!Ages, Account!OtherTab, Account!account, Account!reauth
<1>4. dialog' \in [open : BOOLEAN, step : {"enter", "code"}, loading : BOOLEAN] /\ dialog'.open = dialog.open
  BY <1>3
<1>5. verifying' = verifying \/ dialog.open \/ verifying > 0
  BY DEF Account!ChangeNumber, Account!Verify, Account!SendReauthCode, Account!VerificationFailed,
    Account!SignOut, Account!DeleteAccount, Account!Ages, Account!OtherTab, Account!account, Account!reauth
<1>6. ProfileTypes'
  BY <1>1, <1>4
<1>7. DoneOnce'
  BY <1>1, <1>4, <1>5 DEF DoneOnce, Once
<1>8. \A j \in Account!Clicks : Active(j)' => Active(j)
  BY <1>1, <1>4 DEF Active, Account!Running
<1>9. Known'
  BY <1>1, <1>2, <1>8, KnownStep
<1> QED
  BY <1>6, <1>7, <1>9

LEMMA ProfileStepKeeps ==
    ASSUME ProfileInv, Account!ProfileNext \/ UNCHANGED accountVars
    PROVE  ProfileInv'
<1>1. CASE UNCHANGED accountVars
  BY <1>1 DEF accountVars, ProfileInv, ProfileTypes, DoneOnce, Once, Known, Active, Account!Running,
    Account!Effect
<1>2. CASE Account!ProfileNext
  BY <1>2, PerformedStep, AnswerStep, TooOldStep, AskStep, VerifiedStep, CloseDialogStep, QuietStep
    DEF Account!ProfileNext, Account!Answers
<1> QED
  BY <1>1, <1>2

LEMMA ProfileStart ==
    ASSUME Account!ProfileInit
    PROVE  ProfileInv
<1>1. /\ methods # {} /\ local = methods /\ shown = methods /\ pending = Account!NoClick
      /\ dialog = Account!ClosedDialog
      /\ \E b \in Cares : click = [i \in Account!Clicks |->
            [change |-> "email", again |-> FALSE, done |-> 0, givenUp |-> FALSE,
             stage |-> IF i <= b.clicks THEN "unused" ELSE "over"]]
  BY DEF Account!ProfileInit
<1>2. ~dialog.open /\ dialog \in [open : BOOLEAN, step : {"enter", "code"}, loading : BOOLEAN]
  BY <1>1 DEF Account!ClosedDialog
<1>3. \A st \in {"unused", "over"} :
         [change |-> "email", again |-> FALSE, done |-> 0, givenUp |-> FALSE, stage |-> st] \in ClickStates
  BY DEF ClickStates, Account!Changes, Account!Stages
<1>4. /\ click \in [Account!Clicks -> ClickStates]
      /\ \A i \in Account!Clicks : /\ click[i].done = 0 /\ ~click[i].givenUp
                                   /\ click[i].stage \in {"unused", "over"}
  <2>1. PICK b \in Cares : click = [i \in Account!Clicks |->
            [change |-> "email", again |-> FALSE, done |-> 0, givenUp |-> FALSE,
             stage |-> IF i <= b.clicks THEN "unused" ELSE "over"]]
    BY <1>1
  <2>2. ASSUME NEW i \in Account!Clicks
        PROVE  \E st \in {"unused", "over"} :
                  click[i] = [change |-> "email", again |-> FALSE, done |-> 0, givenUp |-> FALSE, stage |-> st]
    BY <2>1
  <2> QED
    BY <1>3, <2>1, <2>2
<1>5. DoneOnce
  BY <1>4 DEF DoneOnce, Once
<1>6. Known
  BY <1>1, <1>2, <1>4 DEF Known, Active, Account!Running
<1> QED
  BY <1>1, <1>2, <1>4, <1>5, <1>6 DEF ProfileInv, ProfileTypes

THEOREM ProfileInductive == PagesSpec => [](route = "profile" => ProfileInv)
<1>1. PagesInit => (route = "profile" => ProfileInv)
  BY ProfileStart DEF PagesInit
<1>2. ASSUME route = "profile" => ProfileInv, [PagesNext]_pagesVars
      PROVE  (route = "profile" => ProfileInv)'
  BY <1>2, ProfileStepKeeps, OnePage
<1> QED
  BY <1>1, <1>2, PTL DEF PagesSpec

\* ProfilePage: what the user asked for is done once at most, and never after he gave it up; and
\* the page leaves the account a way to sign in unless it did not know the account.
THEOREM AccountIsKept == PagesSpec => []AccountKept
<1>1. (route = "profile" => ProfileInv) => AccountKept
  <2>1. ProfileInv => Account!DoneAsAsked
    BY DEF ProfileInv, ProfileTypes, ClickStates, DoneOnce, Once, Account!DoneAsAsked
  <2>2. ProfileInv => Account!MethodKept
    BY DEF ProfileInv, Known, Account!MethodKept
  <2> QED
    BY <2>1, <2>2 DEF AccountKept
<1> QED
  BY <1>1, ProfileInductive, PTL

--------------------------------------------------------------------------------
(* The versions of a run. *)

Copies == [made : SUBSET Versions, active : Versions,
           at : [Versions -> Output!MaybePlace], artifact : [Versions -> Output!MaybeVersion]]
CallsOf == [kind : {"select", "label", "move", "reset", "refine", "artifact", "poll"},
            v : Output!MaybeVersion, at : Output!MaybePlace, saved : Output!MaybePlace,
            st : {"asked", "answered", "failed"}, run : Copies \cup {NoVersion}]

Of(t, kind) == tasks[t] # Output!NoTask /\ tasks[t].kind = kind
Answered(t) == tasks[t] # Output!NoTask /\ tasks[t].st = "answered"

\* What the page and the calls hold of the run is of the versions the run has.
OutputTypes ==
    /\ history \in Copies /\ copy \in Copies
    /\ placed \in [Versions -> Output!MaybePlace]
    /\ drag = Output!NoDrag \/ drag \in [v : Versions, at : Output!MaybePlace, saved : Output!MaybePlace]
    /\ tasks \in [Tasks -> CallsOf \cup {Output!NoTask}]
    /\ \A t \in Tasks :
         /\ Of(t, "select") => tasks[t].v \in Versions
         /\ Of(t, "move") => tasks[t].v \in history.made /\ tasks[t].at \in Places
         /\ Answered(t) => tasks[t].run \in Copies /\ tasks[t].run.made \subseteq history.made
    /\ copy.made \subseteq history.made
    /\ drag # Output!NoDrag => drag.v \in history.made
    /\ \A v \in Versions \ history.made :
         /\ history.at[v] = NoVersion /\ copy.at[v] = NoVersion
         /\ \A t \in Tasks : Answered(t) => tasks[t].run.at[v] = NoVersion

\* An artifact is of the version it is kept with, wherever the run has been copied to.
OwnArtifacts ==
    /\ \A v \in Versions : history.artifact[v] \in {NoVersion, v}
    /\ \A t \in Tasks : Answered(t) => \A v \in Versions : tasks[t].run.artifact[v] \in {NoVersion, v}

\* A call that changes the version shown is alone, and but for its answer the page and the
\* answers under way show the version the service has.
SameOutput ==
    "output" \notin crossed =>
        /\ \A v \in Versions : copy.artifact[v] \in {NoVersion, v}
        /\ \A t, u \in Tasks : Of(t, "select") \/ Of(t, "refine") => u = t \/ tasks[u] = Output!NoTask
        /\ \A t \in Tasks : Answered(t) => tasks[t].run.active = history.active
        /\ (\A t \in Tasks : Answered(t) => ~Of(t, "select") /\ ~Of(t, "refine"))
             => copy.active = history.active

\* No call and no drag is about to change where the version lies.
Steady(v) ==
    /\ drag.v # v \/ drag.at = NoVersion
    /\ \A t \in Tasks : ~Of(t, "reset") /\ (Of(t, "move") => tasks[t].v # v)

\* A version lies where the service has it, or the page and the answers do as well; a place that
\* the service has taken back nobody knows of.
Lies ==
    /\ \A v \in Versions : Steady(v) =>
         \/ placed[v] # NoVersion /\ placed[v] = history.at[v]
         \/ /\ placed[v] = NoVersion /\ copy.at[v] = history.at[v]
            /\ \A t \in Tasks : Answered(t) => tasks[t].run.at[v] = history.at[v]
    /\ \A v \in Versions : history.at[v] = NoVersion =>
         /\ \A t \in Tasks : Answered(t) => tasks[t].run.at[v] = NoVersion
         /\ (\A t \in Tasks : ~Of(t, "reset")) => copy.at[v] = NoVersion

\* A version that is dragged or moved was where the page had it saved; a reset is alone.
Moving ==
    /\ drag # Output!NoDrag =>
         /\ \A t \in Tasks : ~Of(t, "move") /\ ~Of(t, "reset")
         /\ drag.saved = history.at[drag.v]
         /\ drag.at # NoVersion => placed[drag.v] = drag.at
    /\ \A t \in Tasks : Of(t, "move") =>
         /\ \A u \in Tasks : Of(u, "move") => u = t
         /\ placed[tasks[t].v] = tasks[t].at
         /\ history.at[tasks[t].v] = IF Answered(t) THEN tasks[t].at ELSE tasks[t].saved
    /\ \A t \in Tasks : Of(t, "reset") =>
         /\ \A u \in Tasks : u = t \/ tasks[u] = Output!NoTask
         /\ placed = Output!NoPlaces
         /\ IF Answered(t) THEN tasks[t].run.at = Output!NoPlaces /\ history.at = Output!NoPlaces
            ELSE copy.at = history.at

OutputInv ==
    /\ OutputTypes /\ OwnArtifacts /\ SameOutput /\ Output!EditOfShown
    /\ "map" \notin crossed => Lies /\ Moving

\* What only changes the view.
LEMMA OutputLook ==
    ASSUME OutputInv, UNCHANGED <<history, copy, placed, drag, tasks, crossed>>, Output!EditOfShown'
    PROVE  OutputInv'
<1>1. (OutputTypes /\ OwnArtifacts)'
  BY DEF OutputInv, OutputTypes, OwnArtifacts, Of, Answered
<1>2. SameOutput'
  BY DEF OutputInv, SameOutput, Of, Answered
<1>3. "map" \notin crossed' => Lies'
  BY DEF OutputInv, Lies, Steady, Of, Answered
<1>4. "map" \notin crossed' => Moving'
  BY DEF OutputInv, Moving, Of, Answered
<1> QED
  BY <1>1, <1>2, <1>3, <1>4 DEF OutputInv

\* A call that begins: which others are not under way, unless they may cross it.
LEMMA CallBegins ==
    ASSUME OutputInv, NEW t \in Tasks, NEW kind \in {"select", "label", "move", "reset", "refine", "artifact", "poll"},
           NEW v \in Output!MaybeVersion, NEW at \in Output!MaybePlace, NEW from \in Output!MaybePlace,
           Output!Start(t, kind, v, at, from)
    PROVE  /\ tasks[t] = Output!NoTask /\ tasks' \in [Tasks -> CallsOf \cup {Output!NoTask}]
           /\ \A u \in Tasks \ {t} : tasks'[u] = tasks[u]
           /\ tasks'[t] # Output!NoTask /\ tasks'[t].kind = kind /\ tasks'[t].v = v /\ tasks'[t].at = at
           /\ tasks'[t].saved = from /\ tasks'[t].st = "asked"
           /\ crossed \subseteq crossed'
           /\ "map" \notin crossed' =>
                /\ \A u \in Tasks : ~Of(u, "reset") /\ ~(kind = "move" /\ Of(u, "move"))
                /\ kind = "reset" => \A u \in Tasks : tasks[u] = Output!NoTask
                /\ kind = "reset" => \A w \in history.made : copy.at[w] = history.at[w]
           /\ "output" \notin crossed' =>
                /\ \A u \in Tasks : ~Of(u, "select") /\ ~Of(u, "refine")
                /\ kind \in {"select", "refine"} => \A u \in Tasks : tasks[u] = Output!NoTask
<1> DEFINE new == [kind |-> kind, v |-> v, at |-> at, saved |-> from, st |-> "asked", run |-> NoVersion]
<1>1. /\ tasks[t] = Output!NoTask /\ tasks' = [tasks EXCEPT ![t] = new]
      /\ crossed' = crossed \cup Output!Clashes(kind)
                    \cup (IF kind = "reset" THEN UNION {Output!Behind(w) : w \in history.made} ELSE {})
  BY DEF Output!Start
<1>2. new \in CallsOf /\ new # Output!NoTask
  <2>1. new \in CallsOf
    BY DEF CallsOf
  <2>2. new.kind # "none" /\ Output!NoTask.kind = "none"
    BY DEF Output!NoTask
  <2> QED
    BY <2>1, <2>2
<1>3. /\ new.kind = kind /\ new.v = v /\ new.at = at /\ new.saved = from /\ new.st = "asked"
  OBVIOUS
<1>4. tasks \in [Tasks -> CallsOf \cup {Output!NoTask}]
  BY DEF OutputInv, OutputTypes
<1> HIDE DEF new
<1>5. \A u \in Tasks : tasks[u] # Output!NoTask => Output!Clash(kind, tasks[u].kind) \subseteq crossed'
  BY <1>1 DEF Output!Clashes, Output!UnderWay
<1>6. \A l : /\ "map" \notin Output!Clash(kind, l) => kind # "reset" /\ l # "reset" /\ ~(kind = "move" /\ l = "move")
             /\ "output" \notin Output!Clash(kind, l) => kind \notin {"select", "refine"} /\ l \notin {"select", "refine"}
  BY DEF Output!Clash, Output!Layouts, Output!Outputs
<1>7. "map" \notin crossed' =>
        /\ \A u \in Tasks : ~Of(u, "reset") /\ ~(kind = "move" /\ Of(u, "move"))
        /\ kind = "reset" => \A u \in Tasks : tasks[u] = Output!NoTask
  BY <1>5, <1>6 DEF Of
<1>8. "output" \notin crossed' =>
        /\ \A u \in Tasks : ~Of(u, "select") /\ ~Of(u, "refine")
        /\ kind \in {"select", "refine"} => \A u \in Tasks : tasks[u] = Output!NoTask
  BY <1>5, <1>6 DEF Of
<1>9. ASSUME "map" \notin crossed', kind = "reset", NEW w \in history.made
      PROVE  copy.at[w] = history.at[w]
  <2>1. Output!Behind(w) \subseteq crossed'
    BY <1>1, <1>9
  <2> QED
    BY <1>9, <2>1 DEF Output!Behind
<1> QED
  BY <1>1, <1>2, <1>3, <1>4, <1>7, <1>8, <1>9

\* A call begins that is not about the map; what was dragged, if anything, has not been moved.
LEMMA PlainCallStep ==
    ASSUME OutputInv, NEW t \in Tasks, NEW kind \in {"select", "label", "refine", "artifact", "poll"},
           NEW v \in Output!MaybeVersion, kind = "select" => v \in Versions,
           Output!Start(t, kind, v, NoVersion, NoVersion), UNCHANGED <<history, copy, passage, edited, placed>>,
           drag' = drag \/ (drag' = Output!NoDrag /\ drag.at = NoVersion)
    PROVE  OutputInv'
<1> NoVersion \in Output!MaybePlace
  BY DEF Output!MaybePlace
<1>1. /\ tasks[t] = Output!NoTask /\ tasks' \in [Tasks -> CallsOf \cup {Output!NoTask}]
      /\ \A u \in Tasks \ {t} : tasks'[u] = tasks[u]
      /\ tasks'[t] # Output!NoTask /\ tasks'[t].kind = kind /\ tasks'[t].v = v /\ tasks'[t].st = "asked"
      /\ crossed \subseteq crossed'
  BY CallBegins
<1>2. "map" \notin crossed' => \A u \in Tasks : ~Of(u, "reset")
  BY CallBegins
<1>3. "output" \notin crossed' =>
        /\ \A u \in Tasks : ~Of(u, "select") /\ ~Of(u, "refine")
        /\ kind \in {"select", "refine"} => \A u \in Tasks : tasks[u] = Output!NoTask
  BY CallBegins
<1>4. /\ \A u \in Tasks : Answered(u)' <=> Answered(u)
      /\ \A u \in Tasks : Answered(u) => tasks'[u] = tasks[u]
      /\ \A u \in Tasks : \A k : Of(u, k)' <=> ((u = t /\ k = kind) \/ Of(u, k))
  BY <1>1 DEF Answered, Of
<1>5. OutputTypes'
  BY <1>1, <1>4 DEF OutputInv, OutputTypes, Of, Output!NoDrag
<1>6. OwnArtifacts'
  BY <1>4 DEF OutputInv, OwnArtifacts
<1>7. SameOutput'
  BY <1>1, <1>3, <1>4 DEF OutputInv, SameOutput, Of
<1>8. ASSUME "map" \notin crossed'
      PROVE  Lies' /\ Moving'
  <2>1. Lies /\ Moving
    BY <1>1, <1>8 DEF OutputInv
  <2>2. \A w \in Versions : Steady(w)' => Steady(w)
    BY <1>1, <1>4 DEF Steady, Of, Output!NoDrag
  <2>3. Lies'
    BY <1>4, <2>1, <2>2 DEF Lies
  <2>4. \A u \in Tasks : Of(u, "move")' => Of(u, "move") /\ tasks'[u] = tasks[u]
    BY <1>1, <1>4 DEF Of
  <2>5. Moving'
    BY <1>2, <1>4, <1>8, <2>1, <2>4 DEF Moving
  <2> QED
    BY <2>3, <2>5
<1> QED
  BY <1>5, <1>6, <1>7, <1>8 DEF OutputInv, Output!EditOfShown

\* Only the map changes: what the calls hold stays as it is.
LEMMA MapOnly ==
    ASSUME OutputInv, UNCHANGED <<history, copy, passage, edited, tasks>>, crossed \subseteq crossed',
           placed' \in [Versions -> Output!MaybePlace],
           \/ drag' = Output!NoDrag
           \/ /\ drag' \in [v : Versions, at : Output!MaybePlace, saved : Output!MaybePlace]
              /\ drag'.v \in history.made,
           "map" \notin crossed' => Lies' /\ Moving'
    PROVE  OutputInv'
<1>1. (OutputTypes /\ OwnArtifacts)'
  BY DEF OutputInv, OutputTypes, OwnArtifacts, Of, Answered
<1>2. SameOutput'
  BY DEF OutputInv, SameOutput, Of, Answered
<1> QED
  BY <1>1, <1>2 DEF OutputInv, Output!EditOfShown

\* A node is taken, dragged on and let go without a move.
LEMMA DragStep ==
    ASSUME OutputInv,
           \/ \E v \in Versions : Output!StartNodeDrag(v)
           \/ \E p \in Places : Output!MoveNodeDrag(p)
           \/ Output!CancelNodeDrag
    PROVE  OutputInv'
<1> USE DEF Output!Pane
<1>0. NoVersion \in Output!MaybePlace /\ \A p \in Places : p # NoVersion /\ p \in Output!MaybePlace
  BY PagesAssumption DEF Output!MaybePlace
<1>1. ASSUME NEW v \in Versions, Output!StartNodeDrag(v)
      PROVE  OutputInv'
  <2>1. /\ drag = Output!NoDrag /\ v \in copy.made
        /\ drag' = [v |-> v, at |-> NoVersion, saved |-> copy.at[v]]
        /\ crossed' = crossed \cup (Output!Clashes("move") \cap {"map"}) \cup Output!Behind(v)
        /\ UNCHANGED <<history, copy, passage, edited, placed, tasks>>
    BY <1>1 DEF Output!StartNodeDrag, Output!NodeOffered, Output!VersionOffered
  <2>2. v \in history.made /\ copy.at[v] \in Output!MaybePlace
    BY <2>1 DEF OutputInv, OutputTypes, Copies
  <2>3. drag' \in [v : Versions, at : Output!MaybePlace, saved : Output!MaybePlace] /\ drag'.v = v
        /\ drag'.at = NoVersion /\ drag'.saved = copy.at[v]
    BY <1>0, <2>1, <2>2
  <2>4. ASSUME "map" \notin crossed'
        PROVE  Lies' /\ Moving'
    <3>1. Lies /\ Moving
      BY <2>1, <2>4 DEF OutputInv
    <3>2. copy.at[v] = history.at[v]
      BY <2>1, <2>4 DEF Output!Behind
    <3>3. ASSUME NEW u \in Tasks, Of(u, "move") \/ Of(u, "reset")
          PROVE  FALSE
      <4>1. Output!Clash("move", tasks[u].kind) \cap {"map"} \subseteq crossed'
        BY <2>1, <3>3 DEF Output!Clashes, Output!UnderWay, Of
      <4>2. "map" \in Output!Clash("move", tasks[u].kind)
        BY <3>3 DEF Output!Clash, Output!Layouts, Of
      <4> QED
        BY <2>4, <4>1, <4>2
    <3>4. Lies'
      <4>1. \A w \in Versions : Steady(w)' => Steady(w)
        BY <2>1 DEF Steady, Of, Output!NoDrag
      <4> QED
        BY <2>1, <3>1, <4>1 DEF Lies, Of, Answered
    <3>5. Moving'
      BY <2>1, <2>3, <3>2, <3>3 DEF Moving, Of
    <3> QED
      BY <3>4, <3>5
  <2> QED
    BY <2>1, <2>2, <2>3, <2>4, MapOnly DEF OutputInv, OutputTypes
<1>2. ASSUME NEW p \in Places, Output!MoveNodeDrag(p)
      PROVE  OutputInv'
  <2>1. /\ drag # Output!NoDrag /\ drag' = [drag EXCEPT !.at = p] /\ placed' = [placed EXCEPT ![drag.v] = p]
        /\ UNCHANGED <<history, copy, passage, edited, tasks, crossed>>
    BY <1>2 DEF Output!MoveNodeDrag
  <2>2. /\ drag \in [v : Versions, at : Output!MaybePlace, saved : Output!MaybePlace] /\ drag.v \in history.made
        /\ placed \in [Versions -> Output!MaybePlace]
    BY <2>1 DEF OutputInv, OutputTypes
  <2>3. /\ drag' \in [v : Versions, at : Output!MaybePlace, saved : Output!MaybePlace] /\ drag'.v = drag.v
        /\ drag'.at = p /\ drag'.saved = drag.saved
    BY <1>0, <2>1, <2>2
  <2>4. placed' \in [Versions -> Output!MaybePlace] /\ placed'[drag.v] = p
        /\ \A w \in Versions \ {drag.v} : placed'[w] = placed[w]
    BY <1>0, <2>1, <2>2
  <2>5. ASSUME "map" \notin crossed'
        PROVE  Lies' /\ Moving'
    <3>1. Lies /\ Moving
      BY <2>1, <2>5 DEF OutputInv
    <3>2. \A w \in Versions : Steady(w)' => Steady(w) /\ w # drag.v
      BY <1>0, <2>1, <2>3 DEF Steady, Of
    <3>3. Lies'
      BY <2>1, <2>4, <3>1, <3>2 DEF Lies, Of, Answered
    <3>4. Moving'
      BY <2>1, <2>3, <2>4, <3>1 DEF Moving, Of
    <3> QED
      BY <3>3, <3>4
  <2> QED
    BY <2>1, <2>2, <2>3, <2>4, <2>5, MapOnly
<1>3. CASE Output!CancelNodeDrag
  <2>1. /\ drag # Output!NoDrag /\ drag' = Output!NoDrag /\ placed' = [placed EXCEPT ![drag.v] = drag.saved]
        /\ UNCHANGED <<history, copy, passage, edited, tasks, crossed>>
    BY <1>3 DEF Output!CancelNodeDrag, Output!PutBack
  <2>2. /\ drag.v \in Versions /\ drag.saved \in Output!MaybePlace /\ placed \in [Versions -> Output!MaybePlace]
    BY <2>1 DEF OutputInv, OutputTypes
  <2>3. placed' \in [Versions -> Output!MaybePlace] /\ placed'[drag.v] = drag.saved
        /\ \A w \in Versions \ {drag.v} : placed'[w] = placed[w]
    BY <2>1, <2>2
  <2>4. ASSUME "map" \notin crossed'
        PROVE  Lies' /\ Moving'
    <3>1. Lies /\ Moving
      BY <2>1, <2>4 DEF OutputInv
    <3>2. drag.saved = history.at[drag.v] /\ \A t \in Tasks : ~Of(t, "move") /\ ~Of(t, "reset")
      BY <2>1, <3>1 DEF Moving
    <3>3. \A w \in Versions : w = drag.v \/ Steady(w)
      BY <3>2 DEF Steady
    <3>4. Lies'
      BY <2>1, <2>2, <2>3, <3>1, <3>2, <3>3 DEF Lies, Of, Answered
    <3>5. Moving'
      BY <2>1, <3>2 DEF Moving, Of
    <3> QED
      BY <3>4, <3>5
  <2> QED
    BY <2>1, <2>3, <2>4, MapOnly
<1> QED
  BY <1>1, <1>2, <1>3

\* A node is let go where it was dragged to: the move is sent.
LEMMA MoveCallStep ==
    ASSUME OutputInv, NEW t \in Tasks, drag # Output!NoDrag, drag.at # NoVersion, drag' = Output!NoDrag,
           Output!Start(t, "move", drag.v, drag.at, drag.saved), UNCHANGED <<history, copy, passage, edited, placed>>
    PROVE  OutputInv'
<1>0. /\ drag.v \in Versions /\ drag.v \in history.made /\ drag.at \in Places
      /\ drag.v \in Output!MaybeVersion /\ drag.at \in Output!MaybePlace /\ drag.saved \in Output!MaybePlace
  BY DEF OutputInv, OutputTypes, Output!MaybePlace, Output!MaybeVersion
<1>1. /\ tasks[t] = Output!NoTask /\ tasks' \in [Tasks -> CallsOf \cup {Output!NoTask}]
      /\ \A u \in Tasks \ {t} : tasks'[u] = tasks[u]
      /\ tasks'[t] # Output!NoTask /\ tasks'[t].kind = "move" /\ tasks'[t].v = drag.v
      /\ tasks'[t].at = drag.at /\ tasks'[t].saved = drag.saved /\ tasks'[t].st = "asked"
      /\ crossed \subseteq crossed'
  BY <1>0, CallBegins
<1>2. "map" \notin crossed' => \A u \in Tasks : ~Of(u, "reset") /\ ~Of(u, "move")
  BY <1>0, CallBegins
<1>3. "output" \notin crossed' => \A u \in Tasks : ~Of(u, "select") /\ ~Of(u, "refine")
  BY <1>0, CallBegins
<1>4. /\ \A u \in Tasks : Answered(u)' <=> Answered(u)
      /\ \A u \in Tasks : Answered(u) => tasks'[u] = tasks[u]
      /\ \A u \in Tasks : \A k : Of(u, k)' <=> ((u = t /\ k = "move") \/ Of(u, k))
  BY <1>1 DEF Answered, Of
<1>5. OutputTypes'
  BY <1>0, <1>1, <1>4 DEF OutputInv, OutputTypes, Of
<1>6. OwnArtifacts'
  BY <1>4 DEF OutputInv, OwnArtifacts
<1>7. SameOutput'
  BY <1>1, <1>3, <1>4 DEF OutputInv, SameOutput, Of
<1>8. ASSUME "map" \notin crossed'
      PROVE  Lies' /\ Moving'
  <2>1. Lies /\ Moving
    BY <1>1, <1>8 DEF OutputInv
  <2>2. \A w \in Versions : Steady(w)' => Steady(w)
    BY <1>1, <1>4 DEF Steady, Of
  <2>3. Lies'
    BY <1>4, <2>1, <2>2 DEF Lies
  <2>4. Moving'
    BY <1>1, <1>2, <1>4, <1>8, <2>1 DEF Moving
  <2> QED
    BY <2>3, <2>4
<1> QED
  BY <1>5, <1>6, <1>7, <1>8 DEF OutputInv, Output!EditOfShown

\* The layout is reset: nothing else is under way, and the page has the places of the service.
LEMMA ResetCallStep ==
    ASSUME OutputInv, NEW t \in Tasks, Output!ResetLayout(t)
    PROVE  OutputInv'
<1>0. /\ Output!Start(t, "reset", NoVersion, NoVersion, NoVersion) /\ placed' = Output!NoPlaces
      /\ drag = Output!NoDrag /\ UNCHANGED <<history, copy, passage, edited, drag>>
      /\ NoVersion \in Output!MaybePlace /\ NoVersion \in Output!MaybeVersion
  BY DEF Output!ResetLayout, Output!Pane, Output!MaybePlace, Output!MaybeVersion
<1>1. /\ tasks[t] = Output!NoTask /\ tasks' \in [Tasks -> CallsOf \cup {Output!NoTask}]
      /\ \A u \in Tasks \ {t} : tasks'[u] = tasks[u]
      /\ tasks'[t] # Output!NoTask /\ tasks'[t].kind = "reset" /\ tasks'[t].st = "asked"
      /\ crossed \subseteq crossed'
  BY <1>0, CallBegins
<1>2. "map" \notin crossed' =>
        /\ \A u \in Tasks : tasks[u] = Output!NoTask
        /\ \A w \in history.made : copy.at[w] = history.at[w]
  BY <1>0, CallBegins
<1>3. "output" \notin crossed' => \A u \in Tasks : ~Of(u, "select") /\ ~Of(u, "refine")
  BY <1>0, CallBegins
<1>4. /\ \A u \in Tasks : Answered(u)' <=> Answered(u)
      /\ \A u \in Tasks : Answered(u) => tasks'[u] = tasks[u]
      /\ \A u \in Tasks : \A k : Of(u, k)' <=> ((u = t /\ k = "reset") \/ Of(u, k))
  BY <1>1 DEF Answered, Of
<1>5. OutputTypes'
  BY <1>0, <1>1, <1>4 DEF OutputInv, OutputTypes, Of, Output!NoPlaces
<1>6. OwnArtifacts'
  BY <1>0, <1>4 DEF OutputInv, OwnArtifacts
<1>7. SameOutput'
  BY <1>0, <1>1, <1>3, <1>4 DEF OutputInv, SameOutput, Of
<1>8. ASSUME "map" \notin crossed'
      PROVE  Lies' /\ Moving'
  <2>1. Lies
    BY <1>1, <1>8 DEF OutputInv
  <2>2. Lies'
    BY <1>0, <1>2, <1>4, <1>8, <2>1 DEF Lies, Steady, Answered
  <2>3. copy.at = history.at
    <3>1. \A w \in Versions : copy.at[w] = history.at[w]
      BY <1>2, <1>8 DEF OutputInv, OutputTypes
    <3> QED
      BY <3>1 DEF OutputInv, OutputTypes, Copies
  <2>4. \A u \in Tasks : u # t => tasks'[u] = Output!NoTask
    BY <1>1, <1>2, <1>8
  <2>5. Moving'
    BY <1>0, <1>1, <1>4, <2>3, <2>4 DEF Moving, Of, Answered
  <2> QED
    BY <2>2, <2>5
<1> QED
  BY <1>0, <1>5, <1>6, <1>7, <1>8 DEF OutputInv, Output!EditOfShown

\* What the service answers a call with: a run of the versions it has, with their own artifacts;
\* only selection and refinement change the version shown, only a move and a reset the places.
LEMMA ServedRun ==
    ASSUME OutputTypes, OwnArtifacts, NEW t \in Tasks, Output!Serve(t)
    PROVE  /\ history' \in Copies /\ history.made \subseteq history'.made
           /\ \A v \in Versions : history'.artifact[v] \in {NoVersion, v}
           /\ ~Of(t, "select") /\ ~Of(t, "refine") => history'.active = history.active
           /\ Of(t, "move") => /\ history'.at[tasks[t].v] = tasks[t].at
                               /\ \A v \in Versions \ {tasks[t].v} : history'.at[v] = history.at[v]
           /\ Of(t, "reset") => history'.at = Output!NoPlaces
           /\ ~Of(t, "move") /\ ~Of(t, "reset") => history'.at = history.at
<1>1. history' \in Output!Served(tasks[t]) /\ tasks[t] # Output!NoTask
  BY DEF Output!Serve
<1>2. /\ history \in [made : SUBSET Versions, active : Versions,
                      at : [Versions -> Output!MaybePlace], artifact : [Versions -> Output!MaybeVersion]]
      /\ \A v \in Versions : history.artifact[v] \in {NoVersion, v} /\ v \in Output!MaybeVersion
  BY DEF OutputTypes, OwnArtifacts, Copies, Output!MaybeVersion
<1>3. CASE Of(t, "select")
  <2>1. history' = [history EXCEPT !.active = tasks[t].v] /\ tasks[t].v \in Versions
    BY <1>1, <1>3 DEF Output!Served, Of, OutputTypes
  <2> QED
    BY <1>2, <1>3, <2>1 DEF Copies, Of
<1>4. CASE Of(t, "move")
  <2>1. /\ history' = [history EXCEPT !.at[tasks[t].v] = tasks[t].at]
        /\ tasks[t].v \in Versions /\ tasks[t].at \in Output!MaybePlace
    BY <1>1, <1>2, <1>4 DEF Output!Served, Of, OutputTypes, Output!MaybePlace
  <2>2. [history.at EXCEPT ![tasks[t].v] = tasks[t].at] \in [Versions -> Output!MaybePlace]
    BY <1>2, <2>1
  <2>3. /\ history'.at = [history.at EXCEPT ![tasks[t].v] = tasks[t].at]
        /\ history'.made = history.made /\ history'.active = history.active
        /\ history'.artifact = history.artifact /\ history' \in Copies
    BY <1>2, <2>1, <2>2 DEF Copies
  <2> QED
    BY <1>2, <1>4, <2>1, <2>3 DEF Of
<1>5. CASE Of(t, "reset")
  <2>1. history' = [history EXCEPT !.at = Output!NoPlaces]
    BY <1>1, <1>5 DEF Output!Served, Of
  <2>2. Output!NoPlaces \in [Versions -> Output!MaybePlace]
    BY DEF Output!NoPlaces, Output!MaybePlace
  <2> QED
    BY <1>2, <1>5, <2>1, <2>2 DEF Copies, Of
<1>6. CASE Of(t, "refine")
  <2>1. PICK w \in Versions : history' = [history EXCEPT !.made = @ \cup {w}, !.active = w]
    BY <1>1, <1>6 DEF Output!Served, Of
  <2> QED
    BY <1>2, <1>6, <2>1 DEF Copies, Of
<1>7. CASE Of(t, "artifact")
  <2>1. history' = [history EXCEPT !.artifact[history.active] = history.active]
    BY <1>1, <1>7 DEF Output!Served, Of
  <2>2. /\ [history.artifact EXCEPT ![history.active] = history.active] \in [Versions -> Output!MaybeVersion]
        /\ \A v \in Versions :
             [history.artifact EXCEPT ![history.active] = history.active][v] \in {NoVersion, v}
    BY <1>2
  <2>3. /\ history'.artifact = [history.artifact EXCEPT ![history.active] = history.active]
        /\ history'.made = history.made /\ history'.active = history.active
        /\ history'.at = history.at /\ history' \in Copies
    BY <1>2, <2>1, <2>2 DEF Copies
  <2> QED
    BY <1>7, <2>2, <2>3 DEF Of
<1>8. CASE tasks[t].kind \notin {"select", "move", "reset", "refine", "artifact"}
  <2>1. history' = history
    BY <1>1, <1>8 DEF Output!Served
  <2> QED
    BY <1>2, <1>8, <2>1 DEF Copies, Of
<1> QED
  BY <1>1, <1>3, <1>4, <1>5, <1>6, <1>7, <1>8 DEF Of

\* The service answers.
LEMMA ServeStep ==
    ASSUME OutputInv, NEW t \in Tasks, Output!Serve(t)
    PROVE  OutputInv'
<1>1. /\ history' \in Copies /\ history.made \subseteq history'.made
      /\ \A v \in Versions : history'.artifact[v] \in {NoVersion, v}
      /\ ~Of(t, "select") /\ ~Of(t, "refine") => history'.active = history.active
      /\ Of(t, "move") => /\ history'.at[tasks[t].v] = tasks[t].at
                          /\ \A v \in Versions \ {tasks[t].v} : history'.at[v] = history.at[v]
      /\ Of(t, "reset") => history'.at = Output!NoPlaces
      /\ ~Of(t, "move") /\ ~Of(t, "reset") => history'.at = history.at
  BY ServedRun DEF OutputInv
<1>2. /\ tasks[t] # Output!NoTask /\ tasks[t].st = "asked"
      /\ tasks' = [tasks EXCEPT ![t].st = "answered", ![t].run = history']
      /\ UNCHANGED <<copy, placed, drag, passage, edited, crossed>>
  BY DEF Output!Serve
<1>3. /\ tasks \in [Tasks -> CallsOf \cup {Output!NoTask}] /\ tasks[t] \in CallsOf
  BY <1>2 DEF OutputInv, OutputTypes
<1>4. /\ tasks' \in [Tasks -> CallsOf \cup {Output!NoTask}]
      /\ tasks'[t] \in CallsOf /\ tasks'[t].kind = tasks[t].kind /\ tasks'[t].v = tasks[t].v
      /\ tasks'[t].at = tasks[t].at /\ tasks'[t].saved = tasks[t].saved
      /\ tasks'[t].st = "answered" /\ tasks'[t].run = history'
      /\ \A u \in Tasks \ {t} : tasks'[u] = tasks[u]
  <2> DEFINE new == [[tasks[t] EXCEPT !.st = "answered"] EXCEPT !.run = history']
  <2>1. tasks' = [tasks EXCEPT ![t] = new]
    BY <1>2
  <2>2. /\ new \in CallsOf /\ new.kind = tasks[t].kind /\ new.v = tasks[t].v /\ new.at = tasks[t].at
        /\ new.saved = tasks[t].saved /\ new.st = "answered" /\ new.run = history'
    BY <1>1, <1>3 DEF CallsOf
  <2> HIDE DEF new
  <2> QED
    BY <1>3, <2>1, <2>2
<1>5. tasks'[t] # Output!NoTask
  BY <1>3, <1>4 DEF CallsOf, Output!NoTask
<1>6. /\ ~Answered(t) /\ Answered(t)'
      /\ \A u \in Tasks \ {t} : Answered(u)' <=> Answered(u)
      /\ \A u \in Tasks : \A k : Of(u, k)' <=> Of(u, k)
      /\ \A u \in Tasks : tasks'[u] = Output!NoTask <=> tasks[u] = Output!NoTask
  BY <1>2, <1>4, <1>5 DEF Answered, Of
<1>7. OutputTypes'
  <2>1. \A v \in Versions \ history'.made : history'.at[v] = NoVersion
    BY <1>1, <1>2 DEF OutputInv, OutputTypes, Of, Output!NoPlaces
  <2> QED
    BY <1>1, <1>2, <1>4, <1>6, <2>1 DEF OutputInv, OutputTypes
<1>8. OwnArtifacts'
  BY <1>1, <1>4, <1>6 DEF OutputInv, OwnArtifacts
<1>9. ASSUME "output" \notin crossed
      PROVE  SameOutput'
  <2>1. SameOutput
    BY DEF OutputInv
  <2>2. CASE Of(t, "select") \/ Of(t, "refine")
    <3>1. \A u \in Tasks \ {t} : tasks[u] = Output!NoTask
      BY <1>9, <2>1, <2>2 DEF SameOutput
    <3> QED
      BY <1>2, <1>4, <1>6, <1>9, <2>1, <2>2, <3>1 DEF SameOutput, Answered
  <2>3. CASE ~Of(t, "select") /\ ~Of(t, "refine")
    BY <1>1, <1>2, <1>4, <1>6, <1>9, <2>1, <2>3 DEF SameOutput
  <2> QED
    BY <2>2, <2>3
<1>10. ASSUME "map" \notin crossed
       PROVE  Lies' /\ Moving'
  <2>1. Lies /\ Moving
    BY <1>10 DEF OutputInv
  <2>2. \A w \in Versions : Steady(w)' <=> Steady(w)
    BY <1>2, <1>4, <1>6 DEF Steady
  <2>3. CASE Of(t, "reset")
    <3>1. \A u \in Tasks \ {t} : tasks[u] = Output!NoTask
      BY <2>1, <2>3 DEF Moving
    <3>2. \A w \in Versions : ~Steady(w)'
      BY <2>2, <2>3 DEF Steady
    <3>3. history'.at = Output!NoPlaces
      BY <1>1, <2>3
    <3>4. \A u \in Tasks : Answered(u)' => u = t
      BY <1>6, <3>1 DEF Answered
    <3>5. Lies'
      BY <1>4, <1>6, <2>3, <3>2, <3>3, <3>4 DEF Lies, Output!NoPlaces
    <3>6. \A u \in Tasks : ~Of(u, "move")
      BY <2>3, <3>1 DEF Of
    <3>7. Moving'
      BY <1>2, <1>4, <1>6, <2>1, <2>3, <3>1, <3>3, <3>6 DEF Moving
    <3> QED
      BY <3>5, <3>7
  <2>4. CASE Of(t, "move")
    <3>1. /\ tasks[t].v \in Versions /\ tasks[t].at # NoVersion
      BY <2>4, PagesAssumption DEF OutputInv, OutputTypes, Copies
    <3>2. \A w \in Versions : Steady(w) => w # tasks[t].v
      BY <2>4 DEF Steady
    <3>3. Lies'
      BY <1>1, <1>2, <1>4, <1>6, <2>1, <2>2, <2>4, <3>1, <3>2 DEF Lies
    <3>4. drag = Output!NoDrag /\ \A u \in Tasks : ~Of(u, "reset") /\ (Of(u, "move") => u = t)
      BY <1>2, <2>1, <2>4 DEF Moving, Of
    <3>5. Moving'
      BY <1>1, <1>2, <1>4, <1>6, <2>1, <2>4, <3>4 DEF Moving
    <3> QED
      BY <3>3, <3>5
  <2>5. CASE ~Of(t, "move") /\ ~Of(t, "reset")
    <3>1. history'.at = history.at
      BY <1>1, <2>5
    <3>2. Lies'
      BY <1>2, <1>4, <1>6, <2>1, <2>2, <3>1 DEF Lies
    <3>3. \A u \in Tasks : ~Of(u, "reset") /\ (Of(u, "move") => u # t)
      BY <1>2, <2>1, <2>5 DEF Moving, Of
    <3>4. Moving'
      BY <1>2, <1>4, <1>6, <2>1, <3>1, <3>3 DEF Moving
    <3> QED
      BY <3>2, <3>4
  <2> QED
    BY <2>3, <2>4, <2>5
<1> QED
  BY <1>2, <1>7, <1>8, <1>9, <1>10 DEF OutputInv, SameOutput, Output!EditOfShown

\* A request is lost, or an answer.
LEMMA LoseStep ==
    ASSUME OutputInv, NEW t \in Tasks, Output!Lose(t)
    PROVE  OutputInv'
<1>1. /\ tasks[t] # Output!NoTask /\ tasks[t].st \in {"asked", "answered"}
      /\ tasks' = [tasks EXCEPT ![t].st = "failed", ![t].run = NoVersion]
      /\ crossed' = IF tasks[t].st = "answered" THEN {"map", "output"} ELSE crossed
      /\ UNCHANGED <<history, copy, placed, drag, passage, edited>>
  BY DEF Output!Lose, Output!Pane
<1>2. /\ tasks \in [Tasks -> CallsOf \cup {Output!NoTask}] /\ tasks[t] \in CallsOf
  BY <1>1 DEF OutputInv, OutputTypes
<1>3. /\ tasks' \in [Tasks -> CallsOf \cup {Output!NoTask}]
      /\ tasks'[t] \in CallsOf /\ tasks'[t].kind = tasks[t].kind /\ tasks'[t].v = tasks[t].v
      /\ tasks'[t].at = tasks[t].at /\ tasks'[t].saved = tasks[t].saved /\ tasks'[t].st = "failed"
      /\ \A u \in Tasks \ {t} : tasks'[u] = tasks[u]
  <2> DEFINE new == [[tasks[t] EXCEPT !.st = "failed"] EXCEPT !.run = NoVersion]
  <2>1. tasks' = [tasks EXCEPT ![t] = new]
    BY <1>1
  <2>2. /\ new \in CallsOf /\ new.kind = tasks[t].kind /\ new.v = tasks[t].v /\ new.at = tasks[t].at
        /\ new.saved = tasks[t].saved /\ new.st = "failed"
    BY <1>2 DEF CallsOf
  <2> HIDE DEF new
  <2> QED
    BY <1>2, <2>1, <2>2
<1>4. tasks'[t] # Output!NoTask
  BY <1>2, <1>3 DEF CallsOf, Output!NoTask
<1>5. /\ ~Answered(t)' /\ \A u \in Tasks \ {t} : Answered(u)' <=> Answered(u)
      /\ \A u \in Tasks : Answered(u)' => Answered(u) /\ tasks'[u] = tasks[u]
      /\ \A u \in Tasks : \A k : Of(u, k)' <=> Of(u, k)
      /\ \A u \in Tasks : tasks'[u] = Output!NoTask <=> tasks[u] = Output!NoTask
  BY <1>1, <1>3, <1>4 DEF Answered, Of
<1>6. OutputTypes' /\ OwnArtifacts'
  BY <1>1, <1>3, <1>5 DEF OutputInv, OutputTypes, OwnArtifacts
<1>7. CASE Answered(t)
  BY <1>1, <1>6, <1>7 DEF OutputInv, Answered, SameOutput, Output!EditOfShown
<1>8. CASE ~Answered(t)
  <2>1. crossed' = crossed /\ \A u \in Tasks : Answered(u)' <=> Answered(u)
    BY <1>1, <1>5, <1>8 DEF Answered
  <2>2. SameOutput'
    BY <1>1, <1>5, <2>1 DEF OutputInv, SameOutput
  <2>3. ASSUME "map" \notin crossed
        PROVE  Lies' /\ Moving'
    <3>1. Lies /\ Moving
      BY <2>3 DEF OutputInv
    <3>2. \A w \in Versions : Steady(w)' <=> Steady(w)
      BY <1>1, <1>3, <1>5 DEF Steady
    <3>3. /\ UNCHANGED <<history, copy, placed, drag>>
          /\ \A u \in Tasks : Answered(u) => tasks'[u] = tasks[u]
          /\ \A u \in Tasks : tasks'[u].at = tasks[u].at /\ tasks'[u].v = tasks[u].v /\ tasks'[u].saved = tasks[u].saved
          /\ \A u \in Tasks : (Of(u, "move")' <=> Of(u, "move")) /\ (Of(u, "reset")' <=> Of(u, "reset"))
      BY <1>1, <1>3, <1>5, <2>1
    <3>4. Lies'
      BY <2>1, <3>1, <3>2, <3>3 DEF Lies
    <3>5. Moving'
      BY <1>5, <2>1, <3>1, <3>3 DEF Moving
    <3> QED
      BY <3>4, <3>5
  <2> QED
    BY <1>1, <1>6, <2>1, <2>2, <2>3 DEF OutputInv, Output!EditOfShown
<1> QED
  BY <1>7, <1>8

\* An answer with the whole run replaces the page's copy.
LEMMA RunAnswerStep ==
    ASSUME OutputInv, NEW t \in Tasks, Output!Answers(t, {"select", "label", "move", "reset", "refine", "poll"}),
           Output!Replace(tasks[t].run), placed' = placed
    PROVE  OutputInv'
<1>1. /\ Answered(t) /\ ~Of(t, "artifact")
      /\ tasks' = [tasks EXCEPT ![t] = Output!NoTask]
      /\ copy' = tasks[t].run /\ UNCHANGED <<history, drag, placed, edited, crossed>>
      /\ passage' = IF tasks[t].run.active = copy.active THEN passage ELSE NoVersion
  BY DEF Output!Answers, Output!Replace, Answered, Of
<1>2. tasks \in [Tasks -> CallsOf \cup {Output!NoTask}]
  BY DEF OutputInv, OutputTypes
<1>3. /\ tasks' \in [Tasks -> CallsOf \cup {Output!NoTask}] /\ tasks'[t] = Output!NoTask
      /\ \A u \in Tasks \ {t} : tasks'[u] = tasks[u]
  BY <1>1, <1>2
<1>4. /\ \A u \in Tasks : Answered(u)' => u # t /\ Answered(u) /\ tasks'[u] = tasks[u]
      /\ \A u \in Tasks : \A k : Of(u, k)' <=> u # t /\ Of(u, k)
  BY <1>3 DEF Answered, Of
<1>5. OutputTypes' /\ OwnArtifacts'
  BY <1>1, <1>3, <1>4 DEF OutputInv, OutputTypes, OwnArtifacts
<1>6. SameOutput'
  BY <1>1, <1>3, <1>4 DEF OutputInv, SameOutput, OwnArtifacts
<1>7. ASSUME "map" \notin crossed
      PROVE  Lies' /\ Moving'
  <2>1. Lies /\ Moving
    BY <1>7 DEF OutputInv
  <2>2. ASSUME NEW w \in Versions, Steady(w)'
        PROVE  \/ placed[w] # NoVersion /\ placed[w] = history.at[w]
               \/ /\ placed[w] = NoVersion /\ copy'.at[w] = history.at[w]
                  /\ \A u \in Tasks : Answered(u)' => tasks'[u].run.at[w] = history.at[w]
    <3>1. CASE Steady(w)
      BY <1>1, <1>4, <2>1, <3>1 DEF Lies
    <3>2. CASE Of(t, "move") /\ tasks[t].v = w
      <4>1. placed[w] = tasks[t].at /\ history.at[w] = tasks[t].at
        BY <1>1, <2>1, <3>2 DEF Moving
      <4>2. tasks[t].at # NoVersion
        BY <3>2, PagesAssumption DEF OutputInv, OutputTypes
      <4> QED
        BY <4>1, <4>2
    <3>3. CASE Of(t, "reset")
      <4>1. /\ placed = Output!NoPlaces /\ tasks[t].run.at = Output!NoPlaces /\ history.at = Output!NoPlaces
            /\ \A u \in Tasks : u = t \/ tasks[u] = Output!NoTask
        BY <1>1, <2>1, <3>3 DEF Moving
      <4> QED
        BY <1>1, <1>4, <4>1 DEF Output!NoPlaces, Answered
    <3> QED
      BY <1>1, <1>4, <2>2, <3>1, <3>2, <3>3, <1>3 DEF Steady
  <2>3. Lies'
    BY <1>1, <1>4, <2>1, <2>2 DEF Lies
  <2>4. Moving'
    BY <1>1, <1>3, <1>4, <2>1 DEF Moving, Answered
  <2> QED
    BY <2>3, <2>4
<1> QED
  BY <1>1, <1>5, <1>6, <1>7 DEF OutputInv, Output!EditOfShown

\* The saved output is attached to the version shown.
LEMMA SavedStep ==
    ASSUME OutputInv, NEW t \in Tasks, Output!OutputSaved(t)
    PROVE  OutputInv'
<1> DEFINE of == tasks[t].run.active
<1>1. /\ Answered(t) /\ Of(t, "artifact")
      /\ tasks' = [tasks EXCEPT ![t] = Output!NoTask]
      /\ copy' = [copy EXCEPT !.artifact[copy.active] = of]
      /\ UNCHANGED <<history, drag, placed, edited, crossed>>
      /\ passage' = IF copy'.active = copy.active THEN passage ELSE NoVersion
  BY DEF Output!OutputSaved, Output!Attached, Output!Answers, Output!Replace, Answered, Of
<1>2. /\ tasks \in [Tasks -> CallsOf \cup {Output!NoTask}] /\ of \in Output!MaybeVersion
      /\ copy \in [made : SUBSET Versions, active : Versions,
                   at : [Versions -> Output!MaybePlace], artifact : [Versions -> Output!MaybeVersion]]
  BY <1>1 DEF OutputInv, OutputTypes, Copies, Output!MaybeVersion
<1> HIDE DEF of
<1>3. /\ tasks' \in [Tasks -> CallsOf \cup {Output!NoTask}] /\ tasks'[t] = Output!NoTask
      /\ \A u \in Tasks \ {t} : tasks'[u] = tasks[u]
  BY <1>1, <1>2
<1>4. /\ \A u \in Tasks : Answered(u)' => u # t /\ Answered(u) /\ tasks'[u] = tasks[u]
      /\ \A u \in Tasks : \A k : Of(u, k)' <=> u # t /\ Of(u, k)
  BY <1>3 DEF Answered, Of
<1>5. /\ copy' \in Copies /\ copy'.made = copy.made /\ copy'.active = copy.active /\ copy'.at = copy.at
      /\ copy'.artifact[copy.active] = of
      /\ \A v \in Versions \ {copy.active} : copy'.artifact[v] = copy.artifact[v]
  <2>1. [copy.artifact EXCEPT ![copy.active] = of] \in [Versions -> Output!MaybeVersion]
    BY <1>2
  <2>2. /\ copy' \in Copies /\ copy'.made = copy.made /\ copy'.active = copy.active /\ copy'.at = copy.at
        /\ copy'.artifact = [copy.artifact EXCEPT ![copy.active] = of]
    BY <1>1, <1>2, <2>1 DEF Copies
  <2> QED
    BY <1>2, <2>2
<1>6. OutputTypes' /\ OwnArtifacts'
  BY <1>1, <1>3, <1>4, <1>5 DEF OutputInv, OutputTypes, OwnArtifacts
<1>7. ASSUME "output" \notin crossed
      PROVE  SameOutput'
  <2>1. SameOutput
    BY DEF OutputInv
  <2>2. \A u \in Tasks : ~Of(u, "select") /\ ~Of(u, "refine")
    BY <1>1, <1>7, <2>1 DEF SameOutput, Of
  <2>3. of = copy.active
    BY <1>1, <1>7, <2>1, <2>2 DEF SameOutput, of
  <2> QED
    BY <1>1, <1>2, <1>3, <1>4, <1>5, <1>7, <2>1, <2>2, <2>3 DEF SameOutput
<1>8. ASSUME "map" \notin crossed
      PROVE  Lies' /\ Moving'
  <2>1. Lies /\ Moving
    BY <1>8 DEF OutputInv
  <2>2. \A w \in Versions : Steady(w)' => Steady(w)
    BY <1>1, <1>3, <1>4 DEF Steady, Of
  <2>3. ~Of(t, "reset")
    BY <1>1 DEF Of
  <2>4. (\A u \in Tasks : ~Of(u, "reset")') => \A u \in Tasks : ~Of(u, "reset")
    BY <1>4, <2>3
  <2>5. Lies'
    BY <1>1, <1>4, <1>5, <2>1, <2>2, <2>4 DEF Lies
  <2>6. Moving'
    BY <1>1, <1>3, <1>4, <1>5, <2>1 DEF Moving, Answered
  <2> QED
    BY <2>5, <2>6
<1> QED
  BY <1>1, <1>5, <1>6, <1>7, <1>8 DEF OutputInv, SameOutput, Output!EditOfShown

\* A call has failed: the node that was to be moved goes back.
LEMMA FailedStep ==
    ASSUME OutputInv, NEW t \in Tasks, Output!TaskFailed(t)
    PROVE  OutputInv'
<1>1. /\ tasks[t] # Output!NoTask /\ tasks[t].st = "failed"
      /\ tasks' = [tasks EXCEPT ![t] = Output!NoTask]
      /\ placed' = IF Of(t, "move") THEN [placed EXCEPT ![tasks[t].v] = tasks[t].saved] ELSE placed
      /\ UNCHANGED <<history, copy, passage, edited, drag, crossed>>
  BY DEF Output!TaskFailed, Output!PutBack, Output!Pane, Of
<1>2. /\ tasks \in [Tasks -> CallsOf \cup {Output!NoTask}] /\ tasks[t].saved \in Output!MaybePlace
      /\ placed \in [Versions -> Output!MaybePlace] /\ (Of(t, "move") => tasks[t].v \in Versions)
  BY <1>1 DEF OutputInv, OutputTypes, CallsOf, Copies
<1>3. /\ tasks' \in [Tasks -> CallsOf \cup {Output!NoTask}] /\ tasks'[t] = Output!NoTask
      /\ \A u \in Tasks \ {t} : tasks'[u] = tasks[u]
  BY <1>1, <1>2
<1>4. /\ ~Answered(t)
      /\ \A u \in Tasks : Answered(u)' <=> Answered(u)
      /\ \A u \in Tasks : Answered(u) => tasks'[u] = tasks[u]
      /\ \A u \in Tasks : \A k : Of(u, k)' <=> u # t /\ Of(u, k)
  BY <1>1, <1>3 DEF Answered, Of
<1>5. /\ placed' \in [Versions -> Output!MaybePlace]
      /\ Of(t, "move") => /\ placed'[tasks[t].v] = tasks[t].saved
                          /\ \A w \in Versions \ {tasks[t].v} : placed'[w] = placed[w]
      /\ ~Of(t, "move") => placed' = placed
  BY <1>1, <1>2
<1>6. OutputTypes' /\ OwnArtifacts'
  BY <1>1, <1>3, <1>4, <1>5 DEF OutputInv, OutputTypes, OwnArtifacts
<1>7. SameOutput'
  BY <1>1, <1>3, <1>4 DEF OutputInv, SameOutput
<1>8. ASSUME "map" \notin crossed
      PROVE  Lies' /\ Moving'
  <2>1. Lies /\ Moving
    BY <1>8 DEF OutputInv
  <2>2. CASE Of(t, "reset")
    <3>1. /\ \A u \in Tasks : u = t \/ tasks[u] = Output!NoTask
          /\ placed = Output!NoPlaces /\ copy.at = history.at
      BY <1>4, <2>1, <2>2 DEF Moving
    <3>2. placed' = placed
      BY <1>5, <2>2 DEF Of
    <3>3. \A u \in Tasks : ~Answered(u)'
      BY <1>4, <3>1 DEF Answered
    <3>4. Lies'
      BY <1>1, <3>1, <3>2, <3>3 DEF Lies, Output!NoPlaces
    <3>5. Moving'
      BY <1>1, <1>4, <2>1, <2>2, <3>1 DEF Moving, Of
    <3> QED
      BY <3>4, <3>5
  <2>3. CASE Of(t, "move")
    <3>1. /\ history.at[tasks[t].v] = tasks[t].saved /\ drag = Output!NoDrag
          /\ \A u \in Tasks : (Of(u, "move") => u = t) /\ ~Of(u, "reset")
      BY <1>1, <1>4, <2>1, <2>3 DEF Moving, Of
    <3>2. \A w \in Versions : Steady(w)' /\ w # tasks[t].v => Steady(w)
      BY <1>1, <1>3, <1>4, <3>1 DEF Steady
    <3>3. Lies'
      BY <1>1, <1>2, <1>4, <1>5, <2>1, <2>3, <3>1, <3>2 DEF Lies
    <3>4. Moving'
      BY <1>1, <1>4, <3>1 DEF Moving
    <3> QED
      BY <3>3, <3>4
  <2>4. CASE ~Of(t, "reset") /\ ~Of(t, "move")
    <3>1. \A w \in Versions : Steady(w)' => Steady(w)
      BY <1>1, <1>3, <1>4, <2>4 DEF Steady
    <3>2. placed' = placed /\ \A u \in Tasks : Of(u, "reset")' <=> Of(u, "reset")
      BY <1>4, <1>5, <2>4
    <3>3. Lies'
      BY <1>1, <1>4, <2>1, <3>1, <3>2 DEF Lies
    <3>4. Moving'
      BY <1>1, <1>3, <1>4, <2>1, <3>2 DEF Moving
    <3> QED
      BY <3>3, <3>4
  <2> QED
    BY <2>2, <2>3, <2>4
<1> QED
  BY <1>1, <1>6, <1>7, <1>8 DEF OutputInv, Output!EditOfShown

\* A node is let go: it is moved, or opened.
LEMMA StopStep ==
    ASSUME OutputInv, NEW t \in Tasks, Output!StopNodeDrag(t)
    PROVE  OutputInv'
<1>1. /\ drag # Output!NoDrag /\ drag' = Output!NoDrag
      /\ UNCHANGED <<history, copy, passage, edited, placed>>
  BY DEF Output!StopNodeDrag, Output!Pane
<1>2. drag.v \in Versions /\ drag.v \in Output!MaybeVersion
  BY <1>1 DEF OutputInv, OutputTypes, Output!MaybeVersion
<1>3. CASE drag.at # NoVersion
  <2>1. Output!Start(t, "move", drag.v, drag.at, drag.saved)
    BY <1>3 DEF Output!StopNodeDrag
  <2> QED
    BY <1>1, <1>3, <2>1, MoveCallStep
<1>4. CASE drag.at = NoVersion /\ drag.v # copy.active
  <2>1. Output!Start(t, "select", drag.v, NoVersion, NoVersion)
    BY <1>4 DEF Output!StopNodeDrag
  <2> QED
    BY <1>1, <1>2, <1>4, <2>1, PlainCallStep
<1>5. CASE drag.at = NoVersion /\ drag.v = copy.active
  <2>1. UNCHANGED <<tasks, crossed>>
    BY <1>5 DEF Output!StopNodeDrag
  <2>2. ASSUME "map" \notin crossed
        PROVE  Lies' /\ Moving'
    <3>1. Lies /\ Moving
      BY <2>2 DEF OutputInv
    <3>2. \A w \in Versions : Steady(w)' => Steady(w)
      BY <1>1, <1>5, <2>1 DEF Steady, Of
    <3>3. Lies'
      BY <1>1, <2>1, <3>1, <3>2 DEF Lies, Of, Answered
    <3>4. Moving'
      BY <1>1, <2>1, <3>1 DEF Moving, Of, Answered
    <3> QED
      BY <3>3, <3>4
  <2> QED
    BY <1>1, <2>1, <2>2, MapOnly DEF OutputInv, OutputTypes
<1> QED
  BY <1>3, <1>4, <1>5

\* The label that is typed is of a version.
PanelOfVersions == panel \in [map : BOOLEAN, label : Output!MaybeVersion, resetting : BOOLEAN]

\* Every step on the page of a run keeps it so.
LEMMA PanelStep ==
    ASSUME PanelOfVersions, Output!VersionsNext
    PROVE  PanelOfVersions'
<1> USE DEF PanelOfVersions, Output!MaybeVersion
<1>1. CASE Output!UseMap
  BY <1>1 DEF Output!UseMap, Output!OpenMap, Output!CloseMap, Output!CancelLabel, Output!CancelNodeDrag,
    Output!BeginLabel, Output!StartNodeDrag, Output!MoveNodeDrag
<1>2. CASE Output!BeginEdit \/ Output!CancelEdit \/ Output!OpenAiEdit \/ Output!CloseAiEdit
  BY <1>2 DEF Output!BeginEdit, Output!CancelEdit, Output!OpenAiEdit, Output!CloseAiEdit
<1>3. ASSUME NEW t \in Tasks,
             \/ Output!SaveLabel(t) \/ Output!StopNodeDrag(t) \/ Output!ResetLayout(t) \/ Output!SubmitRefinement(t)
             \/ Output!SaveOutput(t) \/ Output!Poll(t) \/ \E v \in Versions : Output!SelectVersion(t, v)
      PROVE  PanelOfVersions'
  BY <1>3 DEF Output!SaveLabel, Output!StopNodeDrag, Output!ResetLayout, Output!SubmitRefinement,
    Output!SaveOutput, Output!Poll, Output!SelectVersion
<1>4. ASSUME NEW t \in Tasks,
             \/ Output!Serve(t) \/ Output!Lose(t) \/ Output!TaskFailed(t)
             \/ Output!VersionSelected(t) \/ Output!VersionRenamed(t) \/ Output!NodeMoved(t) \/ Output!LayoutReset(t)
             \/ Output!Refined(t) \/ Output!Polled(t) \/ Output!OutputSaved(t)
      PROVE  PanelOfVersions'
  <2>1. panel.resetting \in BOOLEAN /\ (tasks[t].kind # "reset") \in BOOLEAN
    OBVIOUS
  <2> QED
    BY <1>4, <2>1 DEF Output!Serve, Output!Lose, Output!TaskFailed, Output!VersionSelected, Output!VersionRenamed,
      Output!NodeMoved, Output!LayoutReset, Output!Refined, Output!Polled, Output!OutputSaved
<1> QED
  BY <1>1, <1>2, <1>3, <1>4 DEF Output!VersionsNext

\* Every step on the page of a run keeps the invariant.
LEMMA VersionStep ==
    ASSUME PanelOfVersions, OutputInv, Output!VersionsNext
    PROVE  OutputInv'
<1> USE DEF Output!Pane
<1>0. NoVersion \in Output!MaybeVersion /\ \A v \in Versions : v \in Output!MaybeVersion
  BY DEF Output!MaybeVersion
<1>1. CASE Output!UseMap
  <2>1. CASE Output!CancelNodeDrag \/ (\E v \in Versions : Output!StartNodeDrag(v))
             \/ (\E p \in Places : Output!MoveNodeDrag(p))
    BY <2>1, DragStep
  <2>2. CASE Output!OpenMap \/ Output!CloseMap \/ Output!CancelLabel \/ (\E v \in Versions : Output!BeginLabel(v))
    BY <2>2, OutputLook DEF OutputInv, Output!EditOfShown, Output!OpenMap, Output!CloseMap,
      Output!CancelLabel, Output!BeginLabel
  <2> QED
    BY <1>1, <2>1, <2>2 DEF Output!UseMap
<1>2. CASE Output!BeginEdit \/ Output!CancelEdit \/ Output!OpenAiEdit \/ Output!CloseAiEdit
  <2>1. Output!EditOfShown /\ UNCHANGED <<history, copy, placed, drag, tasks, crossed>>
    BY <1>2 DEF OutputInv, Output!BeginEdit, Output!CancelEdit, Output!OpenAiEdit, Output!CloseAiEdit
  <2>2. Output!EditOfShown'
    BY <1>2, <2>1 DEF Output!EditOfShown, Output!BeginEdit, Output!CancelEdit, Output!OpenAiEdit,
      Output!CloseAiEdit, Output!OutputOffered, Output!Editing
  <2> QED
    BY <2>1, <2>2, OutputLook
<1>3. ASSUME NEW t \in Tasks, Output!SaveLabel(t)
      PROVE  OutputInv'
  BY <1>0, <1>3, PlainCallStep DEF Output!SaveLabel, PanelOfVersions
<1>4. ASSUME NEW t \in Tasks, Output!StopNodeDrag(t)
      PROVE  OutputInv'
  BY <1>4, StopStep
<1>5. ASSUME NEW t \in Tasks, Output!ResetLayout(t)
      PROVE  OutputInv'
  BY <1>5, ResetCallStep
<1>6. ASSUME NEW t \in Tasks, Output!SubmitRefinement(t)
      PROVE  OutputInv'
  BY <1>0, <1>6, PlainCallStep DEF Output!SubmitRefinement
<1>7. ASSUME NEW t \in Tasks, Output!SaveOutput(t)
      PROVE  OutputInv'
  BY <1>0, <1>7, PlainCallStep DEF Output!SaveOutput
<1>8. ASSUME NEW t \in Tasks, Output!Poll(t)
      PROVE  OutputInv'
  BY <1>0, <1>8, PlainCallStep DEF Output!Poll
<1>9. ASSUME NEW t \in Tasks, NEW v \in Versions, Output!SelectVersion(t, v)
      PROVE  OutputInv'
  BY <1>0, <1>9, PlainCallStep DEF Output!SelectVersion
<1>10. ASSUME NEW t \in Tasks, Output!Serve(t) \/ Output!Lose(t) \/ Output!TaskFailed(t) \/ Output!OutputSaved(t)
       PROVE  OutputInv'
  BY <1>10, ServeStep, LoseStep, FailedStep, SavedStep
<1>11. ASSUME NEW t \in Tasks,
              Output!VersionSelected(t) \/ Output!VersionRenamed(t) \/ Output!NodeMoved(t)
              \/ Output!LayoutReset(t) \/ Output!Refined(t) \/ Output!Polled(t)
       PROVE  OutputInv'
  BY <1>11, RunAnswerStep DEF Output!VersionSelected, Output!VersionRenamed, Output!NodeMoved,
    Output!LayoutReset, Output!Refined, Output!Polled, Output!Answers
<1> QED
  BY <1>1, <1>2, <1>3, <1>4, <1>5, <1>6, <1>7, <1>8, <1>9, <1>10, <1>11 DEF Output!VersionsNext

\* What is said of the versions of a run is inductive while its page is open.
VersionInv == PanelOfVersions /\ OutputInv

\* The invariant of the versions holds at every visit of their page.
THEOREM OutputInductive == PagesSpec => [](route = "versions" => VersionInv)
<1>1. PagesInit => (route = "versions" => VersionInv)
  <2> SUFFICES ASSUME PagesInit, route = "versions"
               PROVE  VersionInv
    OBVIOUS
  <2>1. Output!VersionsInit
    BY DEF PagesInit
  <2>2. PICK v \in Versions : history = Output!RunOf({First, v}, v)
    BY <2>1 DEF Output!VersionsInit
  <2>3. /\ history = [made |-> {First, v}, active |-> v, at |-> Output!NoPlaces, artifact |-> Output!NoPlaces]
        /\ copy = history /\ placed = Output!NoPlaces /\ drag = Output!NoDrag /\ panel = Output!ClosedPanel
        /\ tasks = [t \in Tasks |-> Output!NoTask] /\ passage = NoVersion
    BY <2>1, <2>2 DEF Output!VersionsInit, Output!RunOf
  <2>4. /\ Output!NoPlaces \in [Versions -> Output!MaybePlace] /\ Output!NoPlaces \in [Versions -> Output!MaybeVersion]
        /\ \A w \in Versions : Output!NoPlaces[w] = NoVersion
    BY DEF Output!NoPlaces, Output!MaybePlace, Output!MaybeVersion
  <2>5. history \in Copies /\ history.at = Output!NoPlaces /\ history.artifact = Output!NoPlaces
    BY <2>3, <2>4, PagesAssumption DEF Copies
  <2>6. \A t \in Tasks : tasks[t] = Output!NoTask /\ ~Answered(t) /\ \A k : ~Of(t, k)
    BY <2>3 DEF Answered, Of
  <2>7. PanelOfVersions
    BY <2>3 DEF PanelOfVersions, Output!ClosedPanel, Output!MaybeVersion
  <2>8. OutputTypes
    BY <2>3, <2>4, <2>5, <2>6 DEF OutputTypes
  <2>9. OwnArtifacts /\ SameOutput
    BY <2>3, <2>4, <2>5, <2>6 DEF OwnArtifacts, SameOutput
  <2>10. Lies /\ Moving
    BY <2>3, <2>4, <2>5, <2>6 DEF Lies, Moving
  <2> QED
    BY <2>3, <2>7, <2>8, <2>9, <2>10 DEF VersionInv, OutputInv, Output!EditOfShown
<1>2. (route = "versions" => VersionInv) /\ [PagesNext]_pagesVars => (route = "versions" => VersionInv)'
  <2> SUFFICES ASSUME [PagesNext]_pagesVars, route = "versions", VersionInv
               PROVE  VersionInv'
    BY OnePage
  <2>1. CASE Output!VersionsNext
    BY <2>1, VersionStep, PanelStep DEF VersionInv
  <2>2. CASE UNCHANGED outputVars
    BY <2>2, OutputLook DEF outputVars, VersionInv, PanelOfVersions, OutputInv, Output!EditOfShown
  <2> QED
    BY <2>1, <2>2, OnePage
<1> QED
  BY <1>1, <1>2, PTL DEF PagesSpec

\* At rest, and unless changes of the layout overlapped or an answer was lost, the map draws
\* every node where the service has it; the artifacts on the page are of their own versions; the
\* text edited with AI is of the output shown (WorkflowResultDetails.tsx, replaceRun).
THEOREM VersionsAreShown == PagesSpec => []VersionsShown
<1>1. (route = "versions" => VersionInv) => VersionsShown
  <2> SUFFICES ASSUME route = "versions", VersionInv
               PROVE  Output!VersionsShown
    BY DEF VersionsShown
  <2>1. OutputInv /\ copy.made \subseteq Versions
    BY DEF VersionInv, OutputInv, OutputTypes, Copies
  <2>2. Output!MapAsSaved
    <3> SUFFICES ASSUME drag = Output!NoDrag, Output!UnderWay = {}, "map" \notin crossed, NEW v \in copy.made
                 PROVE  Output!Position(v) = history.at[v]
      BY DEF Output!MapAsSaved, Output!Calm
    <3>1. Lies /\ Steady(v)
      BY <2>1 DEF OutputInv, Steady, Of, Output!UnderWay, Output!NoDrag
    <3> QED
      BY <2>1, <3>1 DEF Lies, Output!Position
  <2>3. Output!ArtifactsOwn
    BY <2>1 DEF OutputInv, SameOutput, Output!ArtifactsOwn
  <2> QED
    BY <2>1, <2>2, <2>3 DEF OutputInv, Output!VersionsShown
<1> QED
  BY <1>1, OutputInductive, PTL
================================================================================
