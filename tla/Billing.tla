-------------------------------- MODULE Billing --------------------------------
(***************************************************************************)
(* Plan and usage on the billing page (features/billing/BillingPage.tsx,   *)
(* api.ts): the subscription it listens to, the limits it loads once and   *)
(* polls, and the buttons that leave for Stripe's checkout or portal.      *)
(*                                                                         *)
(* One subscription, active or not, stands for the list; limits are the    *)
(* plan they carry.  The effects run again whenever the provider renews    *)
(* its user object.  The price is PlanCatalog's.                           *)
(***************************************************************************)
EXTENDS Naturals

CONSTANTS
    MaxChanges,   \* subscriptions that begin or end
    MaxRenewals,  \* times the provider renews its user object
    MaxTroubles   \* requests and listeners that fail

NoAnswer == "none"
Plans == {"FREE", "PRO"}

VARIABLES
    sub,        \* Stripe: whether a subscription is active
    load,       \* the load of the effect: what the service will have answered, and whether it has
    poll,       \* the poll in flight (inflightRef), in the same way
    limits,     \* limits.plan
    subs,       \* activeSub
    observer,   \* observeSubscriptions of the current effect
    orphans,    \* the promise of an effect that has ended: its listener is never taken down
    btn,        \* btnLoading, and how far its handler is
    switches, renewals, setbacks,
    unheard,    \* history: what the page heard last is older than the subscription, or a failure
    mishap      \* history: a listener is gone and what it said last still stands

billingVars == <<sub, load, poll, limits, subs, observer, orphans, btn, switches, renewals, setbacks,
                 unheard, mishap>>
requests == <<load, poll>>
listeners == <<observer, orphans>>
bounds == <<switches, renewals, setbacks>>

Plan == IF sub THEN "PRO" ELSE "FREE"
Trouble == setbacks > 0 /\ setbacks' = setbacks - 1 /\ UNCHANGED <<switches, renewals>>

\* Mutation of OnPro: the subscription is not looked at.
OnProByLimits == limits = "PRO"

\* onPro; the status, badge and button follow it.
OnPro == subs \/ limits = "PRO"

--------------------------------------------------------------------------------
(* The service answers a request some time before the page sees the answer. *)

Asked == [to |-> "asked", plan |-> NoAnswer]
Nothing == [to |-> "nothing", plan |-> NoAnswer]
Reply == [to |-> "answered", plan |-> Plan]

ServiceAnswers ==
    /\ \/ load.to = "asked" /\ load' = Reply /\ UNCHANGED poll
       \/ poll.to = "asked" /\ poll' = Reply /\ UNCHANGED load
    /\ UNCHANGED <<sub, limits, subs, listeners, btn, bounds, unheard, mishap>>

Hears(plan) == unheard' = (plan # Plan)

Loaded ==
    /\ load.to = "answered" /\ load' = Nothing
    /\ limits' = load.plan /\ Hears(load.plan)
    /\ UNCHANGED <<sub, poll, subs, listeners, btn, bounds, mishap>>

LoadFails ==
    /\ load.to # "nothing" /\ load' = Nothing
    /\ limits' = NoAnswer /\ unheard' = TRUE /\ Trouble
    /\ UNCHANGED <<sub, poll, subs, listeners, btn, mishap>>

\* The interval ticks; a poll in flight is not asked again.
Tick ==
    /\ poll.to = "nothing" /\ poll' = Asked
    /\ UNCHANGED <<sub, load, limits, subs, listeners, btn, bounds, unheard, mishap>>

Polled == limits' = poll.plan /\ Hears(poll.plan)

PollAnswered ==
    /\ poll.to = "answered" /\ poll' = Nothing
    /\ Polled
    /\ UNCHANGED <<sub, load, subs, listeners, btn, bounds, mishap>>

PollFails ==
    /\ poll.to # "nothing" /\ poll' = Nothing /\ Trouble
    /\ UNCHANGED <<sub, load, limits, subs, listeners, btn, unheard, mishap>>

--------------------------------------------------------------------------------
(* observeSubscriptions: requireUser, then a listener. *)

Listening ==
    /\ \/ observer = "asking" /\ observer' = "on" /\ UNCHANGED orphans
       \/ orphans = "asking" /\ orphans' = "on" /\ UNCHANGED observer
    /\ UNCHANGED <<sub, requests, limits, subs, btn, bounds, unheard, mishap>>

\* The e-mail is not verified, or nobody is signed in within eight seconds.
ObserverRefused ==
    /\ Trouble
    /\ \/ observer = "asking" /\ observer' = "off" /\ UNCHANGED orphans
       \/ orphans = "asking" /\ orphans' = "off" /\ UNCHANGED observer
    /\ mishap' = (mishap \/ subs)
    /\ UNCHANGED <<sub, requests, limits, subs, btn, unheard>>

Snapshot ==
    /\ "on" \in {observer, orphans} /\ subs # sub
    /\ subs' = sub /\ unheard' = FALSE
    /\ UNCHANGED <<sub, requests, limits, listeners, btn, bounds, mishap>>

ForgetSubs == subs' = FALSE

ListenerFails ==
    /\ Trouble
    /\ observer = "on" /\ observer' = "off" /\ ForgetSubs /\ unheard' = TRUE
    /\ UNCHANGED <<sub, requests, limits, orphans, btn, mishap>>

--------------------------------------------------------------------------------
(* The effects run again: the load is cancelled, the listener taken down if it is there already. *)

\* Two promises of effects that have ended are one more listener of the same kind.
Orphaned == IF observer = "asking" /\ orphans # "on" THEN "asking" ELSE orphans

Renew ==
    /\ renewals > 0 /\ renewals' = renewals - 1
    /\ load' = Asked
    /\ observer' = "asking" /\ orphans' = Orphaned
    /\ UNCHANGED <<sub, poll, limits, subs, btn, switches, setbacks, unheard, mishap>>

Changed ==
    /\ switches > 0 /\ switches' = switches - 1
    /\ sub' = ~sub /\ unheard' = TRUE
    /\ UNCHANGED <<requests, limits, subs, listeners, btn, renewals, setbacks, mishap>>

--------------------------------------------------------------------------------
(* The buttons. *)

MaySubscribe == btn = "ready" /\ ~OnPro

Subscribe ==
    /\ MaySubscribe /\ btn' = "checkout"
    /\ UNCHANGED <<sub, requests, limits, subs, listeners, bounds, unheard, mishap>>

Manage ==
    /\ btn = "ready" /\ OnPro /\ btn' = "portal"
    /\ UNCHANGED <<sub, requests, limits, subs, listeners, bounds, unheard, mishap>>

\* The browser leaves for Stripe.
Leaves ==
    /\ btn \in {"checkout", "portal", "document"} /\ btn' = "left"
    /\ UNCHANGED <<sub, requests, limits, subs, listeners, bounds, unheard, mishap>>

GivesUp == btn' = "ready"

CheckoutFails ==
    /\ btn = "checkout" /\ GivesUp /\ Trouble
    /\ UNCHANGED <<sub, requests, limits, subs, listeners, unheard, mishap>>

\* The callable is not there: a document asks the extension instead, if somebody is signed in.
PortalFallsBack ==
    /\ btn = "portal" /\ Trouble
    /\ btn' \in {"document", "ready"}
    /\ UNCHANGED <<sub, requests, limits, subs, listeners, unheard, mishap>>

PortalRefused ==
    /\ btn = "document" /\ GivesUp
    /\ UNCHANGED <<sub, requests, limits, subs, listeners, bounds, unheard, mishap>>

BillingInit ==
    /\ sub \in BOOLEAN
    /\ load = Asked /\ poll = Nothing /\ limits = NoAnswer
    /\ subs = FALSE /\ observer = "asking" /\ orphans = "off"
    /\ btn = "ready"
    /\ switches = MaxChanges /\ renewals = MaxRenewals /\ setbacks = MaxTroubles
    /\ unheard = TRUE /\ mishap = FALSE

BillingCalls == ServiceAnswers \/ Loaded \/ PollAnswered \/ Tick
Portal == Leaves \/ CheckoutFails \/ PortalRefused

BillingNext == BillingCalls \/ LoadFails \/ PollFails \/ Listening \/ ObserverRefused \/ Snapshot
               \/ ListenerFails \/ Renew \/ Changed \/ Subscribe \/ Manage \/ Portal \/ PortalFallsBack

BillingSpec == BillingInit /\ [][BillingNext]_billingVars
--------------------------------------------------------------------------------
(* Properties *)

\* Every variable keeps its type.
BillingTypeOK ==
    /\ {sub, subs, unheard, mishap} \subseteq BOOLEAN
    /\ {load, poll} \subseteq [to : {"nothing", "asked", "answered"}, plan : Plans \cup {NoAnswer}]
    /\ limits \in Plans \cup {NoAnswer}
    /\ {observer, orphans} \subseteq {"off", "asking", "on"}
    /\ btn \in {"ready", "checkout", "portal", "document", "left"}

\* A user with a subscription is sent to the checkout only while what the page has heard last, of
\* limits or subscriptions, is older than that subscription or a failure.
Needed == btn' = "checkout" /\ btn # "checkout" /\ sub => unheard
NoSecondPlan == [][Needed]_billingVars
================================================================================
