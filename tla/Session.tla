-------------------------------- MODULE Session --------------------------------
(***************************************************************************)
(* features/auth of the web application: the user AuthProvider.tsx shows,  *)
(* kept in step with the two sessions behind it, Firebase's in the browser *)
(* and the cookie's on the server, while the login, sign-up, phone and     *)
(* magic-link pages sign in, the profile page changes an account and the   *)
(* menu signs out.                                                         *)
(*                                                                         *)
(* serverUserRef is always what user will be after the render, so one      *)
(* variable stands for both.  Handlers outlive the page that started them, *)
(* and all of them end with the document (a reload).                       *)
(***************************************************************************)
EXTENDS Naturals, Sequences

CONSTANTS
    Users,        \* accounts
    Passwords,    \* accounts that sign in with e-mail and password, unverified at first
    None,         \* nobody
    Bounds        \* how often the user may act, and how many requests may fail or time out

ASSUME SessionAssumption ==
    Passwords \subseteq Users /\ None \notin Users /\ Bounds \subseteq [acts : Nat, failures : Nat]

Kinds == {"password", "google", "confirm", "magic", "profile", "signout"}
Mishaps == {"failed", "overtaken", "ejected"}
Accounts == [uid : Users, unverified : BOOLEAN]
ASSUME NobodyAssumption == None \notin Accounts
NoExchange == [step |-> "none", of |-> None, force |-> FALSE]
Idle == [step |-> "idle", who |-> None]

VARIABLES
    emails,        \* Firebase: accounts with a password, and those of them that are verified
    fb,            \* auth.currentUser
    cookie,        \* whose session the browser's cookie opens
    user,          \* user and serverUserRef
    loading,       \* loading
    lastExchange,  \* sharedLastSessionExchange
    initial,       \* the load asked for when the provider mounted: its answer
    events,        \* onAuth callbacks that wait for it, in order
    exchange,      \* sharedSessionExchangeInFlight
    flow,          \* the handler of each kind that is running
    link,          \* whose magic link the page was opened with
    seen,          \* the loading and user the link's effect last ran for
    code,          \* times the page has sent the link's code, and whether it is spent
    acts, failures,   \* what is left of the bounds
    mishaps        \* history: what happened that may leave the sessions apart

provider == <<user, loading, lastExchange, initial>>
page == <<link, seen, code>>
vars == <<emails, fb, cookie, provider, events, exchange, flow, page, acts, failures, mishaps>>

InFlight == exchange.step # "none"
Uid(account) == IF account = None THEN None ELSE account.uid
Account(u) == [uid |-> u, unverified |-> u \in emails.with \ emails.verified]

Act == acts > 0 /\ acts' = acts - 1
Failure == failures > 0 /\ failures' = failures - 1
Hap(what) == mishaps' = mishaps \cup what
Set(kind, step, who) == flow' = [flow EXCEPT ![kind] = [step |-> step, who |-> who]]

\* A callback is fired when the signed-in account becomes another one.
Becomes(account) ==
    /\ fb' = account
    /\ events' = IF Uid(account) = Uid(fb) THEN events ELSE Append(events, account)

Overtakes(account) == IF InFlight /\ Uid(account) # Uid(fb) THEN {"overtaken"} ELSE {}

--------------------------------------------------------------------------------
(* AuthProvider: load, syncFromFirebase and the exchange. *)

Mounted(with, jar) ==
    /\ user' = None /\ loading' = TRUE /\ lastExchange' = None
    /\ initial' = [done |-> FALSE, answer |-> jar]
    /\ fb' = fb /\ events' = <<fb>>
    /\ exchange' = NoExchange
    /\ flow' = [k \in Kinds |-> Idle]
    /\ link' = with /\ seen' = None

Clear == user' = None /\ lastExchange' = None

InitialAnswered ==
    /\ ~initial.done
    /\ initial' = [done |-> TRUE, answer |-> None]
    /\ loading' = FALSE
    /\ \/ /\ user' \in {initial.answer} \cup (IF cookie = initial.answer THEN {} ELSE {None})
          /\ UNCHANGED <<failures, mishaps>>
       \/ user' = None /\ Failure /\ Hap({"failed"})
    /\ UNCHANGED <<emails, fb, cookie, lastExchange, events, exchange, flow, page, acts>>

Exchange(account, force) ==
    IF InFlight THEN exchange ELSE [step |-> "token", of |-> account, force |-> force]

Ejected == IF cookie = None THEN {} ELSE {"ejected"}

\* The callbacks wait for the initial load.
Ready == initial.done

\* Mutation of DeliverNobody: the account that was shown stays.
DeliverNobodyIgnored(account) ==
    /\ account = None
    /\ events' = Tail(events) /\ loading' = FALSE
    /\ UNCHANGED <<user, lastExchange, fb, exchange, mishaps>>

DeliverNobody(account) ==
    /\ account = None
    /\ Clear /\ loading' = FALSE
    /\ events' = Tail(events)
    /\ UNCHANGED <<fb, exchange, mishaps>>

DeliverUnverified(account) ==
    /\ account # None /\ account.unverified
    /\ Clear /\ loading' = FALSE
    /\ fb' = None
    /\ events' = Tail(events) \o (IF fb = None THEN <<>> ELSE <<None>>)
    /\ Hap(Overtakes(None) \cup Ejected)
    /\ UNCHANGED exchange

\* The account itself, or the one that has become current since the callback was fired.
DeliverAccount(account) ==
    /\ account # None /\ ~account.unverified
    /\ events' = Tail(events)
    /\ \/ /\ user = account.uid
          /\ loading' = FALSE
          /\ UNCHANGED <<exchange, mishaps>>
       \/ /\ user # account.uid
          /\ exchange' = Exchange(IF fb = None THEN account ELSE fb, FALSE)
          /\ Hap(IF fb = None THEN {"overtaken"} ELSE {})
          /\ UNCHANGED loading
    /\ UNCHANGED <<user, fb, lastExchange>>

Deliver ==
    /\ events # <<>> /\ Ready
    /\ LET account == Head(events)
       IN DeliverNobody(account) \/ DeliverUnverified(account) \/ DeliverAccount(account)
    /\ UNCHANGED <<emails, cookie, initial, flow, page, acts, failures>>

\* The handlers that await the exchange go on: a login replaces the page, a link leaves it.
Syncing(kind) == flow[kind].step = "syncing"

Kept == [exchange EXCEPT !.step = "kept"]
Ended == NoExchange

Resume(result) ==
    IF result /\ (Syncing("password") \/ Syncing("google"))
      THEN Mounted(None, cookie) /\ code' = [code EXCEPT !.sent = 0]
      ELSE /\ exchange' = Ended
           /\ flow' = [k \in Kinds |-> IF Syncing(k) THEN Idle ELSE flow[k]]
           /\ link' = IF result /\ Syncing("magic") THEN None ELSE link
           /\ UNCHANGED <<fb, initial, events, seen, code>>

ResumeWith(u, last, result) ==
    /\ Resume(result)
    /\ \/ result /\ (Syncing("password") \/ Syncing("google"))
       \/ /\ ~(result /\ (Syncing("password") \/ Syncing("google")))
          /\ user' = u /\ loading' = FALSE /\ lastExchange' = last

ExchangeFails == ResumeWith(None, None, FALSE)

\* Mutation of AsksToken: a token is asked only for a forced exchange.
AsksTokenForced == exchange.step = "token" /\ exchange.force
AsksToken == exchange.step = "token"

GotToken ==
    /\ AsksToken
    /\ \/ /\ exchange' = [exchange EXCEPT !.step = "post"]
          /\ UNCHANGED <<fb, provider, events, flow, page, failures, mishaps>>
       \/ /\ ~exchange.force /\ lastExchange = exchange.of.uid /\ user = exchange.of.uid
          /\ ResumeWith(user, lastExchange, TRUE)
          /\ UNCHANGED <<failures, mishaps>>
       \/ ExchangeFails /\ Failure /\ Hap({"failed"})
    /\ UNCHANGED <<emails, cookie, acts>>

\* create_session refuses an unverified e-mail.
AcceptedAlways(account) == TRUE
AcceptedBy(account) == ~account.unverified

Posted ==
    /\ exchange.step = "post"
    /\ \/ /\ AcceptedBy(exchange.of)
          /\ cookie' = exchange.of.uid
          /\ lastExchange' = exchange.of.uid
          /\ exchange' = [exchange EXCEPT !.step = "load"]
          /\ Hap(IF flow["signout"].step = "leaving" THEN {"overtaken"} ELSE {})
          /\ UNCHANGED <<fb, user, loading, initial, events, flow, page, failures>>
       \/ ~AcceptedBy(exchange.of) /\ ExchangeFails /\ UNCHANGED <<cookie, failures, mishaps>>
       \/ ExchangeFails /\ Failure /\ Hap({"failed"}) /\ UNCHANGED cookie
    /\ UNCHANGED <<emails, acts>>

\* A load that fails leaves nobody, and the exchange succeeds all the same.
Loaded ==
    /\ exchange.step = "load"
    /\ \/ /\ \E u \in {exchange.of.uid} \cup (IF cookie = exchange.of.uid THEN {} ELSE {None}) :
                ResumeWith(u, lastExchange, TRUE)
          /\ UNCHANGED <<failures, mishaps>>
       \/ ResumeWith(None, lastExchange, TRUE) /\ Failure /\ Hap({"failed"})
    /\ UNCHANGED <<emails, cookie, acts>>

--------------------------------------------------------------------------------
(* The pages. *)

LoginForm(kind, u) == \/ kind = "password" /\ u \in emails.with
                      \/ kind = "google" /\ u \notin Passwords

\* These sign in and leave the session to the provider.
PhoneForm(kind, u) == kind = "confirm" /\ u \notin Passwords
SignupForm(kind, u) == kind = "confirm"

Begin(kind, u) ==
    /\ user = None /\ flow[kind] = Idle
    /\ LoginForm(kind, u) \/ PhoneForm(kind, u) \/ SignupForm(kind, u)
    /\ Act
    /\ Set(kind, "signing", u)
    /\ UNCHANGED <<emails, fb, cookie, provider, events, exchange, page, failures, mishaps>>

SignInRefused(kind) ==
    /\ flow[kind].step = "signing"
    /\ Set(kind, "idle", None)
    /\ UNCHANGED <<emails, fb, cookie, provider, events, exchange, page, acts, failures, mishaps>>

\* A login stops at an unverified e-mail; a confirmed phone leaves the exchange to the callback.
Stops(kind, account) == kind = "confirm" \/ (kind = "password" /\ account.unverified)

SignedIn(kind) ==
    /\ kind \in {"password", "google", "confirm", "magic"} /\ flow[kind].step = "signing"
    /\ LET account == Account(flow[kind].who) IN
       \/ /\ Stops(kind, account)
          /\ Becomes(account) /\ Hap(Overtakes(account))
          /\ Set(kind, "idle", None)
          /\ UNCHANGED <<user, loading, lastExchange, exchange>>
       \/ /\ ~Stops(kind, account) /\ ~account.unverified
          /\ Becomes(account) /\ Hap(Overtakes(account))
          /\ Set(kind, "syncing", flow[kind].who)
          /\ exchange' = Exchange(account, TRUE)
          /\ UNCHANGED <<user, loading, lastExchange>>
       \/ /\ ~Stops(kind, account) /\ account.unverified
          /\ fb' = None
          /\ events' = events \o (IF fb = None \/ Uid(fb) # account.uid THEN <<account, None>> ELSE <<None>>)
          /\ Clear /\ loading' = FALSE
          /\ Hap(Overtakes(account) \cup Ejected)
          /\ Set(kind, "idle", None)
          /\ UNCHANGED exchange
    /\ UNCHANGED <<emails, cookie, initial, page, acts, failures>>

\* The effects of MagicLinkPage run once for each value of loading and user.
MayRun == ~loading /\ user = None

LinkEffect ==
    /\ link # None /\ seen # <<loading, user>>
    /\ seen' = <<loading, user>>
    /\ IF MayRun
         THEN Set("magic", "code", link) /\ code' = [code EXCEPT !.sent = @ + 1]
         ELSE UNCHANGED <<flow, code>>
    /\ link' = IF ~loading /\ user # None THEN None ELSE link
    /\ UNCHANGED <<emails, fb, cookie, provider, events, exchange, acts, failures, mishaps>>

CodeAnswered ==
    /\ flow["magic"].step = "code"
    /\ \/ /\ ~code.spent
          /\ code' = [code EXCEPT !.spent = TRUE]
          /\ Set("magic", "signing", flow["magic"].who)
          /\ UNCHANGED <<failures, mishaps>>
       \/ code.spent /\ Set("magic", "idle", None) /\ UNCHANGED <<code, failures, mishaps>>
       \/ /\ \E spent \in {code.spent, TRUE} : code' = [code EXCEPT !.spent = spent]
          /\ Set("magic", "idle", None) /\ Failure /\ Hap({"failed"})
    /\ UNCHANGED <<emails, fb, cookie, provider, events, exchange, link, seen, acts>>

--------------------------------------------------------------------------------
(* The signed-in pages: ProfilePage changes the account, the menu signs out. *)

SignedInPage == ~loading /\ user # None /\ link = None

BeginProfile ==
    /\ SignedInPage /\ flow["profile"] = Idle
    /\ Act
    /\ Set("profile", "signing", None)
    /\ UNCHANGED <<emails, fb, cookie, provider, events, exchange, page, failures, mishaps>>

\* afterAuthMethodChange: a password added to an account whose e-mail is not verified signs it out.
ProfileChanged(with) ==
    /\ flow["profile"].step = "signing" /\ fb # None
    /\ emails' = [emails EXCEPT !.with = @ \cup with]
    /\ LET account == [uid |-> fb.uid, unverified |-> fb.uid \in (emails.with \cup with) \ emails.verified] IN
       \/ /\ account.unverified
          /\ Clear /\ loading' = FALSE
          /\ Becomes(None) /\ Hap(Overtakes(None) \cup Ejected)
          /\ Set("profile", "idle", None)
          /\ UNCHANGED exchange
       \/ /\ ~account.unverified
          /\ Becomes(account)
          /\ exchange' = Exchange(account, TRUE)
          /\ Set("profile", "syncing", None)
          /\ UNCHANGED <<user, loading, lastExchange, mishaps>>
    /\ UNCHANGED <<cookie, initial, page, acts, failures>>

BeginSignOut ==
    /\ SignedInPage /\ flow["signout"] = Idle
    /\ Act
    /\ Set("signout", "logout", None)
    /\ UNCHANGED <<emails, fb, cookie, provider, events, exchange, page, failures, mishaps>>

LoggedOut ==
    /\ flow["signout"].step = "logout"
    /\ Set("signout", "leaving", None)
    /\ \/ cookie' = None /\ UNCHANGED <<failures, mishaps>>
       \/ Failure /\ Hap({"failed"}) /\ UNCHANGED cookie
    /\ UNCHANGED <<emails, fb, provider, events, exchange, page, acts>>

SignedOut ==
    /\ flow["signout"].step = "leaving"
    /\ Becomes(None) /\ Clear
    /\ Hap(Overtakes(None))
    /\ Set("signout", "idle", None)
    /\ UNCHANGED <<emails, cookie, loading, initial, exchange, page, acts, failures>>

--------------------------------------------------------------------------------
(* The rest of the world. *)

VerifyEmail(u) ==
    /\ u \in emails.with \ emails.verified
    /\ emails' = [emails EXCEPT !.verified = @ \cup {u}]
    /\ UNCHANGED <<fb, cookie, provider, events, exchange, flow, page, acts, failures, mishaps>>

\* Another tab signs out: the browser's Firebase session and the cookie are shared.
SignedOutElsewhere ==
    /\ fb # None /\ Act
    /\ Becomes(None) /\ cookie' = None
    /\ Hap(Overtakes(None))
    /\ UNCHANGED <<emails, provider, exchange, flow, page, failures>>

\* The answer to a post in flight may still set the cookie.
Reload ==
    /\ Act
    /\ \E jar \in {cookie} \cup (IF exchange.step = "post" /\ AcceptedBy(exchange.of)
                               THEN {exchange.of.uid} ELSE {}) :
         cookie' = jar /\ Mounted(link, jar)
    /\ code' = [code EXCEPT !.sent = 0]
    /\ Hap(IF InFlight \/ flow["signout"] # Idle THEN {"overtaken"} ELSE {})
    /\ UNCHANGED <<emails, failures>>

\* A browser that was signed in or not, whose cookie may have expired, opens the site or a magic link.
Init ==
    /\ emails = [with |-> Passwords, verified |-> {}]
    /\ fb \in {None} \cup {[uid |-> u, unverified |-> FALSE] : u \in Users \ Passwords}
    /\ cookie \in {None, Uid(fb)}
    /\ user = None /\ loading = TRUE /\ lastExchange = None
    /\ initial = [done |-> FALSE, answer |-> cookie]
    /\ events = <<fb>>
    /\ exchange = NoExchange
    /\ flow = [k \in Kinds |-> Idle]
    /\ link \in {None} \cup (Users \ Passwords) /\ seen = None
    /\ code = [sent |-> 0, spent |-> FALSE]
    /\ \E b \in Bounds : acts = b.acts /\ failures = b.failures
    /\ mishaps = {}

Browser == InitialAnswered \/ Deliver \/ GotToken \/ Posted \/ Loaded \/ LinkEffect \/ CodeAnswered
           \/ LoggedOut \/ SignedOut

Answer == (\E k \in Kinds : SignedIn(k)) \/ (\E with \in {{}, {Uid(fb)} \ {None}} : ProfileChanged(with))

Person == (\E k \in {"password", "google", "confirm"}, u \in Users : Begin(k, u))
          \/ BeginProfile \/ BeginSignOut \/ SignedOutElsewhere \/ Reload

Next == Browser \/ Answer \/ (\E k \in Kinds : SignInRefused(k)) \/ Person \/ (\E u \in Users : VerifyEmail(u))

Fairness == WF_vars(Browser) /\ WF_vars(Answer \/ \E k \in Kinds : SignInRefused(k))

Spec == Init /\ [][Next]_vars /\ Fairness
--------------------------------------------------------------------------------
(* Properties *)

\* Every variable keeps its type.
SessionTypeOK ==
    /\ emails.verified \subseteq emails.with /\ emails.with \subseteq Users
    /\ fb \in Accounts \cup {None}
    /\ {cookie, user, lastExchange, link, initial.answer} \subseteq Users \cup {None}
    /\ {loading, initial.done, code.spent} \subseteq BOOLEAN
    /\ events \in Seq(Accounts \cup {None})
    /\ exchange \in [step : {"none", "token", "post", "load"}, of : Accounts \cup {None}, force : BOOLEAN]
    /\ flow \in [Kinds -> [step : {"idle", "signing", "syncing", "code", "logout", "leaving"},
                           who : Users \cup {None}]]
    /\ mishaps \subseteq Mishaps

Quiet == initial.done /\ events = <<>> /\ ~InFlight /\ \A k \in Kinds : flow[k].step = "idle"

\* The application is never left showing one account while the browser is signed in to another,
\* or to none (AuthProvider.tsx): neither a late initial load nor a failed request does it, only an
\* account that changes while an exchange is in flight, whose answer everybody shares.
NeverAnother ==
    Quiet /\ "overtaken" \notin mishaps => user \in {None, Uid(fb)}

\* When no request failed, no exchange was overtaken and no session was left behind by a forced
\* sign-out, the three sessions end up with the same account or all with none, whatever order the
\* callbacks, answers and handlers came in.
Agreement ==
    Quiet /\ mishaps = {} => user = Uid(fb) /\ cookie = Uid(fb)

\* A one-time code is sent once, however often the page's effect runs (MagicLinkPage.tsx: "Avoid
\* double-run if AuthProvider is still loading a user").
CodeOnce == code.sent <= 1

\* The sessions of Firebase, the service and the page agree when they come to rest, as far as
\* requests, exchanges and sign-outs let them (AuthProvider.tsx), and no code is spent twice.
SessionSafe == SessionTypeOK /\ NeverAnother /\ Agreement /\ CodeOnce

\* No session is opened for an account whose e-mail is unverified: the page checks the account of the
\* callback but may send the token of another, and the service refuses that one.
VerifiedSessions ==
    [][cookie' \notin {cookie, None} /\ "overtaken" \notin mishaps'
        => cookie' \notin emails.with \ emails.verified]_vars

\* A browser that is signed in to Firebase gets a session, unless something goes wrong on the way.
SessionFollows ==
    \A u \in Users :
        fb = [uid |-> u, unverified |-> FALSE] ~> (user = u \/ Uid(fb) # u \/ mishaps # {})
================================================================================
