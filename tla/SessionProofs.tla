----------------------------- MODULE SessionProofs -----------------------------
(***************************************************************************)
(* Proofs about Session, for any accounts and bounds: at rest the page,    *)
(* Firebase and the service agree, unless a request failed, an exchange    *)
(* was overtaken or a forced sign-out left a session behind.               *)
(***************************************************************************)
EXTENDS Session, SequenceTheorems, TLAPS

Person0 == Users \cup {None}
Callbacks == Accounts \cup {None}
Flow == [step : {"idle", "signing", "syncing", "code", "logout", "leaving"}, who : Person0]

Logins == {"password", "google", "confirm", "magic"}

Types ==
    /\ emails \in [with : SUBSET Users, verified : SUBSET Users]
    /\ emails.verified \subseteq emails.with
    /\ fb \in Callbacks
    /\ cookie \in Person0 /\ user \in Person0 /\ lastExchange \in Person0 /\ link \in Person0
    /\ loading \in BOOLEAN
    /\ initial \in [done : BOOLEAN, answer : Person0]
    /\ events \in Seq(Callbacks)
    /\ exchange \in [step : {"none", "token", "post", "load"}, of : Callbacks, force : BOOLEAN]
    /\ flow \in [Kinds -> Flow] /\ \A k \in Logins : flow[k].step # "idle" => flow[k].who \in Users
    /\ code \in [sent : Nat, spent : BOOLEAN]
    /\ mishaps \subseteq Mishaps

Newest(s) == s[Len(s)]
Leaving == flow["signout"].step = "leaving"
Opened == \E k \in {"signout", "magic", "profile"} : flow[k].step # "idle"
LoggingIn == Syncing("password") \/ Syncing("google")
NobodyWaits == \E i \in 1..Len(events) : events[i] = None
Unverified(u) == u \in emails.with \ emails.verified

\* The last callback that waits is of the account that is signed in; there is one until the
\* initial load is answered, and as long as that account is unverified.
CallbacksFollow ==
    /\ events # <<>> => Uid(Newest(events)) = Uid(fb)
    /\ ~initial.done => events # <<>>
    /\ fb # None /\ ~fb.unverified => ~Unverified(fb.uid)
    /\ fb # None /\ fb.unverified => events # <<>> /\ Newest(events) = fb

\* An exchange is of an account; that of an unverified one is begun by a callback, and refused.
FlightOfAccount ==
    InFlight => /\ exchange.of # None
                /\ exchange.of.unverified => initial.done /\ exchange.step # "load"

\* Once the code was sent, the effect does not send it again before the document is another.
CodeSent ==
    /\ code.sent \in {0, 1}
    /\ code.sent = 1 => ~loading /\ (link = None \/ seen = <<FALSE, None>>)

\* Unless an exchange was overtaken, it is of the account that is signed in (or one that is
\* refused), and what it and the callbacks leave is that account or nobody.
NotOvertaken ==
    /\ InFlight => \/ exchange.of.uid = Uid(fb)
                   \/ exchange.of.unverified /\ fb = None /\ (user = None \/ NobodyWaits)
    /\ InFlight /\ ~exchange.of.unverified => ~Unverified(exchange.of.uid)
    /\ initial.done /\ events = <<>> /\ ~InFlight => user \in {None, Uid(fb)}

\* Unless something happened, a session apart from the account is one that is about to change:
\* a callback of nobody waits, an exchange loads, or a sign-out is on its way.
Together ==
    /\ exchange.step = "load" => cookie = exchange.of.uid \/ Leaving
    /\ Leaving => cookie = None
    /\ fb = None => cookie = None
    /\ InFlight /\ exchange.of.unverified /\ fb # None =>
          events # <<>> /\ Newest(events) # None /\ Newest(events).unverified
    /\ ~initial.done /\ (~loading \/ Opened) => NobodyWaits
    /\ ~initial.done /\ InFlight => LoggingIn \/ NobodyWaits
    /\ ~initial.done /\ initial.answer \notin {None, cookie} => NobodyWaits \/ exchange.step = "load"
    /\ user \notin {None, cookie} /\ ~Leaving => NobodyWaits \/ exchange.step = "load"
    /\ initial.done /\ events = <<>> /\ ~InFlight /\ ~Leaving => user = Uid(fb) /\ cookie = Uid(fb)

SessionInv ==
    /\ Types /\ CallbacksFollow /\ FlightOfAccount /\ CodeSent
    /\ "overtaken" \notin mishaps => NotOvertaken
    /\ mishaps = {} => Together

--------------------------------------------------------------------------------
(* Callbacks. *)

LEMMA Values ==
    /\ None \notin Users /\ None \notin Accounts /\ Passwords \subseteq Users
    /\ \A a \in Accounts : a # None /\ a.uid \in Users /\ a.uid # None /\ a.unverified \in BOOLEAN
    /\ Uid(None) = None /\ \A a \in Accounts : Uid(a) = a.uid
    /\ \A a \in Callbacks : Uid(a) \in Person0 /\ (Uid(a) = None <=> a = None)
    /\ {"failed", "overtaken", "ejected"} \subseteq Mishaps
    /\ Logins \subseteq Kinds /\ {"signout", "magic", "profile"} \subseteq Kinds
    /\ NoExchange.step = "none" /\ Idle.step = "idle" /\ Idle \in Flow
    /\ NoExchange \in [step : {"none", "token", "post", "load"}, of : Callbacks, force : BOOLEAN]
BY SessionAssumption, NobodyAssumption DEF Accounts, Uid, Callbacks, Person0, Mishaps, NoExchange, Idle,
   Flow, Kinds, Logins

LEMMA Appended ==
    ASSUME NEW s \in Seq(Callbacks), NEW x \in Callbacks
    PROVE  /\ Append(s, x) \in Seq(Callbacks) /\ Append(s, x) # <<>> /\ Newest(Append(s, x)) = x
           /\ \A i \in 1..Len(s) : i \in 1..Len(Append(s, x)) /\ Append(s, x)[i] = s[i]
           /\ \E i \in 1..Len(Append(s, x)) : Append(s, x)[i] = x
BY DEF Newest

LEMMA Delivered ==
    ASSUME NEW s \in Seq(Callbacks), s # <<>>
    PROVE  /\ Tail(s) \in Seq(Callbacks) /\ Head(s) \in Callbacks
           /\ Tail(s) # <<>> => Newest(Tail(s)) = Newest(s)
           /\ Tail(s) = <<>> => Newest(s) = Head(s)
           /\ \A i \in 1..Len(s) : s[i] = Head(s) \/ \E j \in 1..Len(Tail(s)) : Tail(s)[j] = s[i]
<1>1. Len(s) \in Nat \ {0} /\ Len(Tail(s)) = Len(s) - 1 /\ Head(s) = s[1]
  OBVIOUS
<1>2. \A i \in 1..Len(s) : i # 1 => i - 1 \in 1..Len(Tail(s)) /\ Tail(s)[i - 1] = s[i]
  BY <1>1
<1>3. \A i \in 1..Len(s) : s[i] = Head(s) \/ \E j \in 1..Len(Tail(s)) : Tail(s)[j] = s[i]
  BY <1>1, <1>2
<1>4. Tail(s) # <<>> => Newest(Tail(s)) = Newest(s)
  BY DEF Newest
<1>5. Tail(s) = <<>> => Newest(s) = Head(s)
  <2>1. Tail(s) = <<>> => Len(Tail(s)) = 0
    BY EmptySeq
  <2> QED
    BY <1>1, <2>1 DEF Newest
<1> QED
  BY <1>3, <1>4, <1>5

LEMMA Joined ==
    ASSUME NEW s \in Seq(Callbacks), NEW x \in Callbacks, NEW y \in Callbacks
    PROVE  s \o <<x>> = Append(s, x) /\ s \o <<x, y>> = Append(Append(s, x), y) /\ s \o <<>> = s
<1>1. s \o <<x>> = Append(s, x) /\ s \o <<>> = s
  BY AppendIsConcat, ConcatEmptySeq
<1>2. <<x>> \in Seq(Callbacks) /\ <<y>> \in Seq(Callbacks) /\ <<x>> \o <<y>> = <<x, y>>
  <2>1. <<x>> \in Seq(Callbacks) /\ <<y>> \in Seq(Callbacks) /\ <<x, y>> \in Seq(Callbacks)
    OBVIOUS
  <2>2. Append(<<x>>, y) = <<x>> \o <<y>>
    BY <2>1, AppendIsConcat
  <2>3. Append(<<x>>, y) = <<x, y>>
    <3>1. Append(<<x>>, y) \in Seq(Callbacks) /\ Len(Append(<<x>>, y)) = 2
          /\ Append(<<x>>, y)[1] = x /\ Append(<<x>>, y)[2] = y
      BY <2>1, AppendProperties
    <3>2. Len(<<x, y>>) = 2 /\ \A i \in 1..2 : Append(<<x>>, y)[i] = <<x, y>>[i]
      BY <3>1
    <3> QED
      BY <2>1, <3>1, <3>2, SeqEqual
  <2> QED
    BY <2>1, <2>2, <2>3
<1>3. Append(Append(s, x), y) = (s \o <<x>>) \o <<y>>
  <2>1. Append(s, x) \in Seq(Callbacks)
    BY AppendProperties
  <2>2. Append(Append(s, x), y) = Append(s, x) \o <<y>>
    BY <2>1, AppendIsConcat
  <2>3. Append(s, x) = s \o <<x>>
    BY <1>1
  <2> QED
    BY <2>2, <2>3
<1>4. (s \o <<x>>) \o <<y>> = s \o (<<x>> \o <<y>>)
  BY <1>2, ConcatAssociative
<1>5. s \o <<x, y>> = s \o (<<x>> \o <<y>>)
  BY <1>2, Zenon
<1> QED
  BY <1>1, <1>3, <1>4, <1>5, Zenon

\* The account becomes another one: its callback is the last that waits.
LEMMA BecomesStep ==
    ASSUME Types, CallbacksFollow, NEW account \in Callbacks, Becomes(account)
    PROVE  /\ fb' = account /\ events' \in Seq(Callbacks)
           /\ events # <<>> => events' # <<>>
           /\ NobodyWaits => NobodyWaits'
           /\ events' # <<>> => Uid(Newest(events')) = Uid(account)
           /\ Uid(account) # Uid(fb) => events' # <<>> /\ Newest(events') = account
           /\ Uid(account) = Uid(fb) => events' = events
           /\ account = None /\ events' # <<>> => NobodyWaits'
<1>1. events \in Seq(Callbacks) /\ fb \in Callbacks
  BY DEF Types
<1>2. CASE Uid(account) = Uid(fb)
  <2>1. fb' = account /\ events' = events
    BY <1>2 DEF Becomes
  <2>2. events # <<>> => Uid(Newest(events)) = Uid(account) /\ Len(events) \in 1..Len(events)
    BY <1>1, <1>2 DEF CallbacksFollow
  <2>3. events # <<>> => Newest(events) \in Callbacks
    BY <1>1, <2>2 DEF Newest
  <2>4. account = None /\ events # <<>> => NobodyWaits
    BY <2>2, <2>3, Values DEF NobodyWaits, Newest
  <2> QED
    BY <1>1, <1>2, <2>1, <2>2, <2>4 DEF NobodyWaits
<1>3. CASE Uid(account) # Uid(fb)
  <2>1. fb' = account /\ events' = Append(events, account)
    BY <1>3 DEF Becomes
  <2>2. /\ events' \in Seq(Callbacks) /\ events' # <<>> /\ Newest(events') = account
        /\ \A i \in 1..Len(events) : i \in 1..Len(events') /\ events'[i] = events[i]
        /\ \E i \in 1..Len(events') : events'[i] = account
    BY <1>1, <2>1, Appended
  <2>3. NobodyWaits => NobodyWaits'
    BY <2>2 DEF NobodyWaits
  <2>4. account = None => NobodyWaits'
    BY <2>2 DEF NobodyWaits
  <2> QED
    BY <1>3, <2>1, <2>2, <2>3, <2>4
<1> QED
  BY <1>2, <1>3

\* When nobody is signed in and a callback waits, one of nobody does.
LEMMA LastOfNobody ==
    ASSUME Types, CallbacksFollow, fb = None, events # <<>>
    PROVE  NobodyWaits
<1>1. Len(events) \in 1..Len(events) /\ Newest(events) \in Callbacks
  BY DEF Types, Newest
<1>2. Uid(Newest(events)) = None
  BY Values DEF CallbacksFollow
<1> QED
  BY <1>1, <1>2, Values DEF NobodyWaits, Newest

--------------------------------------------------------------------------------
(* A document that begins, and an exchange that ends. *)

LEMMA MountedStep ==
    ASSUME SessionInv, NEW with \in Person0, NEW jar \in Person0, Mounted(with, jar),
           cookie' = jar, emails' = emails, code' = [code EXCEPT !.sent = 0],
           mishaps' \subseteq Mishaps, mishaps' = {} => mishaps = {} /\ jar = cookie
    PROVE  SessionInv'
<1>1. Types /\ CallbacksFollow
  BY DEF SessionInv
<1>2. /\ user' = None /\ loading' = TRUE /\ lastExchange' = None
      /\ initial' = [done |-> FALSE, answer |-> jar]
      /\ fb' = fb /\ events' = <<fb>> /\ exchange' = NoExchange
      /\ flow' = [k \in Kinds |-> Idle] /\ link' = with
  BY DEF Mounted
<1>3. /\ events' \in Seq(Callbacks) /\ events' # <<>> /\ Newest(events') = fb'
      /\ fb' = None => NobodyWaits'
  BY <1>1, <1>2 DEF Types, Newest, NobodyWaits
<1>4. Types'
  <2>1. /\ emails' \in [with : SUBSET Users, verified : SUBSET Users] /\ emails'.verified \subseteq emails'.with
        /\ fb' \in Callbacks /\ code' \in [sent : Nat, spent : BOOLEAN] /\ mishaps' \subseteq Mishaps
    BY <1>1, <1>2 DEF Types
  <2>2. /\ cookie' \in Person0 /\ user' \in Person0 /\ lastExchange' \in Person0 /\ link' \in Person0
        /\ loading' \in BOOLEAN /\ initial' \in [done : BOOLEAN, answer : Person0]
    BY <1>2 DEF Person0
  <2>3. /\ exchange' \in [step : {"none", "token", "post", "load"}, of : Callbacks, force : BOOLEAN]
        /\ flow' \in [Kinds -> Flow] /\ \A k \in Logins : flow'[k].step = "idle"
    BY <1>2, Values
  <2> QED
    BY <1>3, <2>1, <2>2, <2>3 DEF Types
<1>5. CallbacksFollow'
  BY <1>1, <1>2, <1>3 DEF CallbacksFollow, Unverified
<1>6. ~InFlight' /\ ~Leaving' /\ ~Opened' /\ initial'.done = FALSE /\ initial'.answer = jar
  BY <1>2, Values DEF InFlight, Leaving, Opened, Kinds
<1>7. FlightOfAccount' /\ CodeSent' /\ NotOvertaken'
  BY <1>1, <1>2, <1>6 DEF FlightOfAccount, CodeSent, NotOvertaken, Types
<1>8. ASSUME mishaps' = {} PROVE Together'
  <2>1. fb = None => cookie = None
    BY <1>8 DEF SessionInv, Together
  <2>2. exchange'.step # "load"
    BY <1>2, Values
  <2> QED
    BY <1>2, <1>6, <1>8, <2>1, <2>2 DEF Together
<1> QED
  BY <1>4, <1>5, <1>7, <1>8 DEF SessionInv

\* The handlers go on: a login that succeeds begins a document; otherwise user becomes u.
LEMMA ResumeStep ==
    ASSUME SessionInv, InFlight, NEW u \in Person0, NEW last \in Person0, NEW result \in BOOLEAN,
           ResumeWith(u, last, result), UNCHANGED <<emails, cookie>>,
           mishaps \subseteq mishaps', mishaps' \subseteq Mishaps,
           "overtaken" \notin mishaps' /\ events = <<>> => u \in {None, Uid(fb)},
           mishaps' = {} /\ ~initial.done => result,
           mishaps' = {} /\ u \notin {None, cookie} /\ ~Leaving => NobodyWaits,
           mishaps' = {} /\ initial.done /\ events = <<>> /\ ~Leaving => u = Uid(fb) /\ cookie = Uid(fb)
    PROVE  SessionInv'
<1>1. Types /\ CallbacksFollow /\ FlightOfAccount /\ CodeSent
  BY DEF SessionInv
<1>2. CASE result /\ LoggingIn
  <2>1. Mounted(None, cookie) /\ code' = [code EXCEPT !.sent = 0]
    BY <1>2 DEF ResumeWith, Resume, LoggingIn
  <2>2. mishaps' = {} => mishaps = {}
    OBVIOUS
  <2> QED
    BY <1>1, <2>1, <2>2, MountedStep DEF Types, Person0
<1>3. CASE ~(result /\ LoggingIn)
  <2>1. /\ exchange' = NoExchange
        /\ flow' = [k \in Kinds |-> IF Syncing(k) THEN Idle ELSE flow[k]]
        /\ link' \in {None, link} /\ UNCHANGED <<fb, initial, events, seen, code>>
        /\ user' = u /\ loading' = FALSE /\ lastExchange' = last
    BY <1>3 DEF ResumeWith, Resume, LoggingIn, Ended
  <2>2. Leaving' <=> Leaving
    BY <1>1, <2>1, Values DEF Leaving, Types, Kinds, Syncing
  <2>3. Types'
    BY <1>1, <2>1, Values DEF Types, Person0
  <2>4. ~InFlight' /\ exchange'.step # "load" /\ (NobodyWaits' <=> NobodyWaits)
    BY <2>1, Values DEF InFlight, NobodyWaits
  <2>5. CallbacksFollow' /\ FlightOfAccount'
    BY <1>1, <2>1, <2>4 DEF CallbacksFollow, FlightOfAccount, Unverified
  <2>6. CodeSent'
    BY <1>1, <2>1 DEF CodeSent
  <2>7. "overtaken" \notin mishaps' => NotOvertaken'
    BY <2>1, <2>4 DEF NotOvertaken
  <2>8. ASSUME mishaps' = {} PROVE Together'
    <3>1. Together /\ mishaps = {}
      BY <2>8 DEF SessionInv
    <3>2. ~initial.done => NobodyWaits
      BY <1>3, <2>8, <3>1 DEF Together
    <3>3. /\ (Leaving => cookie = None) /\ (fb = None => cookie = None)
          /\ ~initial.done /\ initial.answer \notin {None, cookie} => NobodyWaits
      BY <3>1, <3>2 DEF Together
    <3> QED
      BY <2>1, <2>2, <2>4, <2>8, <3>2, <3>3 DEF Together
  <2> QED
    BY <2>3, <2>5, <2>6, <2>7, <2>8 DEF SessionInv
<1> QED
  BY <1>2, <1>3

\* A handler moves on, and nothing else.
LEMMA FlowStep ==
    ASSUME SessionInv, UNCHANGED <<emails, fb, cookie, provider, events, exchange>>,
           flow' \in [Kinds -> Flow], LoggingIn => LoggingIn',
           \A k \in Logins : flow'[k].step # "idle" => flow'[k].who \in Users,
           mishaps \subseteq mishaps', mishaps' \subseteq Mishaps,
           mishaps' = {} => (Leaving' <=> Leaving), Opened' => Opened \/ ~loading,
           link' \in {link, None}, code' \in [sent : Nat, spent : BOOLEAN], CodeSent'
    PROVE  SessionInv'
<1>1. Types /\ CallbacksFollow /\ FlightOfAccount
  BY DEF SessionInv
<1>2. Types'
  BY <1>1 DEF Types, provider, Person0
<1>3. CallbacksFollow' /\ FlightOfAccount'
  BY <1>1 DEF CallbacksFollow, FlightOfAccount, Unverified, InFlight, provider
<1>4. "overtaken" \notin mishaps' => NotOvertaken'
  BY DEF SessionInv, NotOvertaken, Unverified, InFlight, NobodyWaits, provider
<1>5. ASSUME mishaps' = {} PROVE Together'
  <2>1. Together /\ mishaps = {}
    BY <1>5 DEF SessionInv
  <2>2. /\ (NobodyWaits' <=> NobodyWaits) /\ (InFlight' <=> InFlight) /\ (Leaving' <=> Leaving)
        /\ UNCHANGED <<user, loading, initial>>
    BY <1>5 DEF NobodyWaits, InFlight, provider
  <2> QED
    BY <2>1, <2>2 DEF Together
<1> QED
  BY <1>2, <1>3, <1>4, <1>5 DEF SessionInv

--------------------------------------------------------------------------------
(* The provider. *)

LEMMA InitialStep ==
    ASSUME SessionInv, InitialAnswered
    PROVE  SessionInv'
<1>1. Types /\ CallbacksFollow /\ FlightOfAccount /\ CodeSent
  BY DEF SessionInv
<1>2. /\ UNCHANGED <<emails, fb, cookie, lastExchange, events, exchange, flow, link, seen, code>>
      /\ initial' = [done |-> TRUE, answer |-> None] /\ loading' = FALSE /\ ~initial.done
      /\ user' \in {None, initial.answer}
      /\ mishaps \subseteq mishaps' /\ mishaps' \subseteq Mishaps /\ (mishaps' = {} => mishaps = {})
      /\ "overtaken" \notin mishaps' => "overtaken" \notin mishaps
  BY <1>1, Values DEF InitialAnswered, page, Hap, Types
<1>3. Types'
  BY <1>1, <1>2 DEF Types, Person0
<1>4. events # <<>>
  BY <1>1, <1>2 DEF CallbacksFollow
<1>5. CallbacksFollow'
  BY <1>1, <1>2, <1>4 DEF CallbacksFollow, Unverified
<1>6. FlightOfAccount' /\ CodeSent'
  BY <1>1, <1>2 DEF FlightOfAccount, CodeSent, InFlight
<1>7. ASSUME "overtaken" \notin mishaps' PROVE NotOvertaken'
  <2>1. NotOvertaken
    BY <1>2, <1>7 DEF SessionInv
  <2>2. InFlight => ~exchange.of.unverified
    BY <1>1, <1>2 DEF FlightOfAccount
  <2> QED
    BY <1>2, <1>4, <2>1, <2>2, <1>1, Values DEF NotOvertaken, InFlight, Unverified, Types, FlightOfAccount
<1>8. ASSUME mishaps' = {} PROVE Together'
  <2>1. Together
    BY <1>2, <1>8 DEF SessionInv
  <2>2. user' \notin {None, cookie} => NobodyWaits \/ exchange.step = "load"
    BY <1>2, <2>1 DEF Together
  <2>3. (NobodyWaits' <=> NobodyWaits) /\ (InFlight' <=> InFlight) /\ (Leaving' <=> Leaving)
        /\ initial'.done
    BY <1>2 DEF NobodyWaits, InFlight, Leaving
  <2> QED
    BY <1>2, <1>4, <2>1, <2>2, <2>3 DEF Together
<1> QED
  BY <1>2, <1>3, <1>5, <1>6, <1>7, <1>8 DEF SessionInv

LEMMA GotTokenStep ==
    ASSUME SessionInv, GotToken
    PROVE  SessionInv'
<1>1. Types /\ CallbacksFollow /\ FlightOfAccount /\ CodeSent
  BY DEF SessionInv
<1>2. exchange.step = "token" /\ InFlight /\ UNCHANGED <<emails, cookie>>
  BY DEF GotToken, AsksToken, InFlight
<1>3. user \in Person0 /\ lastExchange \in Person0 /\ None \in Person0 /\ mishaps \subseteq Mishaps
  BY <1>1 DEF Types, Person0
<1>4. CASE /\ exchange' = [exchange EXCEPT !.step = "post"]
           /\ UNCHANGED <<fb, provider, events, flow, page, failures, mishaps>>
  <2>1. Types' /\ InFlight' /\ exchange'.of = exchange.of /\ exchange'.step = "post"
    BY <1>1, <1>2, <1>4 DEF Types, provider, page, InFlight
  <2>2. CallbacksFollow' /\ FlightOfAccount' /\ CodeSent'
    BY <1>1, <1>2, <1>4, <2>1 DEF CallbacksFollow, FlightOfAccount, CodeSent, Unverified, provider, page
  <2>3. "overtaken" \notin mishaps' => NotOvertaken'
    BY <1>2, <1>4, <2>1 DEF SessionInv, NotOvertaken, Unverified, NobodyWaits, provider
  <2>4. ASSUME mishaps' = {} PROVE Together'
    <3>1. Together /\ exchange.step # "load"
      BY <1>2, <1>4, <2>4 DEF SessionInv
    <3>2. (NobodyWaits' <=> NobodyWaits) /\ (Leaving' <=> Leaving) /\ (LoggingIn' <=> LoggingIn)
         /\ (Opened' <=> Opened)
      BY <1>4 DEF NobodyWaits, Leaving, Opened, LoggingIn, Syncing
    <3> QED
      BY <1>2, <1>4, <2>1, <3>1, <3>2 DEF Together, provider
  <2> QED
    BY <1>3, <1>4, <2>1, <2>2, <2>3, <2>4 DEF SessionInv
<1>5. CASE /\ lastExchange = exchange.of.uid /\ user = exchange.of.uid
           /\ ResumeWith(user, lastExchange, TRUE) /\ UNCHANGED <<failures, mishaps>>
  <2>1. "overtaken" \notin mishaps /\ events = <<>> => user \in {None, Uid(fb)}
    <3> SUFFICES ASSUME "overtaken" \notin mishaps, events = <<>> PROVE user \in {None, Uid(fb)}
      OBVIOUS
    <3>1. NotOvertaken
      BY DEF SessionInv
    <3>2. CASE exchange.of.uid = Uid(fb)
      BY <1>5, <3>2
    <3>3. CASE user = None \/ NobodyWaits
      BY <3>3, <1>1 DEF NobodyWaits, Types
    <3> QED
      BY <1>2, <3>1, <3>2, <3>3 DEF NotOvertaken
  <2>2. ASSUME mishaps = {}
        PROVE  /\ user \notin {None, cookie} /\ ~Leaving => NobodyWaits
               /\ initial.done /\ events = <<>> /\ ~Leaving => user = Uid(fb) /\ cookie = Uid(fb)
    <3>1. Together /\ exchange.step # "load" /\ NotOvertaken
      BY <1>2, <2>2 DEF SessionInv
    <3>2. user \notin {None, cookie} /\ ~Leaving => NobodyWaits
      BY <3>1 DEF Together
    <3>3. user # None
      BY <1>1, <1>2, <1>5, Values DEF Types, Callbacks, FlightOfAccount
    <3>4. ASSUME initial.done, events = <<>>, ~Leaving PROVE user = Uid(fb) /\ cookie = Uid(fb)
      <4>1. ~NobodyWaits
        BY <3>4, <1>1 DEF NobodyWaits, Types
      <4>2. user = cookie /\ user = Uid(fb)
        BY <2>1, <2>2, <3>2, <3>3, <3>4, <4>1
      <4> QED
        BY <4>2
    <3> QED
      BY <3>2, <3>4
  <2> QED
    BY <1>1, <1>2, <1>3, <1>5, <2>1, <2>2, ResumeStep
<1>6. CASE ExchangeFails /\ Failure /\ Hap({"failed"})
  <2>1. mishaps' # {} /\ mishaps \subseteq mishaps' /\ mishaps' \subseteq Mishaps
    BY <1>3, <1>6, Values DEF Hap
  <2> QED
    BY <1>1, <1>2, <1>3, <1>6, <2>1, ResumeStep DEF ExchangeFails
<1> QED
  BY <1>4, <1>5, <1>6 DEF GotToken

LEMMA PostedStep ==
    ASSUME SessionInv, Posted
    PROVE  SessionInv'
<1>1. Types /\ CallbacksFollow /\ FlightOfAccount /\ CodeSent
  BY DEF SessionInv
<1>2. exchange.step = "post" /\ InFlight /\ emails' = emails
  BY DEF Posted, InFlight
<1>3. None \in Person0 /\ mishaps \subseteq Mishaps
  BY <1>1 DEF Types, Person0
<1>4. exchange.of \in Accounts /\ exchange.of.uid \in Users /\ exchange.of.uid # None
  BY <1>1, <1>2, Values DEF FlightOfAccount, Types, Callbacks
<1>5. CASE /\ AcceptedBy(exchange.of)
           /\ cookie' = exchange.of.uid
           /\ lastExchange' = exchange.of.uid
           /\ exchange' = [exchange EXCEPT !.step = "load"]
           /\ Hap(IF flow["signout"].step = "leaving" THEN {"overtaken"} ELSE {})
           /\ UNCHANGED <<fb, user, loading, initial, events, flow, page, failures>>
  <2>1. /\ mishaps' \subseteq Mishaps /\ mishaps \subseteq mishaps'
        /\ "overtaken" \notin mishaps' => "overtaken" \notin mishaps
        /\ mishaps' = {} => mishaps = {} /\ ~Leaving
    BY <1>3, <1>5, Values DEF Hap, Leaving
  <2>2. InFlight' /\ exchange'.of = exchange.of /\ exchange'.step = "load" /\ ~exchange.of.unverified
    BY <1>1, <1>5 DEF InFlight, AcceptedBy, Types
  <2>3. Types'
    BY <1>1, <1>2, <1>4, <1>5, <2>1 DEF Types, page, Person0
  <2>4. CallbacksFollow' /\ FlightOfAccount' /\ CodeSent'
    BY <1>1, <1>2, <1>5, <2>2 DEF CallbacksFollow, FlightOfAccount, CodeSent, Unverified, page
  <2>5. "overtaken" \notin mishaps' => NotOvertaken'
    BY <1>2, <1>5, <2>1, <2>2 DEF SessionInv, NotOvertaken, Unverified, NobodyWaits
  <2>6. ASSUME mishaps' = {} PROVE Together'
    <3>1. Together /\ NotOvertaken /\ ~Leaving
      BY <2>1, <2>6 DEF SessionInv
    <3>2. (NobodyWaits' <=> NobodyWaits) /\ (Leaving' <=> Leaving) /\ (LoggingIn' <=> LoggingIn)
         /\ (Opened' <=> Opened)
      BY <1>5 DEF NobodyWaits, Leaving, Opened, LoggingIn, Syncing
    <3>3. fb # None
      BY <1>2, <1>4, <2>2, <3>1, Values DEF NotOvertaken
    <3> QED
      BY <1>2, <1>5, <2>2, <3>1, <3>2, <3>3 DEF Together
  <2> QED
    BY <2>1, <2>3, <2>4, <2>5, <2>6 DEF SessionInv
<1>6. CASE ~AcceptedBy(exchange.of) /\ ExchangeFails /\ UNCHANGED <<cookie, failures, mishaps>>
  <2>1. exchange.of.unverified /\ initial.done
    BY <1>1, <1>2, <1>6 DEF AcceptedBy, FlightOfAccount
  <2>2. ASSUME mishaps = {}, events = <<>>, ~Leaving PROVE None = Uid(fb) /\ cookie = Uid(fb)
    <3>1. Together
      BY <2>2 DEF SessionInv
    <3>2. fb = None /\ cookie = None
      BY <1>2, <2>1, <2>2, <3>1 DEF Together
    <3> QED
      BY <3>2, Values
  <2> QED
    BY <1>1, <1>2, <1>3, <1>6, <2>1, <2>2, ResumeStep DEF ExchangeFails
<1>7. CASE ExchangeFails /\ Failure /\ Hap({"failed"}) /\ UNCHANGED cookie
  <2>1. mishaps' # {} /\ mishaps \subseteq mishaps' /\ mishaps' \subseteq Mishaps
    BY <1>3, <1>7, Values DEF Hap
  <2> QED
    BY <1>1, <1>2, <1>3, <1>7, <2>1, ResumeStep DEF ExchangeFails
<1> QED
  BY <1>5, <1>6, <1>7 DEF Posted

LEMMA LoadedStep ==
    ASSUME SessionInv, Loaded
    PROVE  SessionInv'
<1>1. Types /\ CallbacksFollow /\ FlightOfAccount /\ CodeSent
  BY DEF SessionInv
<1>2. exchange.step = "load" /\ InFlight /\ UNCHANGED <<emails, cookie>>
  BY DEF Loaded, InFlight
<1>3. None \in Person0 /\ mishaps \subseteq Mishaps /\ lastExchange \in Person0
  BY <1>1 DEF Types, Person0
<1>4. exchange.of \in Accounts /\ exchange.of.uid \in Person0 /\ ~exchange.of.unverified
      /\ exchange.of.uid # None
  BY <1>1, <1>2, Values DEF FlightOfAccount, Types, Callbacks, Person0
<1>5. ASSUME NEW u \in {exchange.of.uid} \cup (IF cookie = exchange.of.uid THEN {} ELSE {None}),
             ResumeWith(u, lastExchange, TRUE), UNCHANGED <<failures, mishaps>>
      PROVE  SessionInv'
  <2>1. u \in Person0
    BY <1>4, <1>3, <1>5
  <2>2. "overtaken" \notin mishaps => u \in {None, Uid(fb)}
    BY <1>2, <1>4, <1>5 DEF SessionInv, NotOvertaken
  <2>3. ASSUME mishaps = {}, ~Leaving PROVE u = cookie /\ u = Uid(fb)
    <3>1. Together /\ NotOvertaken
      BY <2>3, Values DEF SessionInv
    <3>2. cookie = exchange.of.uid
      BY <1>2, <2>3, <3>1 DEF Together
    <3>3. exchange.of.uid = Uid(fb)
      BY <1>2, <1>4, <3>1 DEF NotOvertaken
    <3> QED
      BY <1>5, <3>2, <3>3
  <2> QED
    BY <1>1, <1>2, <1>3, <1>5, <2>1, <2>2, <2>3, ResumeStep
<1>6. CASE ResumeWith(None, lastExchange, TRUE) /\ Failure /\ Hap({"failed"})
  <2>1. mishaps' # {} /\ mishaps \subseteq mishaps' /\ mishaps' \subseteq Mishaps
    BY <1>3, <1>6, Values DEF Hap
  <2> QED
    BY <1>1, <1>2, <1>3, <1>6, <2>1, ResumeStep
<1> QED
  BY <1>5, <1>6 DEF Loaded

\* A callback is delivered: what waits after it.
LEMMA Taken ==
    ASSUME Types, CallbacksFollow, events # <<>>, events' = Tail(events), UNCHANGED <<fb, emails>>
    PROVE  /\ Head(events) \in Callbacks /\ events' \in Seq(Callbacks)
           /\ events' = <<>> => Uid(Head(events)) = Uid(fb)
           /\ events' # <<>> => Newest(events') = Newest(events)
           /\ Head(events) # None /\ NobodyWaits => NobodyWaits'
           /\ events' = <<>> => Head(events) = Newest(events)
<1>1. events \in Seq(Callbacks)
  BY DEF Types
<1>2. Head(events) \in Callbacks /\ Tail(events) \in Seq(Callbacks)
      /\ (Tail(events) # <<>> => Newest(Tail(events)) = Newest(events))
      /\ (Tail(events) = <<>> => Newest(events) = Head(events))
      /\ \A i \in 1..Len(events) :
            events[i] = Head(events) \/ \E j \in 1..Len(Tail(events)) : Tail(events)[j] = events[i]
  BY <1>1, Delivered
<1>3. Head(events) # None /\ NobodyWaits => NobodyWaits'
  BY <1>2 DEF NobodyWaits
<1> QED
  BY <1>2, <1>3 DEF CallbacksFollow

LEMMA DeliverNobodyStep ==
    ASSUME SessionInv, events # <<>>, initial.done, DeliverNobody(Head(events)),
           UNCHANGED <<emails, cookie, initial, flow, page>>
    PROVE  SessionInv'
<1>1. Types /\ CallbacksFollow /\ FlightOfAccount /\ CodeSent
  BY DEF SessionInv
<1>2. /\ Head(events) = None /\ user' = None /\ lastExchange' = None /\ loading' = FALSE
      /\ events' = Tail(events) /\ UNCHANGED <<fb, exchange, mishaps>>
  BY DEF DeliverNobody, Clear
<1>3. /\ events' \in Seq(Callbacks) /\ (events' # <<>> => Newest(events') = Newest(events))
      /\ (events' = <<>> => Uid(fb) = None /\ Newest(events) = None)
  BY <1>1, <1>2, Taken, Values
<1>4. fb = None \/ events' # <<>>
  BY <1>1, <1>3, Values DEF Types
<1>5. Types'
  BY <1>1, <1>2, <1>3 DEF Types, page, Person0
<1>6. CallbacksFollow'
  BY <1>1, <1>2, <1>3, <1>4 DEF CallbacksFollow, Unverified
<1>7. FlightOfAccount' /\ CodeSent'
  BY <1>1, <1>2 DEF FlightOfAccount, CodeSent, InFlight, page
<1>8. "overtaken" \notin mishaps' => NotOvertaken'
  BY <1>2 DEF SessionInv, NotOvertaken, InFlight, Unverified
<1>9. ASSUME mishaps' = {} PROVE Together'
  <2>1. Together
    BY <1>2, <1>9 DEF SessionInv
  <2>2. (InFlight' <=> InFlight) /\ (Leaving' <=> Leaving)
    BY <1>2 DEF InFlight, Leaving
  <2>3. events' = <<>> => fb = None /\ cookie = None /\ Uid(fb) = None
    BY <1>4, <2>1, Values DEF Together
  <2>4. InFlight' /\ exchange'.of.unverified /\ fb' # None =>
          events' # <<>> /\ Newest(events') # None /\ Newest(events').unverified
    BY <1>2, <1>3, <1>4, <2>1, <2>2 DEF Together
  <2> QED
    BY <1>2, <2>1, <2>2, <2>3, <2>4 DEF Together
<1> QED
  BY <1>5, <1>6, <1>7, <1>8, <1>9 DEF SessionInv

LEMMA DeliverUnverifiedStep ==
    ASSUME SessionInv, events # <<>>, initial.done, DeliverUnverified(Head(events)),
           UNCHANGED <<emails, cookie, initial, flow, page>>
    PROVE  SessionInv'
<1>1. Types /\ CallbacksFollow /\ FlightOfAccount /\ CodeSent
  BY DEF SessionInv
<1>2. /\ Head(events) # None /\ Head(events).unverified
      /\ user' = None /\ lastExchange' = None /\ loading' = FALSE /\ fb' = None
      /\ events' = Tail(events) \o (IF fb = None THEN <<>> ELSE <<None>>)
      /\ Hap(Overtakes(None) \cup Ejected) /\ UNCHANGED exchange
  BY DEF DeliverUnverified, Clear
<1>3. /\ mishaps \subseteq mishaps' /\ mishaps' \subseteq Mishaps
      /\ InFlight /\ fb # None => "overtaken" \in mishaps'
      /\ cookie # None => mishaps' # {}
  BY <1>1, <1>2, Values DEF Hap, Overtakes, Ejected, Types
<1>4. /\ Tail(events) \in Seq(Callbacks) /\ Newest(events) \in Callbacks
      /\ Tail(events) # <<>> => Newest(Tail(events)) = Newest(events)
      /\ Tail(events) = <<>> => Newest(events) = Head(events)
  <2>1. Len(events) \in 1..Len(events)
    BY <1>1 DEF Types
  <2> QED
    BY <1>1, <2>1, Delivered DEF Types, Newest
<1>5. /\ events' \in Seq(Callbacks) /\ events' # <<>> /\ Uid(Newest(events')) = None /\ NobodyWaits'
  <2>1. CASE fb # None
    <3>1. events' = Append(Tail(events), None)
      BY <1>2, <1>4, <2>1, Joined DEF Callbacks
    <3>2. None \in Callbacks
      BY DEF Callbacks
    <3>3. /\ events' \in Seq(Callbacks) /\ events' # <<>> /\ Newest(events') = None
          /\ \E i \in 1..Len(events') : events'[i] = None
      BY <1>4, <3>1, <3>2, Appended
    <3> QED
      BY <3>3, Values DEF NobodyWaits
  <2>2. CASE fb = None
    <3>1. events' = Tail(events)
      BY <1>2, <1>4, <2>2, ConcatEmptySeq
    <3>2. Uid(Newest(events)) = None
      BY <1>1, <2>2, Values DEF CallbacksFollow
    <3>3. Newest(events) = None
      BY <1>4, <3>2, Values
    <3>4. events' # <<>>
      BY <1>2, <1>4, <3>1, <3>3
    <3>5. Len(events') \in 1..Len(events') /\ Newest(events') = None
      BY <1>4, <3>1, <3>3, <3>4
    <3> QED
      BY <1>4, <3>1, <3>4, <3>5, Values DEF NobodyWaits, Newest
  <2> QED
    BY <2>1, <2>2
<1>6. Types'
  BY <1>1, <1>2, <1>3, <1>5 DEF Types, page, Person0, Callbacks
<1>7. CallbacksFollow'
  BY <1>2, <1>5, Values DEF CallbacksFollow
<1>8. FlightOfAccount' /\ CodeSent'
  BY <1>1, <1>2 DEF FlightOfAccount, CodeSent, InFlight, page
<1>9. ASSUME "overtaken" \notin mishaps' PROVE NotOvertaken'
  <2>1. NotOvertaken /\ (InFlight => fb = None)
    BY <1>3, <1>9 DEF SessionInv
  <2> QED
    BY <1>2, <1>5, <2>1 DEF NotOvertaken, InFlight, Unverified
<1>10. ASSUME mishaps' = {} PROVE Together'
  <2>1. Together /\ cookie = None /\ Leaving' = Leaving
    BY <1>3, <1>10, <1>2 DEF SessionInv, Leaving
  <2>2. exchange.step = "load" => InFlight /\ fb = None
    BY <1>3, <1>10 DEF InFlight
  <2> QED
    BY <1>2, <1>5, <2>1, <2>2 DEF Together
<1> QED
  BY <1>3, <1>6, <1>7, <1>8, <1>9, <1>10 DEF SessionInv

LEMMA DeliverAccountStep ==
    ASSUME SessionInv, events # <<>>, initial.done, DeliverAccount(Head(events)),
           UNCHANGED <<emails, cookie, initial, flow, page>>
    PROVE  SessionInv'
<1>1. Types /\ CallbacksFollow /\ FlightOfAccount /\ CodeSent
  BY DEF SessionInv
<1> DEFINE account == Head(events)
<1>2. /\ account # None /\ ~account.unverified /\ events' = Tail(events)
      /\ UNCHANGED <<user, fb, lastExchange>>
  BY DEF DeliverAccount
<1>3. /\ account \in Accounts /\ events' \in Seq(Callbacks)
      /\ events' = <<>> => account.uid = Uid(fb) /\ account = Newest(events)
      /\ events' # <<>> => Newest(events') = Newest(events)
      /\ NobodyWaits => NobodyWaits'
  BY <1>1, <1>2, Taken, Values DEF Callbacks
<1>4. CallbacksFollow'
  BY <1>1, <1>2, <1>3 DEF CallbacksFollow, Unverified
<1>5. CodeSent' /\ UNCHANGED <<flow, link>> /\ (Leaving' <=> Leaving) /\ (LoggingIn' <=> LoggingIn)
  <2>1. UNCHANGED <<flow, link, seen, code>>
    BY DEF page
  <2>2. (Leaving' <=> Leaving) /\ (LoggingIn' <=> LoggingIn)
    BY <2>1 DEF Leaving, LoggingIn, Syncing
  <2>3. ~loading => ~loading'
    BY DEF DeliverAccount
  <2>4. CodeSent'
    BY <1>1, <2>1, <2>3 DEF CodeSent
  <2> QED
    BY <2>1, <2>2, <2>4
<1>6. CASE user = account.uid /\ loading' = FALSE /\ UNCHANGED <<exchange, mishaps>>
  <2>1. Types' /\ FlightOfAccount'
    BY <1>1, <1>2, <1>3, <1>5, <1>6 DEF Types, FlightOfAccount, InFlight, page, Person0
  <2>2. ASSUME "overtaken" \notin mishaps' PROVE NotOvertaken'
    BY <1>2, <1>3, <1>6, <2>2 DEF SessionInv, NotOvertaken, InFlight, Unverified
  <2>3. ASSUME mishaps' = {} PROVE Together'
    <3>1. Together
      BY <1>6, <2>3 DEF SessionInv
    <3>2. InFlight' <=> InFlight
      BY <1>6 DEF InFlight
    <3>3. InFlight /\ exchange.of.unverified /\ fb # None => events' # <<>>
      BY <1>2, <1>3, <3>1 DEF Together
    <3>4. initial'.done /\ events' = <<>> /\ ~InFlight' /\ ~Leaving' => user' = Uid(fb') /\ cookie' = Uid(fb')
      <4>1. SUFFICES ASSUME events' = <<>>, ~InFlight, ~Leaving PROVE user = Uid(fb) /\ cookie = Uid(fb)
        BY <1>2, <1>5, <3>2
      <4>2. user = Uid(fb) /\ user # None
        BY <1>3, <1>6, <4>1, Values
      <4>3. ~NobodyWaits
        BY <1>3, <4>1 DEF NobodyWaits
      <4>4. exchange.step # "load"
        BY <4>1 DEF InFlight
      <4> QED
        BY <3>1, <4>1, <4>2, <4>3, <4>4 DEF Together
    <3> QED
      BY <1>2, <1>3, <1>5, <1>6, <3>1, <3>2, <3>3, <3>4 DEF Together
  <2> QED
    BY <1>1, <1>4, <1>5, <1>6, <2>1, <2>2, <2>3 DEF SessionInv, Types
<1>7. CASE /\ user # account.uid
           /\ exchange' = Exchange(IF fb = None THEN account ELSE fb, FALSE)
           /\ Hap(IF fb = None THEN {"overtaken"} ELSE {})
           /\ UNCHANGED loading
  <2>1. /\ mishaps' \subseteq Mishaps /\ mishaps \subseteq mishaps'
        /\ "overtaken" \notin mishaps' => fb # None
    BY <1>1, <1>7, Values DEF Hap, Types
  <2>2. CASE InFlight
    <3>1. exchange' = exchange
      BY <1>7, <2>2 DEF Exchange
    <3>2. Types' /\ FlightOfAccount' /\ InFlight'
      BY <1>1, <1>2, <1>3, <1>5, <1>7, <2>1, <2>2, <3>1 DEF Types, FlightOfAccount, InFlight, page, Person0
    <3>3. ASSUME "overtaken" \notin mishaps' PROVE NotOvertaken'
      BY <1>2, <1>3, <2>1, <2>2, <3>1, <3>2, <3>3 DEF SessionInv, NotOvertaken, Unverified
    <3>4. ASSUME mishaps' = {} PROVE Together'
      <4>1. Together
        BY <2>1, <3>4 DEF SessionInv
      <4>2. exchange.of.unverified /\ fb # None => events' # <<>>
        BY <1>2, <1>3, <2>2, <4>1 DEF Together
      <4> QED
        BY <1>2, <1>3, <1>5, <1>7, <2>2, <3>1, <3>2, <4>1, <4>2 DEF Together
    <3> QED
      BY <1>1, <1>4, <1>5, <2>1, <3>2, <3>3, <3>4 DEF SessionInv
  <2>3. CASE ~InFlight
    <3>0. PICK a \in Accounts : a = (IF fb = None THEN account ELSE fb) /\ (fb # None => a = fb)
      BY <1>1, <1>3 DEF Types, Callbacks
    <3>1. exchange' = [step |-> "token", of |-> a, force |-> FALSE]
      BY <1>7, <2>3, <3>0 DEF Exchange
    <3>2. Types' /\ FlightOfAccount' /\ InFlight'
      <4>1. exchange' \in [step : {"none", "token", "post", "load"}, of : Callbacks, force : BOOLEAN]
        BY <3>0, <3>1 DEF Callbacks
      <4>2. Types'
        BY <1>1, <1>2, <1>3, <1>5, <1>7, <2>1, <4>1 DEF Types, page, Person0
      <4>3. InFlight' /\ FlightOfAccount'
        BY <3>0, <3>1, Values DEF InFlight, FlightOfAccount
      <4> QED
        BY <4>2, <4>3
    <3>3. ASSUME "overtaken" \notin mishaps' PROVE NotOvertaken'
      <4>1. fb # None /\ a = fb /\ Uid(fb) = fb.uid
        BY <2>1, <3>0, <3>3 DEF Uid
      <4> QED
        BY <1>1, <1>2, <3>1, <3>2, <4>1 DEF NotOvertaken, CallbacksFollow, Unverified
    <3>4. ASSUME mishaps' = {} PROVE Together'
      <4>1. Together /\ fb # None /\ a = fb
        BY <2>1, <3>0, <3>4 DEF SessionInv
      <4>2. fb.unverified => events' # <<>> /\ Newest(events') = fb
        BY <1>1, <1>2, <1>3, <4>1 DEF CallbacksFollow
      <4>3. exchange.step # "load"
        BY <2>3 DEF InFlight
      <4>4. exchange'.step = "token" /\ exchange'.of = fb /\ initial'.done
        BY <3>0, <3>1, <4>1
      <4>5. user \notin {None, cookie} /\ ~Leaving => NobodyWaits'
        BY <1>3, <4>1, <4>3 DEF Together
      <4>6. /\ (Leaving' => cookie = None) /\ fb' # None /\ cookie' = cookie /\ user' = user
        BY <1>2, <1>5, <4>1 DEF Together
      <4> QED
        BY <1>2, <1>5, <3>2, <4>2, <4>4, <4>5, <4>6 DEF Together
    <3> QED
      BY <1>1, <1>4, <1>5, <2>1, <3>2, <3>3, <3>4 DEF SessionInv
  <2> QED
    BY <2>2, <2>3
<1> QED
  BY <1>6, <1>7 DEF DeliverAccount

LEMMA DeliverStep ==
    ASSUME SessionInv, Deliver
    PROVE  SessionInv'
BY DeliverNobodyStep, DeliverUnverifiedStep, DeliverAccountStep DEF Deliver, Ready

--------------------------------------------------------------------------------
(* The pages. *)

\* A form begins, is refused, or its handler moves on before it signs in.
LEMMA FormStep ==
    ASSUME SessionInv,
           \/ \E k \in {"password", "google", "confirm"}, u \in Users : Begin(k, u)
           \/ \E k \in Kinds : SignInRefused(k)
           \/ LinkEffect \/ CodeAnswered \/ BeginProfile \/ BeginSignOut
    PROVE  SessionInv'
<1>1. Types /\ CodeSent
  BY DEF SessionInv
<1>2. /\ flow \in [Kinds -> Flow] /\ code \in [sent : Nat, spent : BOOLEAN] /\ mishaps \subseteq Mishaps
      /\ link \in Person0
  BY <1>1 DEF Types
<1>3. ASSUME NEW k \in Kinds, NEW step \in {"idle", "signing", "code", "logout"}, NEW who \in Person0,
             Set(k, step, who), flow[k].step \notin {"syncing", "leaving"}
      PROVE  /\ flow' \in [Kinds -> Flow] /\ (LoggingIn => LoggingIn') /\ (Leaving' <=> Leaving)
             /\ Opened' => Opened \/ (k \notin {"password", "google", "confirm"} /\ step # "idle")
             /\ (k \in Logins /\ step # "idle" => who \in Users) =>
                   \A j \in Logins : flow'[j].step # "idle" => flow'[j].who \in Users
  <2>1. /\ flow' \in [Kinds -> Flow] /\ flow'[k].step = step /\ flow'[k].who = who
        /\ \A j \in Kinds : j # k => flow'[j] = flow[j]
    BY <1>2, <1>3 DEF Set, Flow
  <2>2. {"password", "google", "signout"} \subseteq Kinds
    BY DEF Kinds
  <2>3. (LoggingIn => LoggingIn') /\ (Leaving' <=> Leaving)
    BY <1>3, <2>1, <2>2 DEF LoggingIn, Syncing, Leaving
  <2>4. ASSUME NEW j \in {"signout", "magic", "profile"}, flow'[j].step # "idle",
               k \in {"password", "google", "confirm"} \/ step = "idle"
        PROVE  flow[j].step # "idle"
    BY <2>1, <2>4, Values
  <2>5. (k \in Logins /\ step # "idle" => who \in Users) =>
           \A j \in Logins : flow'[j].step # "idle" => flow'[j].who \in Users
    BY <1>1, <2>1, Values DEF Types
  <2> QED
    BY <2>1, <2>3, <2>4, <2>5 DEF Opened, Kinds
<1>4. ASSUME NEW k \in Kinds, NEW step \in {"idle", "signing", "code", "logout"}, NEW who \in Person0,
             Set(k, step, who), flow[k].step \notin {"syncing", "leaving"},
             UNCHANGED <<emails, fb, cookie, provider, events, exchange, link, mishaps>>,
             code' \in [sent : Nat, spent : BOOLEAN], CodeSent',
             (k \notin {"password", "google", "confirm"} /\ step # "idle") => ~loading \/ Opened,
             k \in Logins /\ step # "idle" => who \in Users
      PROVE  SessionInv'
  BY <1>2, <1>3, <1>4, FlowStep
<1>5. ASSUME UNCHANGED <<provider, page>> PROVE CodeSent'
  BY <1>1, <1>5 DEF CodeSent, provider, page
<1>6. ASSUME NEW k \in {"password", "google", "confirm"}, NEW u \in Users, Begin(k, u)
      PROVE  SessionInv'
  <2>1. k \in Kinds /\ u \in Person0 /\ flow[k].step = "idle"
    BY <1>6, Values DEF Begin, Kinds, Person0
  <2> QED
    BY <1>2, <1>4, <1>5, <1>6, <2>1 DEF Begin, page
<1>7. ASSUME NEW k \in Kinds, SignInRefused(k) PROVE SessionInv'
  BY <1>2, <1>4, <1>5, <1>7 DEF SignInRefused, page, Person0
<1>8. CASE BeginProfile
  <2>1. "profile" \in Kinds /\ None \in Person0 /\ flow["profile"].step = "idle"
    BY <1>8, Values DEF BeginProfile, Kinds, Person0
  <2> QED
    BY <1>2, <1>4, <1>5, <1>8, <2>1 DEF BeginProfile, SignedInPage, Logins, page
<1>9. CASE BeginSignOut
  <2>1. "signout" \in Kinds /\ None \in Person0 /\ flow["signout"].step = "idle"
    BY <1>9, Values DEF BeginSignOut, Kinds, Person0
  <2> QED
    BY <1>2, <1>4, <1>5, <1>9, <2>1 DEF BeginSignOut, SignedInPage, Logins, page
<1>10. CASE LinkEffect
  <2>1. /\ link # None /\ seen # <<loading, user>> /\ seen' = <<loading, user>>
        /\ UNCHANGED <<emails, fb, cookie, provider, events, exchange, mishaps>>
        /\ link' \in {None, link}
    BY <1>10 DEF LinkEffect
  <2>2. UNCHANGED <<loading, user>>
    BY <2>1 DEF provider
  <2>3. CASE MayRun
    <3>1. Set("magic", "code", link) /\ code' = [code EXCEPT !.sent = @ + 1]
      BY <1>10, <2>3 DEF LinkEffect
    <3>0. loading = FALSE /\ user = None /\ <<loading, user>> = <<FALSE, None>>
      BY <1>1, <2>3 DEF Types, MayRun
    <3>2. code.sent = 0
      BY <1>1, <2>1, <3>0 DEF CodeSent
    <3>3. code' \in [sent : Nat, spent : BOOLEAN] /\ code'.sent = 1
      BY <1>2, <3>1, <3>2
    <3>4. CodeSent'
      BY <2>1, <2>2, <3>0, <3>3 DEF CodeSent
    <3>5. /\ flow' \in [Kinds -> Flow] /\ flow'["magic"].who = link
          /\ \A k \in Kinds : k # "magic" => flow'[k] = flow[k]
      BY <1>2, <3>1 DEF Set, Flow, Kinds
    <3>6. (LoggingIn => LoggingIn') /\ (Leaving' <=> Leaving)
      BY <3>5 DEF LoggingIn, Leaving, Syncing, Kinds
    <3>7. \A k \in Logins : flow'[k].step # "idle" => flow'[k].who \in Users
      BY <1>1, <1>2, <2>1, <3>5, Values DEF Types, Person0
    <3> QED
      BY <1>2, <2>1, <3>0, <3>3, <3>4, <3>5, <3>6, <3>7, FlowStep
  <2>4. CASE ~MayRun
    <3>1. UNCHANGED <<flow, code>>
      BY <1>10, <2>4 DEF LinkEffect
    <3>2. CodeSent'
      <4>1. ~loading => link' = None
        BY <1>10, <2>4 DEF LinkEffect, MayRun
      <4> QED
        BY <1>1, <2>2, <3>1, <4>1 DEF CodeSent
    <3>3. (LoggingIn => LoggingIn') /\ (Leaving' <=> Leaving) /\ (Opened' <=> Opened)
      BY <3>1 DEF LoggingIn, Leaving, Opened, Syncing
    <3> QED
      BY <1>1, <1>2, <2>1, <3>1, <3>2, <3>3, FlowStep DEF Types
  <2> QED
    BY <2>3, <2>4
<1>11. CASE CodeAnswered
  <2>1. /\ flow["magic"].step = "code" /\ "magic" \in Kinds
        /\ UNCHANGED <<emails, fb, cookie, provider, events, exchange, link, seen>>
        /\ code' = [code EXCEPT !.spent = code.spent] \/ code' = [code EXCEPT !.spent = TRUE]
    BY <1>2, <1>11 DEF CodeAnswered, Kinds
  <2>2. code' \in [sent : Nat, spent : BOOLEAN] /\ code'.sent = code.sent
    BY <1>2, <2>1
  <2>3. CodeSent'
    BY <1>1, <2>1, <2>2 DEF CodeSent, provider
  <2>4. PICK step \in {"idle", "signing"}, who \in Person0 :
            Set("magic", step, who) /\ (step # "idle" => who = flow["magic"].who)
    BY <1>2, <1>11, <2>1 DEF CodeAnswered, Person0, Flow
  <2>5. /\ flow' \in [Kinds -> Flow] /\ flow'["magic"] = [step |-> step, who |-> who]
        /\ \A k \in Kinds : k # "magic" => flow'[k] = flow[k]
    BY <1>2, <2>1, <2>4 DEF Set, Flow
  <2>6. (LoggingIn => LoggingIn') /\ (Leaving' <=> Leaving) /\ Opened
    BY <2>1, <2>5 DEF LoggingIn, Leaving, Opened, Syncing, Kinds
  <2>8. \A k \in Logins : flow'[k].step # "idle" => flow'[k].who \in Users
    BY <1>1, <2>1, <2>4, <2>5, Values DEF Types, Logins
  <2>7. mishaps \subseteq mishaps' /\ mishaps' \subseteq Mishaps
    BY <1>2, <1>11, Values DEF CodeAnswered, Hap
  <2> QED
    BY <2>1, <2>2, <2>3, <2>5, <2>6, <2>7, <2>8, FlowStep
<1> QED
  BY <1>6, <1>7, <1>8, <1>9, <1>10, <1>11

LEMMA LoggedOutStep ==
    ASSUME SessionInv, LoggedOut
    PROVE  SessionInv'
<1>1. Types /\ CallbacksFollow /\ FlightOfAccount /\ CodeSent
  BY DEF SessionInv
<1>2. /\ flow' = [flow EXCEPT !["signout"] = [step |-> "leaving", who |-> None]]
      /\ cookie' \in {None, cookie}
      /\ UNCHANGED <<emails, fb, user, loading, lastExchange, initial, events, exchange, link, seen, code>>
      /\ mishaps \subseteq mishaps' /\ mishaps' \subseteq Mishaps
      /\ mishaps' = {} => cookie' = None
  BY <1>1, Values DEF LoggedOut, Set, Hap, provider, page, Types
<1>3. flow' \in [Kinds -> Flow] /\ flow'["signout"].step = "leaving"
      /\ \A k \in Kinds : k # "signout" => flow'[k] = flow[k]
  BY <1>1, <1>2 DEF Types, Flow, Kinds, Person0
<1>4. Types'
  <2>1. \A k \in Logins : flow'[k].step # "idle" => flow'[k].who \in Users
    BY <1>1, <1>3, Values DEF Types, Logins
  <2> QED
    BY <1>1, <1>2, <1>3, <2>1 DEF Types, Person0
<1>5. CallbacksFollow' /\ FlightOfAccount' /\ CodeSent'
  BY <1>1, <1>2 DEF CallbacksFollow, FlightOfAccount, CodeSent, Unverified, InFlight
<1>6. "overtaken" \notin mishaps' => NotOvertaken'
  BY <1>2 DEF SessionInv, NotOvertaken, Unverified, InFlight, NobodyWaits
<1>7. ASSUME mishaps' = {} PROVE Together'
  <2>1. Together /\ cookie' = None /\ Leaving' /\ (~initial.done => NobodyWaits)
    BY <1>2, <1>3, <1>7 DEF SessionInv, Leaving, Together, LoggedOut, Opened
  <2>2. (NobodyWaits' <=> NobodyWaits) /\ (InFlight' <=> InFlight) /\ (LoggingIn => LoggingIn')
    BY <1>2, <1>3 DEF NobodyWaits, InFlight, LoggingIn, Syncing, Kinds
  <2> QED
    BY <1>2, <2>1, <2>2 DEF Together
<1> QED
  BY <1>2, <1>4, <1>5, <1>6, <1>7 DEF SessionInv

\* The handlers of the pages go on: who signs in, what runs on, and what the pages' flows become.
LEMMA FlowMoves ==
    ASSUME Types, NEW k \in Kinds, NEW step \in {"idle", "syncing"}, NEW who \in Person0,
           Set(k, step, who), k \in Logins /\ step # "idle" => who \in Users
    PROVE  /\ flow' \in [Kinds -> Flow] /\ flow'[k].step = step
           /\ \A j \in Logins : flow'[j].step # "idle" => flow'[j].who \in Users
           /\ flow[k].step # "syncing" => (LoggingIn => LoggingIn')
           /\ Opened' => Opened \/ flow[k].step = "idle"
           /\ flow[k].step # "leaving" => (Leaving' <=> Leaving)
           /\ k = "signout" => ~Leaving'
<1>1. /\ flow' \in [Kinds -> Flow] /\ flow'[k].step = step /\ flow'[k].who = who
      /\ \A j \in Kinds : j # k => flow'[j] = flow[j]
  BY DEF Set, Flow, Types
<1>2. {"password", "google", "signout"} \subseteq Kinds
  BY DEF Kinds
<1>3. /\ flow[k].step # "syncing" => (LoggingIn => LoggingIn')
      /\ flow[k].step # "leaving" => (Leaving' <=> Leaving)
  BY <1>1, <1>2 DEF LoggingIn, Leaving, Syncing
<1>4. ASSUME NEW j \in {"signout", "magic", "profile"}, flow'[j].step # "idle", flow[k].step # "idle"
      PROVE  flow[j].step # "idle"
  BY <1>1, <1>4, Values
<1>5. \A j \in Logins : flow'[j].step # "idle" => flow'[j].who \in Users
  BY <1>1, Values DEF Types
<1> QED
  BY <1>1, <1>3, <1>4, <1>5 DEF Opened, Leaving

LEMMA AccountOf ==
    ASSUME Types, NEW u \in Users
    PROVE  /\ Account(u) \in Accounts /\ Account(u).uid = u
           /\ Account(u).unverified <=> Unverified(u)
<1>1. Account(u) = [uid |-> u, unverified |-> Unverified(u)]
  BY DEF Account, Unverified
<1>2. Unverified(u) \in BOOLEAN
  BY DEF Unverified
<1>3. Account(u).uid = u /\ Account(u).unverified = Unverified(u)
  BY <1>1
<1> QED
  BY <1>1, <1>2, <1>3 DEF Accounts

\* The account that is signed in becomes the one of a sign-in or a profile change, which may begin an
\* exchange; nothing else of the provider changes.
LEMMA SignsInStep ==
    ASSUME SessionInv, NEW account \in Accounts, Becomes(account),
           UNCHANGED <<user, loading, lastExchange, initial, cookie, link, seen, code>>,
           emails' \in [with : SUBSET Users, verified : SUBSET Users], emails'.verified \subseteq emails'.with,
           mishaps \subseteq mishaps', mishaps' \subseteq Mishaps,
           "overtaken" \notin mishaps' => ~InFlight \/ account.uid = Uid(fb),
           account.unverified <=> account.uid \in emails'.with \ emails'.verified,
           \A u \in Users : u # account.uid => (u \in emails'.with \ emails'.verified => Unverified(u)),
           account.uid = Uid(fb) /\ account.unverified => Unverified(account.uid),
           flow' \in [Kinds -> Flow], LoggingIn => LoggingIn', Leaving' <=> Leaving, Opened' => Opened,
           \A k \in Logins : flow'[k].step # "idle" => flow'[k].who \in Users,
           \/ exchange' = exchange
           \/ exchange' = Exchange(account, TRUE) /\ ~account.unverified /\ (LoggingIn' \/ Opened)
    PROVE  SessionInv'
<1>1. Types /\ CallbacksFollow /\ FlightOfAccount /\ CodeSent
  BY DEF SessionInv
<1>2. /\ fb' = account /\ events' \in Seq(Callbacks)
      /\ events # <<>> => events' # <<>>
      /\ NobodyWaits => NobodyWaits'
      /\ events' # <<>> => Uid(Newest(events')) = account.uid
      /\ account.uid # Uid(fb) => events' # <<>> /\ Newest(events') = account
      /\ account.uid = Uid(fb) => events' = events
  <2>1. account \in Callbacks /\ Uid(account) = account.uid
    BY Values DEF Callbacks
  <2> QED
    BY <1>1, <2>1, BecomesStep
<1>3. /\ account # None /\ account.uid \in Users /\ account.uid # None /\ Uid(account) = account.uid
      /\ account.unverified \in BOOLEAN
  BY Values
<1>4. account.uid = Uid(fb) => fb # None /\ fb \in Accounts /\ fb.uid = account.uid
  BY <1>1, <1>3, Values DEF Types, Callbacks
<1>5. \/ exchange' = exchange
      \/ /\ ~InFlight /\ ~account.unverified /\ (LoggingIn' \/ Opened)
         /\ exchange' = [step |-> "token", of |-> account, force |-> TRUE]
  BY DEF Exchange
<1>6. exchange' \in [step : {"none", "token", "post", "load"}, of : Callbacks, force : BOOLEAN]
  <2>1. [step |-> "token", of |-> account, force |-> TRUE]
            \in [step : {"none", "token", "post", "load"}, of : Callbacks, force : BOOLEAN]
    BY DEF Callbacks
  <2> QED
    BY <1>1, <1>5, <2>1 DEF Types
<1>7. Types'
  BY <1>1, <1>2, <1>6 DEF Types, Callbacks
<1>8. CallbacksFollow'
  <2>1. ASSUME account.unverified PROVE events' # <<>> /\ Newest(events') = account
    <3>1. CASE account.uid # Uid(fb)
      BY <1>2, <3>1
    <3>2. CASE account.uid = Uid(fb)
      <4>1. Unverified(fb.uid) /\ fb # None
        BY <1>4, <2>1, <3>2
      <4>2. fb.unverified /\ events # <<>> /\ Newest(events) = fb
        BY <1>1, <4>1 DEF CallbacksFollow
      <4>3. fb = account
        BY <1>4, <2>1, <3>2, <4>2 DEF Accounts
      <4> QED
        BY <1>2, <3>2, <4>2, <4>3
    <3> QED
      BY <3>1, <3>2
  <2>2. ~initial'.done => events' # <<>>
    BY <1>1, <1>2 DEF CallbacksFollow
  <2>3. account.unverified \/ account.uid \notin emails'.with \ emails'.verified
    OBVIOUS
  <2> QED
    BY <1>2, <1>3, <2>1, <2>2, <2>3 DEF CallbacksFollow, Unverified
<1>9. FlightOfAccount' /\ CodeSent'
  <2>1. CodeSent'
    BY <1>1 DEF CodeSent
  <2>2. CASE exchange' = exchange
    BY <1>1, <2>1, <2>2 DEF FlightOfAccount, InFlight
  <2>3. CASE ~account.unverified /\ exchange' = [step |-> "token", of |-> account, force |-> TRUE]
    <3>1. exchange'.of = account
      BY <2>3
    <3> QED
      BY <1>3, <2>1, <2>3, <3>1 DEF FlightOfAccount
  <2> QED
    BY <1>5, <2>1, <2>2, <2>3
<1>10. ASSUME "overtaken" \notin mishaps' PROVE NotOvertaken'
  <2>1. NotOvertaken /\ (InFlight => account.uid = Uid(fb))
    BY <1>10 DEF SessionInv
  <2>2. InFlight => exchange.of.uid = account.uid
    BY <1>3, <1>4, <2>1 DEF NotOvertaken
  <2>3. InFlight' => exchange'.of.uid = Uid(fb')
    <3>1. CASE exchange' = exchange
      BY <1>2, <1>3, <2>2, <3>1 DEF InFlight
    <3>2. CASE exchange' = [step |-> "token", of |-> account, force |-> TRUE]
      BY <1>2, <1>3, <3>2
    <3> QED
      BY <1>5, <3>1, <3>2
  <2>4. ASSUME InFlight', ~exchange'.of.unverified PROVE exchange'.of.uid \notin emails'.with \ emails'.verified
    <3>1. CASE exchange' = exchange
      <4>1. InFlight /\ exchange.of.uid = account.uid /\ ~exchange.of.unverified
        BY <2>2, <2>4, <3>1 DEF InFlight
      <4>2. ~Unverified(account.uid)
        BY <2>1, <4>1 DEF NotOvertaken
      <4>3. ~account.unverified
        BY <2>1, <4>1, <4>2
      <4> QED
        BY <3>1, <4>1, <4>3
    <3>2. CASE exchange' = [step |-> "token", of |-> account, force |-> TRUE]
      <4>1. exchange'.of = account
        BY <3>2
      <4> QED
        BY <2>4, <4>1
    <3> QED
      BY <1>5, <3>1, <3>2
  <2>5. initial'.done /\ events' = <<>> /\ ~InFlight' => user' \in {None, Uid(fb')}
    <3>1. ~InFlight' => ~InFlight
      BY <1>5 DEF InFlight
    <3> QED
      BY <1>2, <1>3, <2>1, <3>1 DEF NotOvertaken
  <2> QED
    BY <2>3, <2>4, <2>5 DEF NotOvertaken, Unverified
<1>11. ASSUME mishaps' = {} PROVE Together'
  <2>1. Together /\ (InFlight => account.uid = Uid(fb)) /\ fb' # None
    BY <1>2, <1>3, <1>11 DEF SessionInv
  <2>2. ~initial.done /\ Opened => NobodyWaits'
    BY <1>2, <2>1 DEF Together
  <2>3. CASE exchange' = exchange
    <3>1. InFlight' <=> InFlight
      BY <2>3 DEF InFlight
    <3>2. InFlight => fb # None /\ events' = events
      BY <1>2, <1>4, <2>1
    <3>3. InFlight /\ exchange.of.unverified =>
            events' # <<>> /\ Newest(events') # None /\ Newest(events').unverified
      BY <2>1, <3>2 DEF Together
    <3>4. ~initial.done /\ InFlight => LoggingIn' \/ NobodyWaits'
      BY <1>2, <2>1 DEF Together
    <3>5. events' = <<>> => events = <<>> /\ Uid(fb') = Uid(fb)
      BY <1>2, <1>3
    <3> QED
      BY <1>2, <2>1, <2>2, <2>3, <3>1, <3>3, <3>4, <3>5 DEF Together
  <2>4. CASE /\ ~InFlight /\ ~account.unverified /\ (LoggingIn' \/ Opened)
             /\ exchange' = [step |-> "token", of |-> account, force |-> TRUE]
    <3>1. InFlight' /\ exchange'.step = "token" /\ ~exchange'.of.unverified
      BY <2>4 DEF InFlight
    <3>2. ~initial.done => LoggingIn' \/ NobodyWaits'
      BY <2>2, <2>4
    <3>3. exchange.step # "load"
      BY <2>4 DEF InFlight
    <3> QED
      BY <1>2, <2>1, <2>2, <3>1, <3>2, <3>3 DEF Together
  <2> QED
    BY <1>5, <2>3, <2>4
<1> QED
  BY <1>7, <1>8, <1>9, <1>10, <1>11 DEF SessionInv

\* Nobody is signed in any more, and a callback says so; no exchange is in flight, or it is overtaken.
LEMMA SignsOutStep ==
    ASSUME SessionInv, fb' = None,
           events' \in Seq(Callbacks), events' # <<>>, Newest(events') = None, NobodyWaits',
           user' \in {None, user}, loading' \in {FALSE, loading}, lastExchange' \in {None, lastExchange},
           cookie' \in {None, cookie}, mishaps' = {} => cookie' = None,
           UNCHANGED <<initial, link, seen, code, exchange>>,
           emails' \in [with : SUBSET Users, verified : SUBSET Users], emails'.verified \subseteq emails'.with,
           mishaps \subseteq mishaps', mishaps' \subseteq Mishaps,
           "overtaken" \notin mishaps' /\ InFlight => exchange.of.unverified /\ user' = None,
           flow' \in [Kinds -> Flow], Leaving' => Leaving,
           \A k \in Logins : flow'[k].step # "idle" => flow'[k].who \in Users
    PROVE  SessionInv'
<1>1. Types /\ CallbacksFollow /\ FlightOfAccount /\ CodeSent
  BY DEF SessionInv
<1>2. Types'
  <2>1. fb' \in Callbacks /\ None \in Person0
    BY DEF Callbacks, Person0
  <2>2. user' \in Person0 /\ lastExchange' \in Person0 /\ cookie' \in Person0 /\ loading' \in BOOLEAN
    BY <1>1, <2>1 DEF Types
  <2> QED
    BY <1>1, <2>1, <2>2 DEF Types
<1>3. CallbacksFollow'
  BY Values DEF CallbacksFollow
<1>4. FlightOfAccount' /\ (InFlight' <=> InFlight)
  BY <1>1 DEF FlightOfAccount, InFlight
<1>5. CodeSent'
  <2>1. ~loading => ~loading'
    OBVIOUS
  <2> QED
    BY <1>1, <2>1 DEF CodeSent
<1>6. "overtaken" \notin mishaps' => NotOvertaken'
  BY <1>4 DEF NotOvertaken
<1>7. ASSUME mishaps' = {} PROVE Together'
  <2>1. Together /\ cookie' = None
    BY <1>7 DEF SessionInv
  <2>2. exchange.step = "load" => InFlight /\ exchange.of.unverified
    BY <1>7 DEF InFlight
  <2>3. exchange'.step # "load"
    BY <1>1, <2>2 DEF FlightOfAccount
  <2> QED
    BY <1>4, <2>1, <2>3 DEF Together
<1> QED
  BY <1>2, <1>3, <1>4, <1>5, <1>6, <1>7 DEF SessionInv

\* The account of an exchange that nothing overtook is verified only if the signed-in one is.
LEMMA OfUnverified ==
    ASSUME SessionInv, InFlight, "overtaken" \notin mishaps, NEW u \in Users, u = Uid(fb), Unverified(u)
    PROVE  exchange.of.unverified
<1>1. NotOvertaken /\ Types
  BY DEF SessionInv
<1>2. fb # None
  BY Values
<1> QED
  BY <1>1, <1>2 DEF NotOvertaken

LEMMA SignedInStep ==
    ASSUME SessionInv, NEW kind \in Kinds, SignedIn(kind)
    PROVE  SessionInv'
<1>1. Types /\ CallbacksFollow /\ FlightOfAccount /\ CodeSent
  BY DEF SessionInv
<1> DEFINE u == flow[kind].who
           account == Account(u)
<1>2. /\ kind \in Logins /\ flow[kind].step = "signing" /\ u \in Users /\ u \in Person0
      /\ UNCHANGED <<emails, cookie, initial, link, seen, code>>
  <2>1. kind \in Logins /\ flow[kind].step = "signing"
    BY DEF SignedIn, Logins
  <2> QED
    BY <1>1, <2>1 DEF SignedIn, page, Types, Person0
<1>3. account \in Accounts /\ account.uid = u /\ (account.unverified <=> Unverified(u))
      /\ Uid(account) = u
  BY <1>1, <1>2, AccountOf, Values
<1> HIDE DEF u, account
<1>4. ASSUME NEW step \in {"idle", "syncing"}, NEW who \in Person0, Set(kind, step, who),
             step # "idle" => who \in Users
      PROVE  /\ flow' \in [Kinds -> Flow] /\ flow'[kind].step = step
             /\ \A j \in Logins : flow'[j].step # "idle" => flow'[j].who \in Users
             /\ (LoggingIn => LoggingIn') /\ (Opened' => Opened) /\ (Leaving' <=> Leaving)
  BY <1>1, <1>2, <1>4, FlowMoves
<1>5. ASSUME Hap(Overtakes(account))
      PROVE  /\ mishaps \subseteq mishaps' /\ mishaps' \subseteq Mishaps
             /\ "overtaken" \notin mishaps' => ~InFlight \/ u = Uid(fb)
  BY <1>1, <1>3, <1>5, Values DEF Hap, Overtakes, Types
<1>6. /\ emails' \in [with : SUBSET Users, verified : SUBSET Users] /\ emails'.verified \subseteq emails'.with
      /\ account.unverified <=> account.uid \in emails'.with \ emails'.verified
      /\ \A v \in Users : v \in emails'.with \ emails'.verified => Unverified(v)
      /\ account.unverified => Unverified(account.uid)
  BY <1>1, <1>2, <1>3 DEF Types, Unverified
<1>7. CASE /\ Becomes(account) /\ Hap(Overtakes(account))
           /\ Set(kind, "idle", None)
           /\ UNCHANGED <<user, loading, lastExchange, exchange>>
  <2>1. None \in Person0
    BY DEF Person0
  <2> QED
    BY <1>2, <1>3, <1>4, <1>5, <1>6, <1>7, <2>1, SignsInStep
<1>8. CASE /\ ~Stops(kind, account) /\ ~account.unverified
           /\ Becomes(account) /\ Hap(Overtakes(account))
           /\ Set(kind, "syncing", u)
           /\ exchange' = Exchange(account, TRUE)
           /\ UNCHANGED <<user, loading, lastExchange>>
  <2>1. /\ flow' \in [Kinds -> Flow] /\ flow'[kind].step = "syncing"
        /\ \A j \in Logins : flow'[j].step # "idle" => flow'[j].who \in Users
        /\ (LoggingIn => LoggingIn') /\ (Opened' => Opened) /\ (Leaving' <=> Leaving)
    BY <1>2, <1>4, <1>8
  <2>2. kind \in {"password", "google", "magic"}
    BY <1>2, <1>8 DEF Logins, Stops
  <2>3. LoggingIn' \/ Opened
    BY <1>2, <2>1, <2>2 DEF LoggingIn, Syncing, Opened
  <2> QED
    BY <1>2, <1>3, <1>5, <1>6, <1>8, <2>1, <2>3, SignsInStep
<1>9. CASE /\ account.unverified
           /\ fb' = None
           /\ events' = events \o (IF fb = None \/ Uid(fb) # u THEN <<account, None>> ELSE <<None>>)
           /\ user' = None /\ lastExchange' = None /\ loading' = FALSE
           /\ Hap(Overtakes(account) \cup Ejected)
           /\ Set(kind, "idle", None)
           /\ UNCHANGED exchange
  <2>1. /\ mishaps \subseteq mishaps' /\ mishaps' \subseteq Mishaps
        /\ "overtaken" \notin mishaps' => "overtaken" \notin mishaps /\ (~InFlight \/ u = Uid(fb))
        /\ mishaps' = {} => cookie = None
    BY <1>1, <1>3, <1>9, Values DEF Hap, Overtakes, Ejected, Types
  <2>2. "overtaken" \notin mishaps' /\ InFlight => exchange.of.unverified
    BY <1>2, <1>3, <1>9, <2>1, OfUnverified
  <2>3. /\ events' \in Seq(Callbacks) /\ events' # <<>> /\ Newest(events') = None
        /\ \E i \in 1..Len(events') : events'[i] = None
    <3>1. events \in Seq(Callbacks) /\ None \in Callbacks /\ account \in Callbacks
      BY <1>1, <1>3 DEF Types, Callbacks
    <3>2. Append(events, account) \in Seq(Callbacks)
      BY <3>1, Appended
    <3>3. events' = Append(Append(events, account), None) \/ events' = Append(events, None)
      BY <1>9, <3>1, Joined
    <3>4. ASSUME NEW s \in Seq(Callbacks), events' = Append(s, None)
          PROVE  /\ events' \in Seq(Callbacks) /\ events' # <<>> /\ Newest(events') = None
                 /\ \E i \in 1..Len(events') : events'[i] = None
      BY <3>1, <3>4, Appended
    <3> QED
      BY <3>1, <3>2, <3>3, <3>4
  <2>4. NobodyWaits'
    BY <2>3 DEF NobodyWaits
  <2>5. None \in Person0
    BY DEF Person0
  <2> QED
    BY <1>2, <1>4, <1>6, <1>9, <2>1, <2>2, <2>3, <2>4, <2>5, SignsOutStep
<1> QED
  BY <1>3, <1>7, <1>8, <1>9 DEF SignedIn, Clear, u, account

LEMMA ProfileChangedStep ==
    ASSUME SessionInv, NEW with \in {{}, {Uid(fb)} \ {None}}, ProfileChanged(with)
    PROVE  SessionInv'
<1>1. Types /\ CallbacksFollow /\ FlightOfAccount /\ CodeSent
  BY DEF SessionInv
<1> DEFINE lacking == fb.uid \in (emails.with \cup with) \ emails.verified
           account == [uid |-> fb.uid, unverified |-> lacking]
<1>2. /\ fb \in Accounts /\ fb.uid \in Users /\ fb.uid # None /\ Uid(fb) = fb.uid
      /\ flow["profile"].step = "signing" /\ with \subseteq {fb.uid}
      /\ UNCHANGED <<cookie, initial, link, seen, code>>
      /\ emails' = [emails EXCEPT !.with = @ \cup with]
  BY <1>1, Values DEF ProfileChanged, page, Types, Callbacks
<1>3. /\ emails' \in [with : SUBSET Users, verified : SUBSET Users] /\ emails'.verified \subseteq emails'.with
      /\ emails'.with = emails.with \cup with /\ emails'.verified = emails.verified
  BY <1>1, <1>2 DEF Types
<1>4. account \in Accounts /\ account.uid = fb.uid /\ account.unverified = lacking
  <2>1. lacking \in BOOLEAN
    OBVIOUS
  <2>2. account.uid = fb.uid /\ account.unverified = lacking
    OBVIOUS
  <2> QED
    BY <1>2, <2>1, <2>2 DEF Accounts
<1> HIDE DEF account
<1>5. ASSUME NEW step \in {"idle", "syncing"}, Set("profile", step, None)
      PROVE  /\ flow' \in [Kinds -> Flow]
             /\ \A j \in Logins : flow'[j].step # "idle" => flow'[j].who \in Users
             /\ (LoggingIn => LoggingIn') /\ (Opened' => Opened) /\ (Leaving' <=> Leaving)
  <2>1. "profile" \in Kinds /\ "profile" \notin Logins /\ None \in Person0
    BY DEF Kinds, Logins, Person0
  <2> QED
    BY <1>1, <1>2, <1>5, <2>1, FlowMoves
<1>6. CASE /\ lacking
           /\ user' = None /\ lastExchange' = None /\ loading' = FALSE
           /\ Becomes(None) /\ Hap(Overtakes(None) \cup Ejected)
           /\ Set("profile", "idle", None)
           /\ UNCHANGED exchange
  <2>1. /\ mishaps \subseteq mishaps' /\ mishaps' \subseteq Mishaps
        /\ "overtaken" \notin mishaps' => ~InFlight
        /\ mishaps' = {} => cookie = None
    BY <1>1, <1>2, <1>6, Values DEF Hap, Overtakes, Ejected, Types
  <2>2. fb' = None /\ events' \in Seq(Callbacks) /\ events' # <<>> /\ Newest(events') = None /\ NobodyWaits'
    <3>1. None \in Callbacks
      BY DEF Callbacks
    <3> QED
      BY <1>1, <1>2, <1>6, <3>1, Values, BecomesStep
  <2> QED
    BY <1>2, <1>3, <1>5, <1>6, <2>1, <2>2, SignsOutStep
<1>7. CASE /\ ~lacking
           /\ Becomes(account)
           /\ exchange' = Exchange(account, TRUE)
           /\ Set("profile", "syncing", None)
           /\ UNCHANGED <<user, loading, lastExchange, mishaps>>
  <2>1. Opened
    BY <1>2 DEF Opened
  <2>2. mishaps \subseteq mishaps' /\ mishaps' \subseteq Mishaps
    BY <1>1, <1>7 DEF Types
  <2>3. account.unverified <=> account.uid \in emails'.with \ emails'.verified
    BY <1>3, <1>4
  <2>4. \A u \in Users : u # account.uid => (u \in emails'.with \ emails'.verified => Unverified(u))
    BY <1>2, <1>3, <1>4 DEF Unverified
  <2>5. ~account.unverified /\ account.uid = Uid(fb)
    BY <1>2, <1>4, <1>7
  <2>6. /\ flow' \in [Kinds -> Flow]
        /\ \A j \in Logins : flow'[j].step # "idle" => flow'[j].who \in Users
        /\ (LoggingIn => LoggingIn') /\ (Opened' => Opened) /\ (Leaving' <=> Leaving)
    BY <1>5, <1>7
  <2> QED
    BY <1>2, <1>3, <1>4, <1>7, <2>1, <2>2, <2>3, <2>4, <2>5, <2>6, SignsInStep
<1> QED
  BY <1>6, <1>7 DEF ProfileChanged, Clear, account

LEMMA SignedOutStep ==
    ASSUME SessionInv, SignedOut \/ SignedOutElsewhere
    PROVE  SessionInv'
<1>1. Types /\ CallbacksFollow /\ FlightOfAccount /\ CodeSent
  BY DEF SessionInv
<1>2. None \in Callbacks /\ None \in Person0
  BY DEF Callbacks, Person0
<1>3. Becomes(None) /\ Hap(Overtakes(None)) /\ UNCHANGED <<emails, loading, initial, exchange, link, seen, code>>
  BY DEF SignedOut, SignedOutElsewhere, provider, page
<1>4. /\ mishaps \subseteq mishaps' /\ mishaps' \subseteq Mishaps
      /\ "overtaken" \notin mishaps' => "overtaken" \notin mishaps /\ (~InFlight \/ Uid(fb) = None)
      /\ mishaps' = {} => mishaps = {}
  BY <1>1, <1>3, Values DEF Hap, Overtakes, Types
<1>5. /\ fb' = None /\ events' \in Seq(Callbacks)
      /\ events # <<>> => events' # <<>>
      /\ NobodyWaits => NobodyWaits'
      /\ events' # <<>> => Uid(Newest(events')) = None
      /\ fb # None => events' # <<>> /\ Newest(events') = None
      /\ fb = None => events' = events
      /\ events' # <<>> => NobodyWaits'
  <2>1. fb \in Callbacks
    BY <1>1 DEF Types
  <2> QED
    BY <1>1, <1>2, <1>3, <2>1, BecomesStep, Values
<1>6. CASE SignedOutElsewhere
  <2>1. cookie' = None /\ fb # None /\ UNCHANGED <<flow, user, lastExchange>>
    BY <1>6 DEF SignedOutElsewhere, provider
  <2>2. "overtaken" \notin mishaps' => ~InFlight
    BY <1>1, <1>4, <2>1, Values DEF Types
  <2>3. Leaving' => Leaving
    BY <2>1 DEF Leaving
  <2> QED
    BY <1>1, <1>3, <1>4, <1>5, <2>1, <2>2, <2>3, SignsOutStep DEF Types
<1>7. CASE SignedOut
  <2>1. /\ flow["signout"].step = "leaving" /\ Set("signout", "idle", None) /\ user' = None
        /\ lastExchange' = None /\ UNCHANGED cookie
    BY <1>7 DEF SignedOut, Clear
  <2>2. "signout" \in Kinds
    BY DEF Kinds
  <2>3. /\ flow' \in [Kinds -> Flow] /\ ~Leaving' /\ Opened
        /\ \A j \in Logins : flow'[j].step # "idle" => flow'[j].who \in Users
        /\ LoggingIn => LoggingIn'
    BY <1>1, <1>2, <2>1, <2>2, FlowMoves DEF Opened
  <2>4. Types'
    BY <1>1, <1>2, <1>3, <1>4, <1>5, <2>1, <2>3 DEF Types
  <2>5. CallbacksFollow'
    BY <1>1, <1>3, <1>5, Values DEF CallbacksFollow
  <2>6. FlightOfAccount' /\ CodeSent' /\ (InFlight' <=> InFlight)
    BY <1>1, <1>3 DEF FlightOfAccount, CodeSent, InFlight
  <2>7. ASSUME "overtaken" \notin mishaps'
        PROVE  NotOvertaken' /\ exchange.step # "load"
    <3>1. NotOvertaken /\ (InFlight => fb = None)
      BY <1>1, <1>4, <2>7, Values DEF SessionInv, Types
    <3>2. InFlight => exchange.of \in Accounts /\ exchange.of.uid # None
      BY <1>1, Values DEF Types, FlightOfAccount, Callbacks
    <3>3. InFlight => exchange.of.unverified
      BY <3>1, <3>2, Values DEF NotOvertaken
    <3>4. NotOvertaken'
      BY <1>3, <1>5, <2>1, <2>6, <3>3 DEF NotOvertaken
    <3> QED
      BY <1>1, <3>3, <3>4 DEF FlightOfAccount, InFlight
  <2>8. ASSUME mishaps' = {} PROVE Together'
    <3>1. Together /\ exchange.step # "load" /\ Leaving /\ cookie' = None
      BY <1>4, <2>1, <2>7, <2>8 DEF SessionInv, Together, Leaving
    <3>2. ~initial.done => NobodyWaits'
      BY <1>5, <2>3, <3>1 DEF Together
    <3> QED
      BY <1>3, <1>5, <2>1, <2>3, <3>1, <3>2, Values DEF Together
  <2> QED
    BY <1>4, <2>4, <2>5, <2>6, <2>7, <2>8 DEF SessionInv
<1> QED
  BY <1>6, <1>7

--------------------------------------------------------------------------------
(* The rest of the world, and every step. *)

LEMMA VerifyStep ==
    ASSUME SessionInv, NEW u \in Users, VerifyEmail(u)
    PROVE  SessionInv'
<1>1. Types /\ CallbacksFollow /\ FlightOfAccount /\ CodeSent
  BY DEF SessionInv
<1>2. /\ u \in emails.with /\ emails' = [emails EXCEPT !.verified = @ \cup {u}]
      /\ UNCHANGED <<fb, cookie, user, loading, lastExchange, initial, events, exchange, flow, link, seen,
                     code, mishaps>>
  BY DEF VerifyEmail, provider, page
<1>3. /\ emails' \in [with : SUBSET Users, verified : SUBSET Users] /\ emails'.verified \subseteq emails'.with
      /\ emails'.with \ emails'.verified \subseteq emails.with \ emails.verified
  BY <1>1, <1>2 DEF Types
<1>4. Types'
  BY <1>1, <1>2, <1>3 DEF Types
<1>5. CallbacksFollow' /\ FlightOfAccount' /\ CodeSent'
  BY <1>1, <1>2, <1>3 DEF CallbacksFollow, FlightOfAccount, CodeSent, Unverified, InFlight
<1>6. "overtaken" \notin mishaps' => NotOvertaken'
  BY <1>2, <1>3 DEF SessionInv, NotOvertaken, Unverified, InFlight, NobodyWaits
<1>7. ASSUME mishaps' = {} PROVE Together'
  <2>1. Together
    BY <1>2, <1>7 DEF SessionInv
  <2>2. /\ (NobodyWaits' <=> NobodyWaits) /\ (InFlight' <=> InFlight) /\ (Leaving' <=> Leaving)
        /\ (LoggingIn' <=> LoggingIn) /\ (Opened' <=> Opened)
    BY <1>2 DEF NobodyWaits, InFlight, Leaving, LoggingIn, Opened, Syncing
  <2> QED
    BY <1>2, <2>1, <2>2 DEF Together
<1> QED
  BY <1>2, <1>4, <1>5, <1>6, <1>7 DEF SessionInv, Types

LEMMA ReloadStep ==
    ASSUME SessionInv, Reload
    PROVE  SessionInv'
<1>1. Types /\ FlightOfAccount
  BY DEF SessionInv
<1>2. PICK jar \in {cookie} \cup (IF exchange.step = "post" /\ AcceptedBy(exchange.of)
                                  THEN {exchange.of.uid} ELSE {}) : cookie' = jar /\ Mounted(link, jar)
  BY DEF Reload
<1>3. exchange.step = "post" => exchange.of.uid \in Person0
  BY <1>1, Values DEF Types, FlightOfAccount, InFlight, Callbacks, Person0
<1>4. jar \in Person0 /\ link \in Person0
  BY <1>1, <1>2, <1>3 DEF Types
<1>5. mishaps' \subseteq Mishaps /\ (mishaps' = {} => mishaps = {} /\ ~InFlight)
  BY <1>1, Values DEF Reload, Hap, Types
<1>6. ~InFlight => jar = cookie
  BY <1>2 DEF InFlight
<1>7. emails' = emails /\ code' = [code EXCEPT !.sent = 0]
  BY DEF Reload
<1> QED
  BY <1>2, <1>4, <1>5, <1>6, <1>7, MountedStep

LEMMA InitInv == Init => SessionInv
<1> SUFFICES ASSUME Init PROVE SessionInv
  OBVIOUS
<1>1. /\ fb \in Callbacks /\ cookie \in {None, Uid(fb)} /\ cookie \in Person0
      /\ fb # None => ~fb.unverified /\ fb.uid \in Users \ Passwords
  <2>1. fb = None \/ \E u \in Users \ Passwords : fb = [uid |-> u, unverified |-> FALSE]
    BY DEF Init
  <2>2. ASSUME NEW u \in Users \ Passwords, fb = [uid |-> u, unverified |-> FALSE]
        PROVE  fb \in Accounts /\ fb.uid = u /\ ~fb.unverified
    BY <2>2 DEF Accounts
  <2>3. fb \in Callbacks /\ (fb # None => ~fb.unverified /\ fb.uid \in Users \ Passwords)
    BY <2>1, <2>2 DEF Callbacks
  <2> QED
    BY <2>3, Values DEF Init, Person0
<1>2. events \in Seq(Callbacks) /\ events # <<>> /\ Newest(events) = fb /\ (fb = None => NobodyWaits)
  BY <1>1 DEF Init, Newest, NobodyWaits
<1>3. ~InFlight /\ ~Leaving /\ ~Opened /\ ~initial.done /\ initial.answer = cookie /\ exchange.step = "none"
      /\ \A k \in Kinds : flow[k] = Idle
  BY Values DEF Init, InFlight, Leaving, Opened, Kinds
<1>4. Types
  <2>1. emails \in [with : SUBSET Users, verified : SUBSET Users] /\ emails.verified \subseteq emails.with
    BY Values DEF Init
  <2>2. flow \in [Kinds -> Flow] /\ \A k \in Logins : flow[k].step = "idle"
    BY <1>3, Values DEF Init
  <2>3. user \in Person0 /\ lastExchange \in Person0 /\ link \in Person0
    BY DEF Init, Person0
  <2>4. initial \in [done : BOOLEAN, answer : Person0]
    BY <1>1 DEF Init
  <2>5. exchange \in [step : {"none", "token", "post", "load"}, of : Callbacks, force : BOOLEAN]
    BY Values DEF Init
  <2> QED
    BY <1>1, <1>2, <2>1, <2>2, <2>3, <2>4, <2>5 DEF Init, Types
<1>5. CallbacksFollow
  <2>1. fb # None => ~Unverified(fb.uid)
    BY <1>1 DEF Init, Unverified
  <2> QED
    BY <1>1, <1>2, <2>1 DEF CallbacksFollow
<1>6. FlightOfAccount /\ CodeSent /\ NotOvertaken
  BY <1>3 DEF Init, FlightOfAccount, CodeSent, NotOvertaken
<1>7. Together
  BY <1>1, <1>2, <1>3, Values DEF Init, Together
<1> QED
  BY <1>4, <1>5, <1>6, <1>7 DEF SessionInv

LEMMA NextInv == SessionInv /\ [Next]_vars => SessionInv'
<1> SUFFICES ASSUME SessionInv, [Next]_vars PROVE SessionInv'
  OBVIOUS
<1>1. CASE Browser
  BY <1>1, InitialStep, DeliverStep, GotTokenStep, PostedStep, LoadedStep, FormStep, LoggedOutStep,
     SignedOutStep DEF Browser
<1>2. CASE Answer
  BY <1>2, SignedInStep, ProfileChangedStep DEF Answer
<1>3. CASE \E k \in Kinds : SignInRefused(k)
  BY <1>3, FormStep
<1>4. CASE Person
  BY <1>4, FormStep, SignedOutStep, ReloadStep DEF Person
<1>5. CASE \E u \in Users : VerifyEmail(u)
  BY <1>5, VerifyStep
<1>6. CASE UNCHANGED vars
  <2>1. UNCHANGED <<emails, fb, cookie, user, loading, lastExchange, initial, events, exchange, flow, link,
                    seen, code, mishaps>>
    BY <1>6 DEF vars, provider, page
  <2>2. Types' /\ CallbacksFollow' /\ FlightOfAccount' /\ CodeSent'
    <3>1. Types /\ CallbacksFollow /\ FlightOfAccount /\ CodeSent
      BY DEF SessionInv
    <3>2. Types'
      BY <2>1, <3>1 DEF Types
    <3>3. CallbacksFollow'
      BY <2>1, <3>1 DEF CallbacksFollow, Unverified
    <3>4. FlightOfAccount' /\ CodeSent'
      BY <2>1, <3>1 DEF FlightOfAccount, CodeSent, InFlight
    <3> QED
      BY <3>2, <3>3, <3>4
  <2>3. "overtaken" \notin mishaps' => NotOvertaken'
    BY <2>1 DEF SessionInv, NotOvertaken, Unverified, InFlight, NobodyWaits
  <2>4. ASSUME mishaps' = {} PROVE Together'
    <3>1. Together
      BY <2>1, <2>4 DEF SessionInv
    <3>2. /\ (NobodyWaits' <=> NobodyWaits) /\ (InFlight' <=> InFlight) /\ (Leaving' <=> Leaving)
          /\ (LoggingIn' <=> LoggingIn) /\ (Opened' <=> Opened)
      BY <2>1 DEF NobodyWaits, InFlight, Leaving, LoggingIn, Opened, Syncing
    <3> QED
      BY <2>1, <3>1, <3>2 DEF Together
  <2> QED
    BY <2>2, <2>3, <2>4 DEF SessionInv
<1> QED
  BY <1>1, <1>2, <1>3, <1>4, <1>5, <1>6 DEF Next

--------------------------------------------------------------------------------
(* Theorems *)

\* The inductive invariant (AuthProvider.tsx with the pages that sign in and out): callbacks follow the
\* account, an exchange is of it unless overtaken, and a session apart from it is about to change.
THEOREM SessionInductive == Spec => []SessionInv
<1>1. Init => SessionInv
  BY InitInv
<1>2. SessionInv /\ [Next]_vars => SessionInv'
  BY NextInv
<1> QED
  BY <1>1, <1>2, PTL DEF Spec

\* At rest the page, Firebase and the service show the same account or none, unless a request failed, an
\* exchange was overtaken or a forced sign-out left a session; a one-time code is sent once
\* (AuthProvider.tsx, MagicLinkPage.tsx).
THEOREM SessionsAgree == Spec => []SessionSafe
<1>1. SessionInv => SessionSafe
  <2> SUFFICES ASSUME SessionInv PROVE SessionSafe
    OBVIOUS
  <2>1. Types /\ CodeSent
    BY DEF SessionInv
  <2>2. SessionTypeOK
    <3>1. emails.verified \subseteq emails.with /\ emails.with \subseteq Users
      BY <2>1 DEF Types
    <3>2. initial.answer \in Users \cup {None} /\ initial.done \in BOOLEAN /\ code.spent \in BOOLEAN
      BY <2>1 DEF Types, Person0
    <3> QED
      BY <2>1, <3>1, <3>2 DEF Types, SessionTypeOK, Person0, Callbacks, Flow
  <2>3. NeverAnother
    BY DEF SessionInv, NotOvertaken, NeverAnother, Quiet
  <2>4. Agreement
    <3>1. Quiet => ~Leaving
      BY DEF Quiet, Leaving, Kinds
    <3> QED
      BY <3>1 DEF SessionInv, Together, Agreement, Quiet
  <2>5. CodeOnce
    BY <2>1 DEF CodeSent, CodeOnce
  <2> QED
    BY <2>2, <2>3, <2>4, <2>5 DEF SessionSafe
<1> QED
  BY <1>1, SessionInductive, PTL

\* A session is only opened for an account whose e-mail is verified, whichever token the page sends
\* (AuthProvider.tsx, create_session), unless the exchange was overtaken by another sign-in.
THEOREM OnlyVerified == Spec => VerifiedSessions
<1> DEFINE Opens == cookie' \notin {cookie, None} /\ "overtaken" \notin mishaps'
                      => cookie' \notin emails.with \ emails.verified
<1>1. SessionInv /\ [Next]_vars => [Opens]_vars
  <2> SUFFICES ASSUME SessionInv, Next, cookie' \notin {cookie, None}, "overtaken" \notin mishaps'
               PROVE  cookie' \notin emails.with \ emails.verified
    BY DEF vars
  <2>1. Types /\ FlightOfAccount
    BY DEF SessionInv
  <2>2. ASSUME exchange.step = "post", AcceptedBy(exchange.of), cookie' = exchange.of.uid,
               "overtaken" \notin mishaps
        PROVE  cookie' \notin emails.with \ emails.verified
    BY <2>2 DEF SessionInv, NotOvertaken, InFlight, AcceptedBy, Unverified
  <2>3. CASE Browser
    <3>1. CASE InitialAnswered
      BY <3>1 DEF InitialAnswered
    <3>2. CASE Deliver
      BY <3>2 DEF Deliver
    <3>3. CASE GotToken
      BY <3>3 DEF GotToken
    <3>4. CASE Posted
      <4>1. mishaps \subseteq mishaps' /\ exchange.step = "post" /\ AcceptedBy(exchange.of)
            /\ cookie' = exchange.of.uid
        BY <3>4 DEF Posted, Hap
      <4> QED
        BY <2>2, <4>1
    <3>5. CASE Loaded
      BY <3>5 DEF Loaded
    <3>6. CASE LinkEffect \/ CodeAnswered
      BY <3>6 DEF LinkEffect, CodeAnswered
    <3>7. CASE LoggedOut \/ SignedOut
      BY <3>7 DEF LoggedOut, SignedOut
    <3> QED
      BY <2>3, <3>1, <3>2, <3>3, <3>4, <3>5, <3>6, <3>7 DEF Browser
  <2>4. CASE Answer
    BY <2>4 DEF Answer, SignedIn, ProfileChanged
  <2>5. CASE \E k \in Kinds : SignInRefused(k)
    BY <2>5 DEF SignInRefused
  <2>6. CASE Person
    <3>1. CASE Reload
      <4>1. ~InFlight /\ mishaps \subseteq mishaps'
        BY <3>1 DEF Reload, Hap
      <4> QED
        BY <3>1, <4>1 DEF Reload, InFlight
    <3>2. CASE SignedOutElsewhere
      BY <3>2 DEF SignedOutElsewhere
    <3> QED
      BY <2>6, <3>1, <3>2 DEF Person, Begin, BeginProfile, BeginSignOut
  <2>7. CASE \E u \in Users : VerifyEmail(u)
    BY <2>7 DEF VerifyEmail
  <2> QED
    BY <2>3, <2>4, <2>5, <2>6, <2>7 DEF Next
<1> QED
  BY <1>1, SessionInductive, PTL DEF Spec, VerifiedSessions

================================================================================
