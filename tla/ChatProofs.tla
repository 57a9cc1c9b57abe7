------------------------------- MODULE ChatProofs -------------------------------
(***************************************************************************)
(* The chat of the browser, for any number of tabs and chats and any       *)
(* budget: ChatPage implements ThreadCopies (the copies of threads only    *)
(* move forward), each answer stands in the conversation of its question,  *)
(* and a conversation of the old release is moved whole or not at all.     *)
(***************************************************************************)
EXTENDS ChatPage, TLAPS

\* The fetches f and copies cp of a tab: an answer on its way is at least as new as the copy it
\* replaces, and neither is ahead of the service.
Fresh(f, cp) ==
    /\ f = [k \in Keys |-> f[k]]
    /\ cp = [c \in Chats |-> cp[c]]
    /\ \A c \in Chats :
          /\ cp[c].ver \in 0..version[c]
          /\ f[c].at = "answered" => f[c].ver \in cp[c].ver..version[c]

CopyInv ==
    /\ version \in [Chats -> Nat]
    /\ fetch = [t \in Tabs |-> fetch[t]]
    /\ copy = [t \in Tabs |-> copy[t]]
    /\ \A t \in Tabs : Fresh(fetch[t], copy[t])

held == [t \in Tabs |-> [c \in Chats |-> copy[t][c].ver]]

--------------------------------------------------------------------------------
(* What the operators of the model keep. *)

\* A conversation is no key of the list, and is a key.
LEMMA ChatKeys == \A c \in Chats : c \in Keys /\ c # List
BY StoreAssumption DEF Keys

\* A refresh leaves answers on their way alone.
LEMMA AskFresh ==
    ASSUME NEW f, NEW cp, NEW ks, Fresh(f, cp)
    PROVE  Fresh(Ask(f, ks), cp)
<1>1. \A c \in Chats : Ask(f, ks)[c].at = "answered" => Ask(f, ks)[c] = f[c]
  BY ChatKeys DEF Ask, Rest
<1> QED
  BY <1>1 DEF Fresh, Ask

\* A fetch that is not an answer harms nothing.
LEMMA RestFresh ==
    ASSUME NEW f, NEW cp, NEW k \in Keys, NEW r, Fresh(f, cp), r.at # "answered"
    PROVE  Fresh([f EXCEPT ![k] = r], cp)
<1> DEFINE g == [f EXCEPT ![k] = r]
<1>1. g = [x \in Keys |-> IF x = k THEN r ELSE f[x]]
  BY DEF Fresh
<1>2. \A c \in Chats : g[c].at = "answered" => g[c] = f[c]
  BY <1>1, ChatKeys
<1>3. g = [x \in Keys |-> g[x]]
  BY <1>1
<1> HIDE DEF g
<1> QED
  BY <1>2, <1>3 DEF Fresh

\* What the service answers now is not older than any copy.
LEMMA AnswersFresh ==
    ASSUME NEW f, NEW cp, NEW k \in Keys, Fresh(f, cp), version \in [Chats -> Nat]
    PROVE  Fresh([f EXCEPT ![k] = Answers(k)], cp)
<1> DEFINE g == [f EXCEPT ![k] = Answers(k)]
<1>1. g = [x \in Keys |-> IF x = k THEN Answers(k) ELSE f[x]]
  BY DEF Fresh
<1>2. \A c \in Chats : Answers(c).at = "answered" => Answers(c).ver = version[c]
  <2> SUFFICES ASSUME NEW c \in Chats, Answers(c).at = "answered"
               PROVE  Answers(c).ver = version[c]
    OBVIOUS
  <2>1. c # List
    BY ChatKeys
  <2>2. CASE c \in live
    <3>1. Answers(c) = [Rest EXCEPT !.at = "answered", !.msgs = thread[c], !.ver = version[c]]
      BY <2>1, <2>2 DEF Answers
    <3> QED
      BY <3>1 DEF Rest
  <2>3. CASE c \notin live
    <3>1. Answers(c) = [Rest EXCEPT !.at = "failed"]
      BY <2>1, <2>3 DEF Answers
    <3> QED
      BY <3>1 DEF Rest
  <2> QED
    BY <2>2, <2>3
<1>3. \A c \in Chats : g[c].at = "answered" => g[c] = f[c] \/ g[c].ver = version[c]
  BY <1>1, <1>2, ChatKeys
<1>4. g = [x \in Keys |-> g[x]]
  BY <1>1
<1> HIDE DEF g
<1>5. \A c \in Chats : version[c] \in cp[c].ver..version[c]
  BY DEF Fresh
<1>6. \A c \in Chats : g[c].at = "answered" => g[c].ver \in cp[c].ver..version[c]
  BY <1>3, <1>5 DEF Fresh
<1>7. Fresh(g, cp)
  BY <1>4, <1>6 DEF Fresh
<1> QED
  BY <1>7 DEF g

\* A tab may be given new fetches and copies that fit each other.
LEMMA TabKept ==
    ASSUME CopyInv, NEW t \in Tabs, NEW f, NEW cp, Fresh(f, cp),
           version' = version,
           fetch' = [fetch EXCEPT ![t] = f],
           copy' = [copy EXCEPT ![t] = cp]
    PROVE  CopyInv'
<1>1. fetch' = [x \in Tabs |-> fetch'[x]] /\ copy' = [x \in Tabs |-> copy'[x]]
  BY DEF CopyInv
<1>2. \A x \in Tabs : /\ fetch'[x] = IF x = t THEN f ELSE fetch[x]
                      /\ copy'[x] = IF x = t THEN cp ELSE copy[x]
  BY DEF CopyInv
<1>3. ASSUME NEW x \in Tabs PROVE Fresh(fetch'[x], copy'[x])
  BY <1>2 DEF CopyInv
<1>4. \A x \in Tabs : Fresh(fetch[x], copy[x])'
  BY <1>3 DEF Fresh
<1> QED
  BY <1>1, <1>4 DEF CopyInv

\* The same when only the fetches change.
LEMMA FetchKept ==
    ASSUME CopyInv, NEW t \in Tabs, NEW f, Fresh(f, copy[t]),
           version' = version, copy' = copy,
           fetch' = [fetch EXCEPT ![t] = f]
    PROVE  CopyInv'
<1>1. copy' = [copy EXCEPT ![t] = copy[t]]
  BY DEF CopyInv
<1> QED
  BY <1>1, TabKept

\* A step of the page, whatever it selects and shows.
LEMMA SettleKept ==
    ASSUME CopyInv, NEW t \in Tabs, NEW s, NEW l, NEW cp, NEW f, NEW emitted, NEW mark,
           Fresh(f, cp), version' = version,
           Settle(t, s, l, cp, f, emitted, mark)
    PROVE  CopyInv' /\ copy' = [copy EXCEPT ![t] = cp]
<1> DEFINE g == IF s \in {sess[t], None} THEN f ELSE Ask(f, {s})
<1>1. fetch' = [fetch EXCEPT ![t] = g] /\ copy' = [copy EXCEPT ![t] = cp]
  BY DEF Settle
<1>2. Fresh(g, cp)
  BY AskFresh
<1> HIDE DEF g
<1> QED
  BY <1>1, <1>2, TabKept
--------------------------------------------------------------------------------
(* The kinds of steps ThreadCopies has. *)

Wrote == \E c \in Chats : version' = [version EXCEPT ![c] = @ + 1] /\ UNCHANGED copy

TookNewer ==
    \E t \in Tabs, c \in Chats : \E r :
        /\ version' = version
        /\ r.ver \in copy[t][c].ver..version[c]
        /\ copy' = [copy EXCEPT ![t] = [copy[t] EXCEPT ![c] = r]]

Forgot ==
    \E t \in Tabs, kept \in SUBSET Chats : \E cp :
        /\ version' = version
        /\ cp = [c \in Chats |-> cp[c]]
        /\ \A c \in Chats : cp[c].ver = IF c \in kept THEN copy[t][c].ver ELSE 0
        /\ copy' = [copy EXCEPT ![t] = cp]

Kind == (UNCHANGED <<version, copy>>) \/ Wrote \/ TookNewer \/ Forgot

\* Each kind is a step of ThreadCopies, or stutters.
LEMMA KindMaps ==
    ASSUME CopyInv, Kind
    PROVE  [Copies!Next]_<<version, held>>
<1>1. CASE UNCHANGED <<version, copy>>
  BY <1>1 DEF held
<1>2. CASE Wrote
  <2>1. held' = held
    BY <1>2 DEF Wrote, held
  <2> QED
    BY <1>2, <2>1 DEF Wrote, Copies!Next, Copies!Write, held
<1>3. CASE TookNewer
  <2>0. PICK t \in Tabs, c \in Chats : \E r :
            /\ version' = version
            /\ r.ver \in copy[t][c].ver..version[c]
            /\ copy' = [copy EXCEPT ![t] = [copy[t] EXCEPT ![c] = r]]
    BY <1>3 DEF TookNewer
  <2>1. PICK r :
            /\ version' = version
            /\ r.ver \in copy[t][c].ver..version[c]
            /\ copy' = [copy EXCEPT ![t] = [copy[t] EXCEPT ![c] = r]]
    BY <2>0
  <2>2. \A x \in Tabs, y \in Chats :
            copy'[x][y].ver = IF x = t /\ y = c THEN r.ver ELSE copy[x][y].ver
    BY <2>1 DEF CopyInv, Fresh
  <2>3. held' = [held EXCEPT ![t][c] = r.ver]
    <3> DEFINE h(x) == [y \in Chats |-> copy[x][y].ver]
               h1(x) == [y \in Chats |-> copy'[x][y].ver]
    <3>1. held = [x \in Tabs |-> h(x)] /\ held' = [x \in Tabs |-> h1(x)]
      BY DEF held
    <3>2. h1(t) = [h(t) EXCEPT ![c] = r.ver]
      BY <2>2
    <3>3. \A x \in Tabs : x # t => h1(x) = h(x)
      BY <2>2
    <3> HIDE DEF h, h1
    <3> QED
      BY <3>1, <3>2, <3>3
  <2>4. held[t][c] = copy[t][c].ver
    BY DEF held
  <2>5. Copies!Read(t, c)
    BY <2>1, <2>3, <2>4 DEF Copies!Read, held
  <2> QED
    BY <2>5 DEF Copies!Next
<1>4. CASE Forgot
  <2>0. PICK t \in Tabs, kept \in SUBSET Chats : \E cp :
            /\ version' = version
            /\ cp = [c \in Chats |-> cp[c]]
            /\ \A c \in Chats : cp[c].ver = IF c \in kept THEN copy[t][c].ver ELSE 0
            /\ copy' = [copy EXCEPT ![t] = cp]
    BY <1>4 DEF Forgot
  <2>1. PICK cp :
            /\ version' = version
            /\ cp = [c \in Chats |-> cp[c]]
            /\ \A c \in Chats : cp[c].ver = IF c \in kept THEN copy[t][c].ver ELSE 0
            /\ copy' = [copy EXCEPT ![t] = cp]
    BY <2>0
  <2>2. \A x \in Tabs : copy'[x] = IF x = t THEN cp ELSE copy[x]
    BY <2>1 DEF CopyInv
  <2>3. held' = [held EXCEPT ![t] = [c \in Chats |-> IF c \in kept THEN held[t][c] ELSE 0]]
    <3> DEFINE h(x) == [y \in Chats |-> copy[x][y].ver]
               h1(x) == [y \in Chats |-> copy'[x][y].ver]
               k == [c \in Chats |-> IF c \in kept THEN held[t][c] ELSE 0]
    <3>1. held = [x \in Tabs |-> h(x)] /\ held' = [x \in Tabs |-> h1(x)]
      BY DEF held
    <3>2. h1(t) = k
      BY <2>1, <2>2, <3>1
    <3>3. \A x \in Tabs : x # t => h1(x) = h(x)
      BY <2>2
    <3> HIDE DEF h, h1, k
    <3>4. held' = [held EXCEPT ![t] = k]
      BY <3>1, <3>2, <3>3
    <3> QED
      BY <3>4 DEF k
  <2>4. Copies!Forget(t, kept)
    BY <2>1, <2>3 DEF Copies!Forget, held
  <2> QED
    BY <2>4 DEF Copies!Next
<1> QED
  BY <1>1, <1>2, <1>3, <1>4 DEF Kind

--------------------------------------------------------------------------------
(* Every action keeps CopyInv and is of one of these kinds. *)

\* The service writes or reads nothing a copy depends on, except its version numbers.
LEMMA VersionKept ==
    ASSUME CopyInv, UNCHANGED <<copy, fetch>>,
           \/ version' = version
           \/ \E c : version' = [version EXCEPT ![c] = @ + 1]
    PROVE  CopyInv' /\ Kind
<1>1. CASE version' = version
  BY <1>1 DEF CopyInv, Fresh, Kind
<1>2. CASE \E c : version' = [version EXCEPT ![c] = @ + 1]
  <2>1. PICK c : version' = [version EXCEPT ![c] = @ + 1]
    BY <1>2
  <2>2. /\ version' \in [Chats -> Nat]
        /\ \A x \in Chats : version[x] <= version'[x]
    <3>1. version' = [x \in Chats |-> IF x = c THEN version[x] + 1 ELSE version[x]]
      BY <2>1 DEF CopyInv
    <3> QED
      BY <3>1 DEF CopyInv
  <2>3. \A t \in Tabs : Fresh(fetch[t], copy[t])'
    BY <2>2 DEF CopyInv, Fresh
  <2>4. CopyInv'
    BY <2>2, <2>3 DEF CopyInv
  <2>5. CASE c \in Chats
    BY <2>1, <2>4, <2>5 DEF Kind, Wrote
  <2>6. CASE c \notin Chats
    <3>1. version' = version
      BY <2>1, <2>6 DEF CopyInv
    <3> QED
      BY <2>4, <3>1 DEF Kind
  <2> QED
    BY <2>5, <2>6
<1> QED
  BY <1>1, <1>2

\* Refreshes that are asked for, answered or lost.
LEMMA FetchSteps ==
    ASSUME CopyInv, NEW t \in Tabs, UNCHANGED <<version, copy>>,
           \/ \E ks : fetch' = [fetch EXCEPT ![t] = Ask(fetch[t], ks)]
           \/ \E k \in Keys : fetch' = [fetch EXCEPT ![t][k] = Answers(k)]
           \/ \E k \in Keys : \E r : r.at # "answered" /\ fetch' = [fetch EXCEPT ![t][k] = r]
    PROVE  CopyInv' /\ Kind
<1>1. Fresh(fetch[t], copy[t]) /\ version \in [Chats -> Nat]
  BY DEF CopyInv
<1>2. \A f : Fresh(f, copy[t]) /\ fetch' = [fetch EXCEPT ![t] = f] => CopyInv'
  BY FetchKept
<1>3. CASE \E ks : fetch' = [fetch EXCEPT ![t] = Ask(fetch[t], ks)]
  <2>1. PICK ks : fetch' = [fetch EXCEPT ![t] = Ask(fetch[t], ks)]
    BY <1>3
  <2>2. CopyInv'
    BY <1>1, <1>2, <2>1, AskFresh
  <2> QED
    BY <2>2 DEF Kind
<1>4. CASE \E k \in Keys : fetch' = [fetch EXCEPT ![t][k] = Answers(k)]
  <2>1. PICK k \in Keys : fetch' = [fetch EXCEPT ![t] = [fetch[t] EXCEPT ![k] = Answers(k)]]
    BY <1>4
  <2>2. Fresh([fetch[t] EXCEPT ![k] = Answers(k)], copy[t])
    BY <1>1, AnswersFresh
  <2>3. CopyInv'
    BY <2>1, <2>2, <1>2
  <2> QED
    BY <2>3 DEF Kind
<1>5. CASE \E k \in Keys : \E r : r.at # "answered" /\ fetch' = [fetch EXCEPT ![t][k] = r]
  <2>0. PICK k \in Keys : \E r : /\ r.at # "answered"
                                 /\ fetch' = [fetch EXCEPT ![t] = [fetch[t] EXCEPT ![k] = r]]
    BY <1>5
  <2>1. PICK r : /\ r.at # "answered"
                 /\ fetch' = [fetch EXCEPT ![t] = [fetch[t] EXCEPT ![k] = r]]
    BY <2>0
  <2>2. Fresh([fetch[t] EXCEPT ![k] = r], copy[t])
    BY <1>1, <2>1, RestFresh
  <2>3. CopyInv'
    BY <2>1, <2>2, <1>2
  <2> QED
    BY <2>3 DEF Kind
<1> QED
  BY <1>3, <1>4, <1>5 DEF Kind

\* The store's own steps.
LEMMA StoreSteps ==
    ASSUME CopyInv, NEW t \in Tabs, Store(t)
    PROVE  CopyInv' /\ Kind
<1> USE DEF service, local
<1>1. CASE \E k \in Keys : Answer(t, k)
  <2>1. PICK k \in Keys : Answer(t, k)
    BY <1>1
  <2>2. fetch' = [fetch EXCEPT ![t][k] = Answers(k)] /\ UNCHANGED <<version, copy>>
    BY <2>1 DEF Answer
  <2> QED
    BY <2>2, FetchSteps
<1>2. CASE \E k \in Keys : LoseFetch(t, k)
  <2>1. [Rest EXCEPT !.at = "failed"].at # "answered"
    BY DEF Rest
  <2> QED
    BY <1>2, <2>1, FetchSteps DEF LoseFetch
<1>3. CASE \/ Move(t) \/ MoveCreated(t) \/ MoveChecked(t) \/ MovePosted(t)
           \/ MoveLost(t) \/ MoveNext(t)
  BY <1>3, VersionKept DEF Move, MoveCreated, MoveChecked, MovePosted, MoveLost, MoveNext, Create, Post
<1>4. CASE MoveFailed(t)
  <2> DEFINE f == [k \in Keys |->
            IF fetch[t][k].at = "asked" THEN [Rest EXCEPT !.at = "failed"] ELSE fetch[t][k]]
  <2>1. fetch' = [fetch EXCEPT ![t] = f] /\ UNCHANGED <<version, copy>>
    BY <1>4 DEF MoveFailed
  <2>2. \A c \in Chats : f[c].at = "answered" => f[c] = fetch[t][c]
    BY ChatKeys DEF Rest
  <2>3. f = [k \in Keys |-> f[k]]
    OBVIOUS
  <2> HIDE DEF f
  <2>4. Fresh(f, copy[t])
    BY <2>2, <2>3 DEF CopyInv, Fresh
  <2> QED
    BY <2>1, <2>4, FetchKept DEF Kind
<1> QED
  BY <1>1, <1>2, <1>3, <1>4 DEF Store

\* What a step of the page does to its copies: nothing, one newer copy, or some forgotten.
LEMMA SettleSteps ==
    ASSUME CopyInv, NEW t \in Tabs, NEW s, NEW l, NEW cp, NEW f, NEW emitted, NEW mark,
           version' = version, Settle(t, s, l, cp, f, emitted, mark), Fresh(f, cp),
           \/ cp = copy[t]
           \/ \E c \in Chats : \E r : r.ver \in copy[t][c].ver..version[c] /\ cp = [copy[t] EXCEPT ![c] = r]
           \/ \E c \in Chats : \E r : r.ver = 0 /\ cp = [copy[t] EXCEPT ![c] = r]
    PROVE  CopyInv' /\ Kind
<1>1. CopyInv' /\ copy' = [copy EXCEPT ![t] = cp]
  BY SettleKept
<1>2. CASE cp = copy[t]
  BY <1>1, <1>2 DEF CopyInv, Kind
<1>3. CASE \E c \in Chats : \E r : r.ver \in copy[t][c].ver..version[c] /\ cp = [copy[t] EXCEPT ![c] = r]
  BY <1>1, <1>3 DEF Kind, TookNewer
<1>4. CASE \E c \in Chats : \E r : r.ver = 0 /\ cp = [copy[t] EXCEPT ![c] = r]
  <2>0. PICK c \in Chats : \E r : r.ver = 0 /\ cp = [copy[t] EXCEPT ![c] = r]
    BY <1>4
  <2>1. PICK r : r.ver = 0 /\ cp = [copy[t] EXCEPT ![c] = r]
    BY <2>0
  <2>2. \A x \in Chats : cp[x].ver = IF x \in Chats \ {c} THEN copy[t][x].ver ELSE 0
    BY <2>1 DEF CopyInv, Fresh
  <2>3. cp = [x \in Chats |-> cp[x]]
    BY DEF Fresh
  <2>4. Forgot
    BY <1>1, <2>2, <2>3 DEF Forgot
  <2> QED
    BY <1>1, <2>4 DEF Kind
<1> QED
  BY <1>2, <1>3, <1>4

\* A copy forgotten, or made empty, fits whatever is on its way for the others.
LEMMA ForgetFresh ==
    ASSUME NEW f, NEW cp, NEW c \in Chats, NEW r, Fresh(f, cp), r.ver = 0, version \in [Chats -> Nat]
    PROVE  Fresh(f, [cp EXCEPT ![c] = r])
<1> DEFINE g == [cp EXCEPT ![c] = r]
<1>1. g = [x \in Chats |-> IF x = c THEN r ELSE cp[x]]
  BY DEF Fresh
<1>2. ASSUME NEW x \in Chats
      PROVE  /\ g[x].ver \in 0..version[x]
             /\ f[x].at = "answered" => f[x].ver \in g[x].ver..version[x]
  BY <1>1 DEF Fresh
<1>3. g = [x \in Chats |-> g[x]]
  BY <1>1
<1> HIDE DEF g
<1>4. Fresh(f, g)
  BY <1>2, <1>3 DEF Fresh
<1> QED
  BY <1>4 DEF g

\* The steps of the page that refresh, ask or forget.
LEMMA PageSteps ==
    ASSUME CopyInv, NEW t \in Tabs, Page(t)
    PROVE  CopyInv' /\ Kind
<1> USE DEF service, local, pageVars, storeVars
<1>0. Fresh(fetch[t], copy[t]) /\ version \in [Chats -> Nat] /\ List \in Keys
  BY DEF CopyInv, Keys
<1>1. CASE \E k \in Keys : Poll(t, k)
  <2>1. PICK k \in Keys : Poll(t, k)
    BY <1>1
  <2>2. [Rest EXCEPT !.at = "asked"].at # "answered"
    BY DEF Rest
  <2>3. UNCHANGED <<version, copy>>
    BY <2>1 DEF Poll
  <2>4. CASE Settled(t)
    <3>1. fetch' = [fetch EXCEPT ![t][k] = Answers(k)]
      BY <2>1, <2>4 DEF Poll
    <3> QED
      BY <2>3, <3>1, FetchSteps
  <2>5. CASE ~Settled(t)
    <3>1. fetch' = [fetch EXCEPT ![t][k] = [Rest EXCEPT !.at = "asked"]]
      BY <2>1, <2>5 DEF Poll
    <3> QED
      BY <2>2, <2>3, <3>1, FetchSteps
  <2> QED
    BY <2>4, <2>5
<1>2. CASE ShowList(t)
  <2>1. PICK s : Settle(t, s, fetch[t][List].chats, copy[t], [fetch[t] EXCEPT ![List] = Rest], {}, {})
    BY <1>2 DEF ShowList
  <2>2. version' = version /\ Rest.at # "answered"
    BY <1>2 DEF ShowList, Rest
  <2>3. Fresh([fetch[t] EXCEPT ![List] = Rest], copy[t])
    BY <1>0, <2>2, RestFresh
  <2> QED
    BY <2>1, <2>2, <2>3, SettleSteps
<1>3. CASE \E c \in Chats : ShowThread(t, c)
  <2>1. PICK c \in Chats : ShowThread(t, c)
    BY <1>3
  <2> DEFINE r == [has |-> TRUE, msgs |-> fetch[t][c].msgs, ver |-> fetch[t][c].ver]
             cp == [copy[t] EXCEPT ![c] = r]
             f == [fetch[t] EXCEPT ![c] = Rest]
  <2>2. /\ version' = version
        /\ Settle(t, sess[t], list[t], cp, f, {c}, {})
        /\ fetch[t][c].at = "answered"
    BY <2>1 DEF ShowThread
  <2>3. r.ver \in copy[t][c].ver..version[c] /\ r.ver \in 0..version[c]
    <3>1. r.ver = fetch[t][c].ver
      OBVIOUS
    <3>2. fetch[t][c].ver \in copy[t][c].ver..version[c] /\ copy[t][c].ver \in 0..version[c]
      BY <1>0, <2>2 DEF Fresh
    <3>3. version[c] \in Nat
      BY <1>0
    <3> QED
      BY <3>1, <3>2, <3>3
  <2>4. Fresh(f, copy[t])
    BY <1>0, RestFresh, ChatKeys DEF Rest
  <2>5. Fresh(f, cp)
    <3>1. cp = [x \in Chats |-> IF x = c THEN r ELSE copy[t][x]]
      BY <1>0 DEF Fresh
    <3>2. f[c] = Rest
      BY <1>0, ChatKeys DEF Fresh
    <3>3. f[c].at # "answered"
      BY <3>2 DEF Rest
    <3> HIDE DEF r, f
    <3>4. \A x \in Chats : /\ cp[x].ver \in 0..version[x]
                           /\ f[x].at = "answered" => f[x].ver \in cp[x].ver..version[x]
      BY <2>3, <2>4, <3>1, <3>3 DEF Fresh
    <3>5. cp = [x \in Chats |-> cp[x]]
      BY <3>1
    <3> HIDE DEF cp
    <3> QED
      BY <2>4, <3>4, <3>5 DEF Fresh
  <2> HIDE DEF f, r
  <2> QED
    BY <2>2, <2>3, <2>5, SettleSteps
<1>4. CASE \E c \in Chats : Select(t, c)
  <2>1. PICK c : Settle(t, c, list[t], copy[t], fetch[t], {}, {}) /\ version' = version
    BY <1>4 DEF Select
  <2> QED
    BY <1>0, <2>1, SettleSteps
<1>5. CASE \E k \in Keys : Fallback(t, k)
  <2>0. PICK k \in Keys : \E s :
            /\ version' = version
            /\ Settle(t, s, list[t], copy[t], [fetch[t] EXCEPT ![k] = Rest], {k}, {})
    BY <1>5 DEF Fallback
  <2>1. PICK s : /\ version' = version
                 /\ Settle(t, s, list[t], copy[t], [fetch[t] EXCEPT ![k] = Rest], {k}, {})
    BY <2>0
  <2>2. Fresh([fetch[t] EXCEPT ![k] = Rest], copy[t])
    BY <1>0, RestFresh DEF Rest
  <2> QED
    BY <2>1, <2>2, SettleSteps
<1>6. CASE MoveEnded(t) \/ Refresh(t) \/ Asked(t) \/ ReplyPosted(t) \/ NotePosted(t)
  <2>1. UNCHANGED <<version, copy>>
    BY <1>6 DEF MoveEnded, Refresh, Asked, ReplyPosted, NotePosted, Refreshed
  <2>2. \E ks : fetch' = [fetch EXCEPT ![t] = Ask(fetch[t], ks)]
    BY <1>6 DEF MoveEnded, Refresh, Asked, ReplyPosted, NotePosted, Refreshed, Broadcast
  <2> QED
    BY <2>1, <2>2, FetchSteps
<1>7. CASE \/ Submit(t) \/ Answered(t) \/ Catch(t) \/ PanelFailed(t)
           \/ \E step \in {"new", "rename", "delete"}, c \in Chats : Panel(t, step, c)
  <2>1. UNCHANGED <<version, copy, fetch>>
    BY <1>7 DEF Submit, Answered, Catch, PanelFailed, Panel
  <2> QED
    BY <2>1, VersionKept
<1>8. CASE SubmitCreated(t) \/ NewChat(t)
  <2>1. PICK c, mark : Created(t, c, mark) /\ version' = version
    BY <1>8 DEF SubmitCreated, NewChat, Ends
  <2>2. Settle(t, c, list[t] \cup {c}, [copy[t] EXCEPT ![c] = Empty], Broadcast(t, fetch[t]), {c}, mark)
    BY <2>1 DEF Created
  <2>3. Fresh(Broadcast(t, fetch[t]), copy[t]) /\ Empty.ver = 0
    BY <1>0, AskFresh DEF Broadcast, Empty
  <2>4. CASE c \in Chats
    <3>1. Fresh(Broadcast(t, fetch[t]), [copy[t] EXCEPT ![c] = Empty])
      BY <1>0, <2>3, <2>4, ForgetFresh
    <3> QED
      BY <2>1, <2>2, <2>3, <2>4, <3>1, SettleSteps
  <2>5. CASE c \notin Chats
    <3>1. [copy[t] EXCEPT ![c] = Empty] = copy[t]
      BY <1>0, <2>5 DEF Fresh
    <3> QED
      BY <2>1, <2>2, <2>3, <3>1, SettleSteps
  <2> QED
    BY <2>4, <2>5
<1>9. CASE \E s \in Slots : Renamed(t, s)
  <2>1. PICK s, l : Settle(t, s, l, copy[t], Broadcast(t, fetch[t]), {}, {}) /\ version' = version
    BY <1>9 DEF Renamed, Ends
  <2>2. Fresh(Broadcast(t, fetch[t]), copy[t])
    BY <1>0, AskFresh DEF Broadcast
  <2> QED
    BY <2>1, <2>2, SettleSteps
<1>10. CASE Deleted(t)
  <2>1. PICK c, s, l : /\ version' = version
                       /\ Settle(t, s, l, [copy[t] EXCEPT ![c] = Blank], Broadcast(t, fetch[t]), {c}, {})
    BY <1>10 DEF Deleted, Ends
  <2>2. Fresh(Broadcast(t, fetch[t]), copy[t]) /\ Blank.ver = 0
    BY <1>0, AskFresh DEF Broadcast, Blank
  <2>3. CASE c \in Chats
    <3>1. Fresh(Broadcast(t, fetch[t]), [copy[t] EXCEPT ![c] = Blank])
      BY <1>0, <2>2, <2>3, ForgetFresh
    <3> QED
      BY <2>1, <2>2, <2>3, <3>1, SettleSteps
  <2>4. CASE c \notin Chats
    <3>1. [copy[t] EXCEPT ![c] = Blank] = copy[t]
      BY <1>0, <2>4 DEF Fresh
    <3> QED
      BY <2>1, <2>2, <3>1, SettleSteps
  <2> QED
    BY <2>3, <2>4
<1>11. CASE Reload(t)
  <2> DEFINE cp == [c \in Chats |-> Blank]
             f0 == [k \in Keys |-> Rest]
             f == Ask(f0, {List})
  <2>1. /\ version' = version
        /\ copy' = [copy EXCEPT ![t] = cp]
        /\ fetch' = [fetch EXCEPT ![t] = f]
    BY <1>11 DEF Reload, Fault
  <2>2. Fresh(f0, cp)
    <3>1. \A c \in Chats : f0[c].at # "answered" /\ cp[c].ver = 0
      BY ChatKeys DEF Rest, Blank
    <3>2. \A c \in Chats : 0 \in 0..version[c]
      BY <1>0
    <3> QED
      BY <3>1, <3>2 DEF Fresh
  <2> HIDE DEF f0
  <2>3. Fresh(f, cp)
    BY <2>2, AskFresh
  <2>4. cp = [c \in Chats |-> cp[c]] /\ \A c \in Chats : cp[c].ver = IF c \in {} THEN copy[t][c].ver ELSE 0
    BY DEF Blank
  <2> HIDE DEF f, cp
  <2>5. CopyInv'
    BY <2>1, <2>3, TabKept
  <2>6. Forgot
    <3>1. {} \in SUBSET Chats
      OBVIOUS
    <3> QED
      BY <2>1, <2>4, <3>1 DEF Forgot
  <2> QED
    BY <2>5, <2>6 DEF Kind
<1> QED
  BY <1>1, <1>2, <1>3, <1>4, <1>5, <1>6, <1>7, <1>8, <1>9, <1>10, <1>11 DEF Page

\* The service's part of the calls.
LEMMA ServiceSteps ==
    ASSUME CopyInv, NEW t \in Tabs, Service(t)
    PROVE  CopyInv' /\ Kind
<1> USE DEF service, local, storeVars
<1>1. PICK s \in Slots : ServeCheck(t, s) \/ ServeWrite(t, s) \/ ServeLost(t, s)
  BY DEF Service
<1>2. UNCHANGED <<copy, fetch>>
  BY <1>1 DEF ServeCheck, ServeWrite, ServeLost
<1>3. version' = version \/ \E c : version' = [version EXCEPT ![c] = @ + 1]
  BY <1>1 DEF ServeCheck, ServeWrite, ServeLost, Create, Post, Erase
<1> QED
  BY <1>2, <1>3, VersionKept

--------------------------------------------------------------------------------
(* The theorem. *)

\* At the start no tab holds anything.
LEMMA InitFresh == Init => CopyInv /\ Copies!Init
<1> SUFFICES ASSUME Init PROVE CopyInv /\ Copies!Init
  OBVIOUS
<1>1. \A t \in Tabs : Fresh(fetch[t], copy[t])
  <2> SUFFICES ASSUME NEW t \in Tabs PROVE Fresh(fetch[t], copy[t])
    OBVIOUS
  <2>1. \A c \in Chats : fetch[t][c].at # "answered"
    BY ChatKeys DEF Init, StoreInit, Rest
  <2>2. fetch[t] = [k \in Keys |-> fetch[t][k]] /\ copy[t] = [c \in Chats |-> Blank]
    BY DEF Init, StoreInit
  <2>3. \A c \in Chats : version[c] = 0 /\ copy[t][c].ver = 0
    BY <2>2 DEF Init, StoreInit, Blank
  <2>4. \A c \in Chats : copy[t][c].ver \in 0..version[c]
    BY <2>3
  <2> QED
    BY <2>1, <2>2, <2>4 DEF Fresh
<1> QED
  BY <1>1 DEF Init, StoreInit, CopyInv, Copies!Init, Blank

\* The copies of threads in every tab implement ThreadCopies: none is ever replaced by an
\* earlier state of its thread (refreshMessages of chatStore.ts).
THEOREM CopiesMoveForward == Spec => ReadsForward
<1>1. CopyInv /\ [Next]_vars => CopyInv' /\ [Copies!Next]_<<version, held>>
  <2> SUFFICES ASSUME CopyInv, [Next]_vars PROVE CopyInv' /\ [Copies!Next]_<<version, held>>
    OBVIOUS
  <2>1. CASE Next
    <3>1. CopyInv' /\ Kind
      BY <2>1, PageSteps, ServiceSteps, StoreSteps DEF Next
    <3> QED
      BY <3>1, KindMaps
  <2>2. CASE UNCHANGED vars
    BY <2>2, VersionKept, KindMaps DEF vars, storeVars, service
  <2> QED
    BY <2>1, <2>2
<1> QED
  BY <1>1, InitFresh, PTL DEF Spec, ReadsForward, Copies!Spec, held

--------------------------------------------------------------------------------
(* What is said stays said: questions and their answers, and the conversation of the old release. *)

Steps == {"free", "create", "new", "chat", "delete"} \cup Posts \cup Renames
Phases == {"none", "sent", "read", "done", "wait", "failed"}
Calls == [step : Steps, phase : Phases, conv : Chats \cup {None}, n : Nat, waits : SUBSET Keys,
          note : BOOLEAN, first : BOOLEAN]
Moves == [at : {"none", "sent", "read", "done", "failed"}, item : 0..Len(Legacy)]

\* In the threads th, unless er tells that the conversation was deleted, m stands in c.
Said(th, er, c, m) == c \in er \/ \E j \in DOMAIN th[c] : th[c][j] = m

\* A call is about a conversation; one that awaits an answer, or has it, has asked its question.
Asking(o) == (o.step = "ask" /\ o.phase \in {"done", "wait"}) \/ o.step \in {"chat", "reply"}

CallOK(th, er, o) ==
    /\ o \in Calls
    /\ IF o.step = "free" THEN o = Free ELSE o.conv \in Chats
    /\ Asking(o) => Said(th, er, o.conv, <<"user", o.n>>)

\* A move has posted the messages before the one it is at, and that one when it is done.
MoveOK(th, er, m) ==
    /\ m \in Moves /\ (m.at = "read" => m.item > 0)
    /\ \A i \in 1..Len(Legacy) : i < m.item \/ (i = m.item /\ m.at = "done") => Said(th, er, Old, Legacy[i])

FetchOK(f) == f[List].chats \subseteq Chats /\ \A c \in Chats : f[c].at # "answered" => f[c].ver = 0

CallsInv ==
    /\ op \in [Tabs -> [Slots -> Calls]]
    /\ \A t \in Tabs, s \in Slots : CallOK(thread, erased, op[t][s])

MovesInv ==
    /\ moving \in [Tabs -> Moves]
    /\ \A t \in Tabs : MoveOK(thread, erased, moving[t])
    /\ budget.old /\ ~legacy => \A i \in 1..Len(Legacy) : Said(thread, erased, Old, Legacy[i])

TabsInv ==
    /\ list \in [Tabs -> SUBSET Chats] /\ sess \in [Tabs -> Chats \cup {None}] /\ typing \subseteq Chats
    /\ \A t \in Tabs : FetchOK(fetch[t]) /\ (sess[t] # None => sess[t] \in list[t])

ThreadsInv ==
    /\ live \subseteq Chats /\ erased \subseteq Chats
    /\ thread \in [Chats -> Seq(Messages)]
    /\ RepliesFollow

BudgetOK == budget \in [open : SUBSET Tabs, sends : Nat, panels : Nat, faults : Nat, old : BOOLEAN]

TalkInv == CopyInv /\ CallsInv /\ MovesInv /\ TabsInv /\ ThreadsInv /\ BudgetOK

LEMMA TalkConstants ==
    /\ Len(Legacy) \in Nat /\ DOMAIN Legacy = 1..Len(Legacy)
    /\ \A i \in 1..Len(Legacy) : Legacy[i] \in Messages /\ Legacy[i][2] = 0
    /\ Old \in Chats /\ List \notin Chats /\ None \notin Chats /\ List \in Keys /\ Chats \subseteq Keys
    /\ Free \in Calls /\ Free.step = "free" /\ Free.phase = "none" /\ Free.waits = {} /\ NotMoving \in Moves /\ NotMoving.item = 0
    /\ NotMoving.at = "none"
    /\ Rest.at = "idle" /\ Rest.ver = 0 /\ Rest.chats = {}
<1>1. /\ Len(Legacy) \in Nat /\ DOMAIN Legacy = 1..Len(Legacy)
      /\ \A i \in 1..Len(Legacy) : Legacy[i] \in {"user", "assistant"} \X {0}
  BY StoreAssumption
<1>2. \A i \in 1..Len(Legacy) : Legacy[i] \in Messages /\ Legacy[i][2] = 0
  BY <1>1 DEF Messages
<1>3. Free \in Calls /\ Free.step = "free" /\ Free.phase = "none" /\ Free.waits = {}
  BY DEF Free, Calls, Steps, Phases
<1>4. NotMoving \in Moves /\ NotMoving.item = 0 /\ NotMoving.at = "none"
  BY <1>1 DEF NotMoving, Moves
<1> QED
  BY <1>1, <1>2, <1>3, <1>4, StoreAssumption DEF Keys, Rest

\* Threads only grow, until their conversation is deleted.
Grew ==
    /\ erased \subseteq erased'
    /\ \A c \in Chats \ erased' : \A j \in DOMAIN thread[c] :
          j \in DOMAIN thread'[c] /\ thread'[c][j] = thread[c][j]

LEMMA SaidStays ==
    ASSUME Grew, NEW c \in Chats, NEW m, Said(thread, erased, c, m)
    PROVE  Said(thread', erased', c, m)
BY DEF Grew, Said

LEMMA CallStays ==
    ASSUME Grew, NEW o, CallOK(thread, erased, o)
    PROVE  CallOK(thread', erased', o)
<1>1. Asking(o) => o.conv \in Chats
  BY DEF CallOK, Asking
<1>2. Asking(o) => Said(thread', erased', o.conv, <<"user", o.n>>)
  BY <1>1, SaidStays DEF CallOK
<1> QED
  BY <1>2 DEF CallOK

LEMMA MoveStays ==
    ASSUME Grew, NEW m, MoveOK(thread, erased, m)
    PROVE  MoveOK(thread', erased', m)
BY SaidStays, TalkConstants DEF MoveOK

\* One call becomes another.
LEMMA CallsKept ==
    ASSUME CallsInv, Grew, NEW t \in Tabs, NEW s \in Slots, NEW o,
           CallOK(thread', erased', o), op' = [op EXCEPT ![t][s] = o]
    PROVE  CallsInv'
<1>1. /\ op' \in [Tabs -> [Slots -> Calls]]
      /\ \A x \in Tabs, y \in Slots : op'[x][y] = IF x = t /\ y = s THEN o ELSE op[x][y]
  BY DEF CallsInv, CallOK
<1>2. \A x \in Tabs, y \in Slots : CallOK(thread', erased', op[x][y])
  BY CallStays DEF CallsInv
<1> QED
  BY <1>1, <1>2 DEF CallsInv

LEMMA CallsSame ==
    ASSUME CallsInv, Grew, op' = op
    PROVE  CallsInv'
BY CallStays DEF CallsInv

\* What is known of a call that is under way.
LEMMA CallTypes ==
    ASSUME CallsInv, NEW t \in Tabs, NEW s \in Slots
    PROVE  /\ CallOK(thread, erased, op[t][s]) /\ op[t][s] \in Calls
           /\ op[t][s].step # "free" => op[t][s].conv \in Chats /\ op[t][s].conv # None
BY TalkConstants DEF CallsInv, CallOK

LEMMA MovesSame ==
    ASSUME MovesInv, Grew, moving' = moving, budget'.old = budget.old, legacy' = legacy
    PROVE  MovesInv'
<1>1. \A t \in Tabs : MoveOK(thread', erased', moving[t])
  BY MoveStays DEF MovesInv
<1>2. budget.old /\ ~legacy => \A i \in 1..Len(Legacy) : Said(thread', erased', Old, Legacy[i])
  BY SaidStays, TalkConstants DEF MovesInv
<1> QED
  BY <1>1, <1>2 DEF MovesInv

LEMMA MovesKept ==
    ASSUME MovesInv, Grew, NEW t \in Tabs, NEW m, moving' = [moving EXCEPT ![t] = m],
           MoveOK(thread', erased', m), budget'.old = budget.old,
           \/ legacy' = legacy
           \/ \A i \in 1..Len(Legacy) : Said(thread', erased', Old, Legacy[i])
    PROVE  MovesInv'
<1>1. \A x \in Tabs : moving'[x] = (IF x = t THEN m ELSE moving[x]) /\ MoveOK(thread', erased', moving[x])
  BY MoveStays DEF MovesInv
<1>2. moving' \in [Tabs -> Moves]
  BY DEF MovesInv, MoveOK
<1>3. budget'.old /\ ~legacy' => \A i \in 1..Len(Legacy) : Said(thread', erased', Old, Legacy[i])
  BY SaidStays, TalkConstants DEF MovesInv
<1> QED
  BY <1>1, <1>2, <1>3 DEF MovesInv

LEMMA ThreadsSame ==
    ASSUME ThreadsInv, UNCHANGED service
    PROVE  ThreadsInv' /\ Grew
BY DEF ThreadsInv, Grew, service, RepliesFollow

\* A message is posted: an answer only where its question stands.
LEMMA PostKept ==
    ASSUME ThreadsInv, NEW c \in Chats, NEW m \in Messages, Post(c, m),
           m[1] = "assistant" /\ m[2] > 0 => Said(thread, erased, c, <<"user", m[2]>>)
    PROVE  ThreadsInv' /\ Grew /\ Said(thread', erased', c, m)
<1>1. thread[c] \in Seq(Messages) /\ Len(thread[c]) \in Nat /\ DOMAIN thread[c] = 1..Len(thread[c])
  BY DEF ThreadsInv
<1>2. /\ thread' = [x \in Chats |-> IF x = c THEN Append(thread[c], m) ELSE thread[x]]
      /\ live' = live \cup {c} /\ erased' = erased
  BY DEF Post, ThreadsInv
<1>3. /\ Append(thread[c], m) \in Seq(Messages) /\ Len(Append(thread[c], m)) = Len(thread[c]) + 1
      /\ DOMAIN Append(thread[c], m) = 1..(Len(thread[c]) + 1)
      /\ Append(thread[c], m)[Len(thread[c]) + 1] = m
      /\ \A i \in 1..Len(thread[c]) : Append(thread[c], m)[i] = thread[c][i]
  BY <1>1
<1>4. Grew
  BY <1>1, <1>2, <1>3 DEF Grew
<1>5. Said(thread', erased', c, m)
  BY <1>1, <1>2, <1>3 DEF Said
<1>6. ASSUME NEW x \in Chats \ erased', NEW i \in DOMAIN thread'[x],
             thread'[x][i][1] = "assistant", thread'[x][i][2] > 0
      PROVE  \E j \in 1..(i - 1) : thread'[x][j] = <<"user", thread'[x][i][2]>>
  <2>1. CASE x # c
    BY <1>2, <1>6, <2>1 DEF ThreadsInv, RepliesFollow
  <2>2. CASE x = c /\ i \in 1..Len(thread[c])
    <3>0. /\ c \in Chats \ erased /\ i \in DOMAIN thread[c] /\ thread'[x][i] = thread[c][i]
          /\ thread[c][i][1] = "assistant" /\ thread[c][i][2] > 0
      BY <1>1, <1>2, <1>3, <1>6, <2>2
    <3>1. PICK j \in 1..(i - 1) : thread[c][j] = <<"user", thread[c][i][2]>>
      BY <3>0 DEF ThreadsInv, RepliesFollow
    <3>2. j \in 1..Len(thread[c])
      BY <1>1, <2>2, <3>1
    <3>3. thread'[x][j] = thread[c][j]
      BY <1>2, <1>3, <2>2, <3>2
    <3> QED
      BY <3>0, <3>1, <3>3
  <2>3. CASE x = c /\ i = Len(thread[c]) + 1
    <3>1. thread'[x][i] = m
      BY <1>2, <1>3, <2>3
    <3>2. PICK j \in DOMAIN thread[c] : thread[c][j] = <<"user", m[2]>>
      BY <1>2, <1>6, <2>3, <3>1 DEF Said
    <3>3. j \in 1..(i - 1) /\ thread'[x][j] = thread[c][j]
      BY <1>1, <1>2, <1>3, <2>3, <3>2
    <3> QED
      BY <3>1, <3>2, <3>3
  <2>4. x = c => i \in 1..(Len(thread[c]) + 1)
    BY <1>2, <1>3, <1>6
  <2>5. x = c => i \in 1..Len(thread[c]) \/ i = Len(thread[c]) + 1
    BY <1>1, <2>4
  <2> QED
    BY <2>1, <2>2, <2>3, <2>5
<1>7. RepliesFollow'
  BY <1>6 DEF RepliesFollow
<1>8. thread' \in [Chats -> Seq(Messages)]
  BY <1>2, <1>3 DEF ThreadsInv
<1> QED
  BY <1>2, <1>4, <1>5, <1>7, <1>8 DEF ThreadsInv

LEMMA EraseKept ==
    ASSUME ThreadsInv, NEW c \in Chats, Erase(c)
    PROVE  ThreadsInv' /\ Grew
<1>1. /\ thread' = [x \in Chats |-> IF x = c THEN <<>> ELSE thread[x]]
      /\ live' = live \ {c} /\ erased' = erased \cup {c}
  BY DEF Erase, ThreadsInv
<1>2. thread' \in [Chats -> Seq(Messages)]
  BY <1>1 DEF ThreadsInv
<1>3. RepliesFollow'
  <2>1. \A x \in Chats \ erased' : x \in Chats \ erased /\ thread'[x] = thread[x]
    BY <1>1
  <2>2. ASSUME NEW x \in Chats \ erased', NEW i \in DOMAIN thread'[x],
               thread'[x][i][1] = "assistant", thread'[x][i][2] > 0
        PROVE  \E j \in 1..(i - 1) : thread'[x][j] = <<"user", thread'[x][i][2]>>
    <3>1. x \in Chats \ erased /\ thread'[x] = thread[x] /\ RepliesFollow
      BY <2>1 DEF ThreadsInv
    <3>2. \E j \in 1..(i - 1) : thread[x][j] = <<"user", thread[x][i][2]>>
      BY <2>2, <3>1 DEF RepliesFollow
    <3> QED
      BY <3>1, <3>2
  <2> QED
    BY <2>2 DEF RepliesFollow
<1> QED
  BY <1>1, <1>2, <1>3 DEF ThreadsInv, Grew

LEMMA CreateKept ==
    ASSUME ThreadsInv, NEW c \in Chats, Create(c)
    PROVE  ThreadsInv' /\ Grew
BY DEF ThreadsInv, Grew, Create, RepliesFollow

--------------------------------------------------------------------------------
(* What a tab shows and fetches. *)

LEMMA AskOK ==
    ASSUME NEW f, NEW ks, FetchOK(f)
    PROVE  FetchOK(Ask(f, ks))
<1>1. \A k \in Keys : Ask(f, ks)[k] = f[k] \/ Ask(f, ks)[k] = [Rest EXCEPT !.at = "asked"]
  BY DEF Ask
<1>2. [Rest EXCEPT !.at = "asked"].chats = {} /\ [Rest EXCEPT !.at = "asked"].ver = 0
  BY DEF Rest
<1> QED
  BY <1>1, <1>2, TalkConstants DEF FetchOK

LEMMA KeyOK ==
    ASSUME NEW f, FetchOK(f), f = [k \in Keys |-> f[k]], NEW k \in Keys, NEW r,
           r.chats \subseteq Chats, r.at # "answered" => r.ver = 0
    PROVE  FetchOK([f EXCEPT ![k] = r])
<1>1. \A x \in Keys : [f EXCEPT ![k] = r][x] = IF x = k THEN r ELSE f[x]
  OBVIOUS
<1> QED
  BY <1>1, TalkConstants DEF FetchOK

LEMMA AnswersOK ==
    ASSUME ThreadsInv, NEW k \in Keys
    PROVE  Answers(k).chats \subseteq Chats /\ (Answers(k).at # "answered" => Answers(k).ver = 0)
<1>1. CASE k = List
  <2>1. Answers(k) = [Rest EXCEPT !.at = "answered", !.chats = live]
    BY <1>1, TalkConstants DEF Answers, ThreadsInv
  <2> QED
    BY <2>1 DEF Rest, ThreadsInv
<1>2. CASE k # List /\ k \in live
  <2>1. Answers(k) = [Rest EXCEPT !.at = "answered", !.msgs = thread[k], !.ver = version[k]]
    BY <1>2 DEF Answers
  <2> QED
    BY <2>1 DEF Rest
<1>3. CASE k # List /\ k \notin live
  <2>1. Answers(k) = [Rest EXCEPT !.at = "failed"]
    BY <1>3 DEF Answers
  <2> QED
    BY <2>1 DEF Rest
<1> QED
  BY <1>1, <1>2, <1>3

\* A tab may be given another selection, list and fetches that fit each other.
LEMMA TabsKept ==
    ASSUME CopyInv, TabsInv, NEW t \in Tabs, NEW s \in Chats \cup {None}, NEW l \in SUBSET Chats, NEW f,
           s # None => s \in l, FetchOK(f),
           sess' = [sess EXCEPT ![t] = s], list' = [list EXCEPT ![t] = l],
           fetch' = [fetch EXCEPT ![t] = f], typing' \subseteq Chats
    PROVE  TabsInv'
<1>1. \A x \in Tabs : fetch'[x] = IF x = t THEN f ELSE fetch[x]
  BY DEF CopyInv
<1>2. \A x \in Tabs : /\ sess'[x] = IF x = t THEN s ELSE sess[x]
                      /\ list'[x] = IF x = t THEN l ELSE list[x]
  BY DEF TabsInv
<1>3. \A x \in Tabs : FetchOK(fetch'[x]) /\ (sess'[x] # None => sess'[x] \in list'[x])
  BY <1>1, <1>2 DEF TabsInv
<1>4. sess' \in [Tabs -> Chats \cup {None}] /\ list' \in [Tabs -> SUBSET Chats]
  BY DEF TabsInv
<1> QED
  BY <1>3, <1>4 DEF TabsInv

LEMMA FetchesKept ==
    ASSUME CopyInv, TabsInv, NEW t \in Tabs, NEW f, FetchOK(f), fetch' = [fetch EXCEPT ![t] = f],
           UNCHANGED <<sess, list>>, typing' \subseteq Chats
    PROVE  TabsInv'
<1>1. sess' = [sess EXCEPT ![t] = sess[t]] /\ list' = [list EXCEPT ![t] = list[t]]
  BY DEF TabsInv
<1>2. sess[t] \in Chats \cup {None} /\ list[t] \in SUBSET Chats /\ (sess[t] # None => sess[t] \in list[t])
  BY DEF TabsInv
<1> QED
  BY <1>1, <1>2, TabsKept

LEMMA SettleTabs ==
    ASSUME CopyInv, TabsInv, NEW t \in Tabs, NEW s \in Chats \cup {None}, NEW l \in SUBSET Chats, NEW cp, NEW f,
           NEW emitted, NEW mark \in SUBSET Chats, s # None => s \in l, FetchOK(f),
           Settle(t, s, l, cp, f, emitted, mark)
    PROVE  TabsInv'
<1> DEFINE g == IF s \in {sess[t], None} THEN f ELSE Ask(f, {s})
<1>1. FetchOK(g)
  BY AskOK
<1>2. /\ sess' = [sess EXCEPT ![t] = s] /\ list' = [list EXCEPT ![t] = l] /\ fetch' = [fetch EXCEPT ![t] = g]
  BY DEF Settle
<1>3. typing' \subseteq Chats
  BY DEF Settle, TabsInv
<1> HIDE DEF g
<1> QED
  BY <1>1, <1>2, <1>3, TabsKept

\* What the list picks is listed.
LEMMA PicksListed ==
    ASSUME NEW cur, NEW l \in SUBSET Chats, NEW s \in Picks(cur, l)
    PROVE  s \in Chats \cup {None} /\ (s # None => s \in l)
BY DEF Picks

\* All the calls of a tab become others.
LEMMA CallsEach ==
    ASSUME CallsInv, Grew, NEW t \in Tabs, NEW os \in [Slots -> Calls],
           \A s \in Slots : CallOK(thread', erased', os[s]), op' = [op EXCEPT ![t] = os]
    PROVE  CallsInv'
<1>1. \A x \in Tabs : op'[x] = IF x = t THEN os ELSE op[x]
  BY DEF CallsInv
<1>2. \A x \in Tabs, y \in Slots : CallOK(thread', erased', op[x][y])
  BY CallStays DEF CallsInv
<1>3. op' \in [Tabs -> [Slots -> Calls]]
  BY DEF CallsInv
<1> QED
  BY <1>1, <1>2, <1>3 DEF CallsInv

\* An answer has arrived for the calls that await it.
LEMMA ArrivedCalls ==
    ASSUME CallsInv, Grew, NEW t \in Tabs, NEW k, Arrived(t, k)
    PROVE  CallsInv'
<1> DEFINE os == [s \in Slots |-> [op[t][s] EXCEPT !.waits = @ \ {k}]]
<1>1. ASSUME NEW s \in Slots
      PROVE  os[s] \in Calls /\ CallOK(thread', erased', os[s])
  <2>1. op[t][s] \in Calls /\ CallOK(thread', erased', op[t][s])
    BY CallTypes, CallStays
  <2>2. os[s] = [op[t][s] EXCEPT !.waits = @ \ {k}]
    OBVIOUS
  <2>3. /\ os[s] \in Calls /\ os[s].step = op[t][s].step /\ os[s].phase = op[t][s].phase
        /\ os[s].conv = op[t][s].conv /\ os[s].n = op[t][s].n
    BY <2>1, <2>2 DEF Calls
  <2>4. op[t][s].step = "free" => os[s] = Free
    <3> SUFFICES ASSUME op[t][s].step = "free" PROVE os[s] = Free
      OBVIOUS
    <3>1. op[t][s] = Free
      BY <2>1 DEF CallOK
    <3>2. os[s] = [Free EXCEPT !.waits = {}]
      BY <2>2, <3>1, TalkConstants
    <3> QED
      BY <3>2 DEF Free
  <2> HIDE DEF os
  <2> QED
    BY <2>1, <2>3, <2>4 DEF CallOK, Asking
<1>2. os \in [Slots -> Calls]
  BY <1>1
<1>3. op' = [op EXCEPT ![t] = os]
  BY DEF Arrived
<1> HIDE DEF os
<1> QED
  BY <1>1, <1>2, <1>3, CallsEach

\* A call goes on to another step or phase.
LEMMA StepOK ==
    ASSUME NEW th, NEW er, NEW o, CallOK(th, er, o), o.step # "free",
           NEW step \in Steps \ {"free"}, NEW phase \in Phases,
           Asking([o EXCEPT !.step = step, !.phase = phase]) => Said(th, er, o.conv, <<"user", o.n>>)
    PROVE  CallOK(th, er, [o EXCEPT !.step = step, !.phase = phase])
<1> DEFINE p == [o EXCEPT !.step = step, !.phase = phase]
<1>1. p \in Calls /\ p.conv = o.conv /\ p.n = o.n
  BY DEF CallOK, Calls
<1> HIDE DEF p
<1>2. CallOK(th, er, p)
  BY <1>1 DEF CallOK, p
<1> QED
  BY <1>2 DEF p

LEMMA FreeOK ==
    ASSUME NEW th, NEW er
    PROVE  CallOK(th, er, Free)
BY TalkConstants DEF CallOK, Asking, Free

\* The first step of a call asks nothing yet.
LEMMA FirstStep ==
    ASSUME NEW th, NEW er, NEW o \in Calls, o.conv \in Chats,
           NEW step \in {"ask", "create", "new", "rename", "delete"}
    PROVE  CallOK(th, er, [o EXCEPT !.step = step, !.phase = "sent"])
<1> DEFINE p == [o EXCEPT !.step = step, !.phase = "sent"]
<1>1. p \in Calls /\ p.step = step /\ p.phase = "sent" /\ p.conv \in Chats
  BY DEF Calls, Steps, Posts, Renames, Phases
<1> HIDE DEF p
<1>2. CallOK(th, er, p)
  BY <1>1 DEF CallOK, Asking
<1> QED
  BY <1>2 DEF p

LEMMA FaultBudget ==
    ASSUME BudgetOK, Fault
    PROVE  BudgetOK' /\ budget'.old = budget.old
BY DEF BudgetOK, Fault

--------------------------------------------------------------------------------
(* Every action keeps what is said. *)

LEMMA StoreTalk ==
    ASSUME TalkInv, CopyInv', NEW t \in Tabs, Store(t)
    PROVE  TalkInv'
<1>0. /\ CopyInv /\ CallsInv /\ MovesInv /\ TabsInv /\ ThreadsInv /\ BudgetOK
      /\ UNCHANGED <<sess, typing, op>>
  BY DEF TalkInv, Store, pageVars
<1>1. moving[t] \in Moves /\ MoveOK(thread, erased, moving[t])
  BY <1>0 DEF MovesInv
<1>2. FetchOK(fetch[t]) /\ fetch[t] = [k \in Keys |-> fetch[t][k]]
  BY <1>0 DEF TabsInv, CopyInv, Fresh
<1>3. ASSUME UNCHANGED <<list, fetch>> PROVE TabsInv'
  BY <1>0, <1>3 DEF TabsInv
<1>4. ASSUME UNCHANGED <<service, local, list>>, BudgetOK', budget'.old = budget.old,
             NEW f, FetchOK(f), fetch' = [fetch EXCEPT ![t] = f]
      PROVE  TalkInv'
  <2>1. ThreadsInv' /\ Grew /\ UNCHANGED <<moving, legacy>>
    BY <1>0, <1>4, ThreadsSame DEF local
  <2>2. CallsInv' /\ MovesInv'
    BY <1>0, <1>4, <2>1, CallsSame, MovesSame
  <2>3. typing' \subseteq Chats
    BY <1>0 DEF TabsInv
  <2>4. TabsInv'
    BY <1>0, <1>4, <2>3, FetchesKept
  <2> QED
    BY <1>4, <2>1, <2>2, <2>4 DEF TalkInv
<1>5. ASSUME ThreadsInv', Grew, UNCHANGED <<legacy, list, fetch>>, BudgetOK', budget'.old = budget.old,
             NEW m, MoveOK(thread', erased', m), moving' = [moving EXCEPT ![t] = m]
      PROVE  TalkInv'
  BY <1>0, <1>3, <1>5, CallsSame, MovesKept DEF TalkInv
<1>6. CASE \E k \in Keys : Answer(t, k)
  <2>1. PICK k \in Keys : Answer(t, k)
    BY <1>6
  <2>2. FetchOK([fetch[t] EXCEPT ![k] = Answers(k)])
    BY <1>0, <1>2, AnswersOK, KeyOK
  <2>3. fetch' = [fetch EXCEPT ![t] = [fetch[t] EXCEPT ![k] = Answers(k)]]
    BY <2>1 DEF Answer
  <2> QED
    BY <1>0, <1>4, <2>1, <2>2, <2>3 DEF Answer, BudgetOK
<1>7. CASE \E k \in Keys : LoseFetch(t, k)
  <2>1. PICK k \in Keys : LoseFetch(t, k)
    BY <1>7
  <2> DEFINE lost == [Rest EXCEPT !.at = "failed"]
  <2>2. lost.chats \subseteq Chats /\ lost.ver = 0
    BY DEF Rest
  <2>3. fetch' = [fetch EXCEPT ![t] = [fetch[t] EXCEPT ![k] = lost]] /\ Fault
        /\ UNCHANGED <<service, local, list>>
    BY <2>1 DEF LoseFetch
  <2> HIDE DEF lost
  <2>4. FetchOK([fetch[t] EXCEPT ![k] = lost])
    BY <1>2, <2>2, KeyOK
  <2> QED
    BY <1>0, <1>4, <2>3, <2>4, FaultBudget
<1>8. CASE Move(t)
  <2>1. ThreadsInv' /\ Grew /\ BudgetOK'
    BY <1>0, <1>8, ThreadsSame DEF Move, BudgetOK
  <2>2. CASE legacy
    <3> DEFINE m == [at |-> "sent", item |-> 0]
    <3>1. m \in Moves /\ MoveOK(thread', erased', m)
      BY TalkConstants DEF MoveOK, Moves
    <3>2. moving' = [moving EXCEPT ![t] = m]
      BY <1>8, <2>2 DEF Move
    <3> HIDE DEF m
    <3> QED
      BY <1>5, <1>8, <2>1, <3>1, <3>2 DEF Move
  <2>3. CASE ~legacy
    <3>1. moving' = [moving EXCEPT ![t] = moving[t]]
      BY <1>0, <1>8, <2>3 DEF Move, MovesInv
    <3>2. MoveOK(thread', erased', moving[t])
      BY <1>1, <2>1, MoveStays
    <3> QED
      BY <1>5, <1>8, <2>1, <3>1, <3>2 DEF Move
  <2> QED
    BY <2>2, <2>3
<1>9. CASE MoveCreated(t)
  <2> DEFINE m == [moving[t] EXCEPT !.at = "done"]
  <2>1. ThreadsInv' /\ Grew /\ BudgetOK'
    BY <1>0, <1>9, CreateKept, TalkConstants DEF MoveCreated, BudgetOK
  <2>2. m = [at |-> "done", item |-> 0]
    BY <1>9 DEF MoveCreated
  <2>3. MoveOK(thread', erased', m)
    BY <2>2, TalkConstants DEF MoveOK, Moves
  <2>4. moving' = [moving EXCEPT ![t] = m]
    BY <1>9 DEF MoveCreated
  <2> HIDE DEF m
  <2> QED
    BY <1>5, <1>9, <2>1, <2>3, <2>4 DEF MoveCreated
<1>10. CASE MoveChecked(t)
  <2> DEFINE m == [moving[t] EXCEPT !.at = IF Old \in live THEN "read" ELSE "failed"]
  <2>1. ThreadsInv' /\ Grew /\ BudgetOK'
    BY <1>0, <1>10, ThreadsSame DEF MoveChecked, BudgetOK
  <2>2. m \in Moves /\ m.at # "done" /\ m.item = moving[t].item /\ m.item > 0
    BY <1>1, <1>10 DEF Moves, MoveChecked
  <2>3. MoveOK(thread', erased', moving[t])
    BY <1>1, <2>1, MoveStays
  <2>4. moving' = [moving EXCEPT ![t] = m]
    BY <1>10 DEF MoveChecked
  <2> HIDE DEF m
  <2>5. MoveOK(thread', erased', m)
    BY <2>2, <2>3 DEF MoveOK
  <2> QED
    BY <1>5, <1>10, <2>1, <2>4, <2>5 DEF MoveChecked
<1>11. CASE MovePosted(t)
  <2> DEFINE m == [moving[t] EXCEPT !.at = "done"]
             i == moving[t].item
  <2>1. i \in 1..Len(Legacy) /\ Legacy[i] \in Messages /\ Legacy[i][2] = 0 /\ Old \in Chats
    BY <1>1, <1>11, TalkConstants DEF MovePosted, MoveOK, Moves
  <2>2. Post(Old, Legacy[i]) /\ moving' = [moving EXCEPT ![t] = m]
    BY <1>11 DEF MovePosted
  <2>8. ~(Legacy[i][2] > 0)
    BY <2>1
  <2> HIDE DEF i
  <2>3. ThreadsInv' /\ Grew /\ Said(thread', erased', Old, Legacy[i])
    BY <1>0, <2>1, <2>2, <2>8, PostKept
  <2> USE DEF i
  <2>4. MoveOK(thread', erased', moving[t])
    BY <1>1, <2>3, MoveStays
  <2>5. m \in Moves /\ m.at = "done" /\ m.item = i
    BY <1>1 DEF Moves
  <2> HIDE DEF m
  <2>6. MoveOK(thread', erased', m)
    BY <2>3, <2>4, <2>5 DEF MoveOK
  <2>7. BudgetOK'
    BY <1>0, <1>11 DEF MovePosted, BudgetOK
  <2> QED
    BY <1>5, <1>11, <2>2, <2>3, <2>6, <2>7 DEF MovePosted
<1>12. CASE MoveLost(t)
  <2> DEFINE m == [moving[t] EXCEPT !.at = "failed"]
  <2>1. ThreadsInv' /\ Grew /\ BudgetOK' /\ budget'.old = budget.old
    BY <1>0, <1>12, ThreadsSame, FaultBudget DEF MoveLost
  <2>2. m \in Moves /\ m.at = "failed" /\ m.item = moving[t].item
    BY <1>1 DEF Moves
  <2>3. MoveOK(thread', erased', moving[t])
    BY <1>1, <2>1, MoveStays
  <2>4. moving' = [moving EXCEPT ![t] = m]
    BY <1>12 DEF MoveLost
  <2> HIDE DEF m
  <2>5. MoveOK(thread', erased', m)
    BY <2>2, <2>3 DEF MoveOK
  <2> QED
    BY <1>5, <1>12, <2>1, <2>4, <2>5 DEF MoveLost
<1>13. CASE MoveNext(t)
  <2> DEFINE m == [at |-> "sent", item |-> moving[t].item + 1]
  <2>1. ThreadsInv' /\ Grew /\ BudgetOK'
    BY <1>0, <1>13, ThreadsSame DEF MoveNext, BudgetOK
  <2>2. moving[t].at = "done" /\ moving[t].item < Len(Legacy) /\ moving[t].item \in Nat
    BY <1>1, <1>13 DEF MoveNext, Moves
  <2>3. m \in Moves /\ m.at = "sent" /\ m.item = moving[t].item + 1
    BY <2>2, TalkConstants DEF Moves
  <2>4. MoveOK(thread', erased', moving[t])
    BY <1>1, <2>1, MoveStays
  <2>5. moving' = [moving EXCEPT ![t] = m]
    BY <1>13 DEF MoveNext
  <2> HIDE DEF m
  <2>6. \A i \in 1..Len(Legacy) : i < m.item => i < moving[t].item \/ i = moving[t].item
    BY <2>2, <2>3
  <2>7. MoveOK(thread', erased', m)
    BY <2>2, <2>3, <2>4, <2>6 DEF MoveOK
  <2> QED
    BY <1>5, <1>13, <2>1, <2>5, <2>7 DEF MoveNext
<1>14. CASE MoveFailed(t)
  <2> DEFINE f == [k \in Keys |-> IF fetch[t][k].at = "asked" THEN [Rest EXCEPT !.at = "failed"]
                                                             ELSE fetch[t][k]]
  <2>1. ThreadsInv' /\ Grew /\ BudgetOK'
    BY <1>0, <1>14, ThreadsSame DEF MoveFailed, BudgetOK
  <2>2. [Rest EXCEPT !.at = "failed"].chats = {} /\ [Rest EXCEPT !.at = "failed"].ver = 0
    BY DEF Rest
  <2>3. \A k \in Keys : f[k] = fetch[t][k] \/ (f[k].chats = {} /\ f[k].ver = 0)
    BY <2>2
  <2>4. moving' = [moving EXCEPT ![t] = NotMoving] /\ fetch' = [fetch EXCEPT ![t] = f]
    BY <1>14 DEF MoveFailed
  <2> HIDE DEF f
  <2>5. FetchOK(f)
    BY <1>2, <2>3, TalkConstants DEF FetchOK
  <2>6. MoveOK(thread', erased', NotMoving)
    BY TalkConstants DEF MoveOK
  <2>7. MovesInv'
    BY <1>0, <1>14, <2>1, <2>4, <2>6, MovesKept DEF MoveFailed
  <2>8. TabsInv'
    <3>1. typing' \subseteq Chats /\ UNCHANGED <<sess, list>>
      BY <1>0, <1>14 DEF TabsInv, MoveFailed
    <3> QED
      BY <1>0, <2>4, <2>5, <3>1, FetchesKept
  <2> QED
    BY <1>0, <2>1, <2>7, <2>8, CallsSame DEF TalkInv
<1> QED
  BY <1>6, <1>7, <1>8, <1>9, <1>10, <1>11, <1>12, <1>13, <1>14 DEF Store

LEMMA ServiceTalk ==
    ASSUME TalkInv, CopyInv', NEW t \in Tabs, Service(t)
    PROVE  TalkInv'
<1>0. CopyInv /\ CallsInv /\ MovesInv /\ TabsInv /\ ThreadsInv /\ BudgetOK
  BY DEF TalkInv
<1>1. PICK s \in Slots : ServeCheck(t, s) \/ ServeWrite(t, s) \/ ServeLost(t, s)
  BY DEF Service
<1> DEFINE o == op[t][s]
<1>2. o \in Calls /\ CallOK(thread, erased, o) /\ (o.step # "free" => o.conv \in Chats /\ o.conv # None)
  BY <1>0, CallTypes
<1>3. UNCHANGED <<moving, legacy, list, fetch, sess, typing>>
  BY <1>1 DEF ServeCheck, ServeWrite, ServeLost, storeVars, local
<1>4. TabsInv'
  BY <1>0, <1>3 DEF TabsInv
<1>5. ASSUME ThreadsInv', Grew, BudgetOK', budget'.old = budget.old, NEW phase \in Phases, o.step # "free",
             Phase(t, s, phase),
             Asking([o EXCEPT !.step = o.step, !.phase = phase]) =>
                 Said(thread', erased', o.conv, <<"user", o.n>>)
      PROVE  TalkInv'
  <2>1. CallOK(thread', erased', o)
    BY <1>2, <1>5, CallStays
  <2>2. o.step \in Steps \ {"free"}
    BY <1>2, <1>5 DEF Calls
  <2>3. [o EXCEPT !.phase = phase] = [o EXCEPT !.step = o.step, !.phase = phase]
    BY <1>2 DEF Calls
  <2>4. CallOK(thread', erased', [o EXCEPT !.phase = phase])
    <3> DEFINE step == o.step
    <3>1. step \in Steps \ {"free"} /\ o.step # "free"
      BY <2>2
    <3>2. Asking([o EXCEPT !.step = step, !.phase = phase]) => Said(thread', erased', o.conv, <<"user", o.n>>)
      BY <1>5
    <3>3. [o EXCEPT !.phase = phase] = [o EXCEPT !.step = step, !.phase = phase]
      BY <2>3
    <3> HIDE DEF step, o
    <3>4. CallOK(thread', erased', [o EXCEPT !.step = step, !.phase = phase])
      BY <1>5, <2>1, <3>1, <3>2, StepOK
    <3> QED
      BY <3>3, <3>4
  <2>5. op' = [op EXCEPT ![t][s] = [o EXCEPT !.phase = phase]]
    BY <1>0, <1>5 DEF Phase, CallsInv
  <2> HIDE DEF o
  <2>6. CallsInv'
    BY <1>0, <1>5, <2>4, <2>5, CallsKept
  <2>7. MovesInv'
    BY <1>0, <1>3, <1>5, MovesSame
  <2> QED
    BY <1>4, <1>5, <2>6, <2>7 DEF TalkInv
<1>6. Asking(o) => Said(thread, erased, o.conv, <<"user", o.n>>)
  BY <1>2 DEF CallOK
<1>7. ASSUME NEW phase \in Phases, phase \notin {"done", "wait"},
             Asking([o EXCEPT !.step = o.step, !.phase = phase])
      PROVE  Asking(o)
  BY <1>2, <1>7 DEF Asking, Calls
<1> HIDE DEF o
<1>8. CASE ServeCheck(t, s)
  <2>1. ThreadsInv' /\ Grew /\ BudgetOK' /\ budget' = budget
    BY <1>0, <1>8, ThreadsSame DEF ServeCheck, storeVars, BudgetOK
  <2>2. o.step # "free"
    BY <1>8 DEF ServeCheck, Posts, Renames, o
  <2>3. PICK phase \in {"read", "failed"} : Phase(t, s, phase)
    BY <1>8 DEF ServeCheck
  <2>4. phase \in Phases
    BY DEF Phases
  <2>5. thread' = thread /\ erased' = erased
    BY <1>8 DEF ServeCheck, storeVars, service
  <2> QED
    BY <1>5, <1>6, <1>7, <2>1, <2>2, <2>3, <2>4, <2>5
<1>9. CASE ServeLost(t, s)
  <2>1. ThreadsInv' /\ Grew /\ BudgetOK' /\ budget'.old = budget.old
    BY <1>0, <1>9, ThreadsSame, FaultBudget DEF ServeLost
  <2>2. o.step # "free"
    BY <1>2, <1>9, TalkConstants DEF ServeLost, CallOK, o
  <2>3. Phase(t, s, "failed") /\ "failed" \in Phases
    BY <1>9 DEF ServeLost, Phases
  <2>5. thread' = thread /\ erased' = erased
    BY <1>9 DEF ServeLost, service
  <2> QED
    BY <1>5, <1>6, <1>7, <2>1, <2>2, <2>3, <2>5
<1>10. CASE ServeWrite(t, s)
  <2>1. Phase(t, s, "done") /\ "done" \in Phases /\ budget' = budget
    BY <1>10 DEF ServeWrite, Phases
  <2>2. BudgetOK'
    BY <1>0, <2>1 DEF BudgetOK
  <2>3. CASE o.phase = "sent" /\ o.step \in {"create", "new"} /\ Create(o.conv)
    <3>1. ThreadsInv' /\ Grew
      BY <1>0, <1>2, <2>3, CreateKept
    <3>2. ~Asking([o EXCEPT !.step = o.step, !.phase = "done"])
      BY <1>2, <2>3 DEF Asking, Calls
    <3> QED
      BY <1>5, <2>1, <2>2, <2>3, <3>1, <3>2
  <2>4. CASE o.phase = "read" /\ o.step \in Posts /\ Post(o.conv, <<Role[o.step], o.n>>)
    <3>1. o.step # "free" /\ o.conv \in Chats /\ o.n \in Nat
      BY <1>2, <2>4 DEF Posts, Calls
    <3> DEFINE m == <<Role[o.step], o.n>>
    <3>2. /\ m \in Messages /\ m[2] = o.n
          /\ o.step = "ask" => m = <<"user", o.n>>
          /\ m[1] = "assistant" => o.step = "reply"
      BY <2>4, <3>1 DEF Messages, Posts, Role
    <3>3. m[1] = "assistant" /\ m[2] > 0 => Said(thread, erased, o.conv, <<"user", m[2]>>)
      BY <1>6, <3>2 DEF Asking
    <3> HIDE DEF m
    <3>4. Post(o.conv, m)
      BY <2>4 DEF m
    <3>5. ThreadsInv' /\ Grew /\ Said(thread', erased', o.conv, m)
      BY <1>0, <3>1, <3>2, <3>3, <3>4, PostKept
    <3>6. o.step = "reply" => Said(thread', erased', o.conv, <<"user", o.n>>)
      BY <1>6, <3>1, <3>5, SaidStays DEF Asking
    <3>7. o.step = "ask" => Said(thread', erased', o.conv, <<"user", o.n>>)
      BY <3>2, <3>5
    <3>8. Asking([o EXCEPT !.step = o.step, !.phase = "done"]) => o.step \in {"ask", "reply"}
      BY <1>2, <2>4 DEF Asking, Calls, Posts
    <3> QED
      BY <1>5, <2>1, <2>2, <3>1, <3>5, <3>6, <3>7, <3>8
  <2>5. CASE o.phase = "read" /\ o.step = "delete" /\ Erase(o.conv)
    <3>1. ThreadsInv' /\ Grew
      BY <1>0, <1>2, <2>5, EraseKept
    <3>2. ~Asking([o EXCEPT !.step = o.step, !.phase = "done"])
      BY <1>2, <2>5 DEF Asking, Calls
    <3> QED
      BY <1>5, <2>1, <2>2, <2>5, <3>1, <3>2
  <2>6. CASE /\ \/ o.phase = "read" /\ o.step \in Renames
                \/ o.phase = "sent" /\ o.step = "chat"
             /\ UNCHANGED service
    <3>1. ThreadsInv' /\ Grew /\ thread' = thread /\ erased' = erased
      BY <1>0, <2>6, ThreadsSame DEF service
    <3>2. o.step # "free"
      BY <2>6 DEF Renames
    <3>3. Asking([o EXCEPT !.step = o.step, !.phase = "done"]) => Asking(o)
      BY <1>2, <2>6 DEF Asking, Calls, Renames
    <3> QED
      BY <1>5, <1>6, <2>1, <2>2, <3>1, <3>2, <3>3
  <2> QED
    BY <1>10, <2>3, <2>4, <2>5, <2>6 DEF ServeWrite, o
<1> QED
  BY <1>1, <1>8, <1>9, <1>10

\* What the sidebar, the lists and the reloads of a tab show.
LEMMA PageTabs ==
    ASSUME TalkInv, NEW t \in Tabs, Page(t)
    PROVE  TabsInv'
<1>0. CopyInv /\ CallsInv /\ MovesInv /\ TabsInv /\ ThreadsInv
  BY DEF TalkInv
<1>1. FetchOK(fetch[t]) /\ fetch[t] = [k \in Keys |-> fetch[t][k]]
  BY <1>0 DEF TabsInv, CopyInv, Fresh
<1>2. /\ sess[t] \in Chats \cup {None} /\ list[t] \in SUBSET Chats /\ (sess[t] # None => sess[t] \in list[t])
      /\ \A s \in Slots : op[t][s].step # "free" => op[t][s].conv \in Chats /\ op[t][s].conv # None
      /\ {} \in SUBSET Chats /\ "send" \in Slots /\ "panel" \in Slots
  BY <1>0, CallTypes DEF TabsInv, Slots
<1>3. /\ Rest.chats \subseteq Chats /\ Rest.ver = 0
      /\ \A ks : FetchOK(Ask(fetch[t], ks)) /\ FetchOK(Broadcast(t, fetch[t]))
      /\ \A k \in Keys : FetchOK([fetch[t] EXCEPT ![k] = Rest])
  BY <1>1, AskOK, KeyOK, TalkConstants DEF Broadcast
<1>4. ASSUME NEW f, FetchOK(f), fetch' = [fetch EXCEPT ![t] = f], UNCHANGED <<sess, list>>,
             typing' \subseteq typing
      PROVE  TabsInv'
  BY <1>0, <1>4, FetchesKept DEF TabsInv
<1>5. CASE \E k \in Keys : Poll(t, k)
  <2>1. PICK k \in Keys : Poll(t, k)
    BY <1>5
  <2>2. PICK r : /\ r \in {Answers(k), [Rest EXCEPT !.at = "asked"]}
                 /\ fetch' = [fetch EXCEPT ![t] = [fetch[t] EXCEPT ![k] = r]]
    BY <2>1 DEF Poll
  <2>3. [Rest EXCEPT !.at = "asked"].chats = {} /\ [Rest EXCEPT !.at = "asked"].ver = 0
    BY DEF Rest
  <2>4. r.chats \subseteq Chats /\ (r.at # "answered" => r.ver = 0)
    BY <1>0, <2>2, <2>3, AnswersOK
  <2>5. FetchOK([fetch[t] EXCEPT ![k] = r])
    BY <1>1, <2>4, KeyOK
  <2> QED
    BY <1>4, <2>1, <2>2, <2>5 DEF Poll, pageVars
<1>6. CASE ShowList(t)
  <2>1. PICK s \in Picks(sess[t], fetch[t][List].chats) :
            Settle(t, s, fetch[t][List].chats, copy[t], [fetch[t] EXCEPT ![List] = Rest], {}, {})
    BY <1>6 DEF ShowList
  <2>2. fetch[t][List].chats \in SUBSET Chats
    BY <1>1 DEF FetchOK
  <2>3. s \in Chats \cup {None} /\ (s # None => s \in fetch[t][List].chats)
    BY <2>1, <2>2, PicksListed
  <2>4. FetchOK([fetch[t] EXCEPT ![List] = Rest])
    BY <1>3, TalkConstants
  <2> QED
    BY <1>0, <1>2, <2>1, <2>2, <2>3, <2>4, SettleTabs
<1>7. CASE \E c \in Chats : ShowThread(t, c)
  <2>1. PICK c \in Chats : \E cp :
            Settle(t, sess[t], list[t], cp, [fetch[t] EXCEPT ![c] = Rest], {c}, {})
    BY <1>7 DEF ShowThread
  <2> QED
    BY <1>0, <1>2, <1>3, <2>1, SettleTabs, TalkConstants
<1>8. CASE \E c \in Chats : Select(t, c)
  <2>1. PICK c \in Chats : c \in list[t] /\ Settle(t, c, list[t], copy[t], fetch[t], {}, {})
    BY <1>8 DEF Select
  <2> QED
    BY <1>0, <1>1, <1>2, <2>1, SettleTabs
<1>9. CASE \E k \in Keys : Fallback(t, k)
  <2>1. PICK k \in Keys, s \in Picks(sess[t], list[t]) \cup {sess[t]} :
            Settle(t, s, list[t], copy[t], [fetch[t] EXCEPT ![k] = Rest], {k}, {})
    BY <1>9 DEF Fallback
  <2>2. s \in Chats \cup {None} /\ (s # None => s \in list[t])
    BY <1>2, <2>1, PicksListed
  <2> QED
    BY <1>0, <1>2, <1>3, <2>1, <2>2, SettleTabs
<1>10. CASE MoveEnded(t) \/ Refresh(t) \/ Asked(t) \/ ReplyPosted(t) \/ NotePosted(t)
  <2>1. /\ UNCHANGED <<sess, list>> /\ typing' \subseteq typing
        /\ \E ks : fetch' = [fetch EXCEPT ![t] = Ask(fetch[t], ks)]
    BY <1>10 DEF MoveEnded, Refresh, Asked, ReplyPosted, NotePosted, Refreshed, Broadcast, pageVars
  <2> QED
    BY <1>3, <1>4, <2>1
<1>11. CASE Submit(t)
  <2>1. UNCHANGED <<sess, list, fetch>> /\ typing' \subseteq typing \cup ({sess[t]} \ {None})
    BY <1>11 DEF Submit
  <2>2. typing' \subseteq Chats
    BY <1>0, <1>2, <2>1 DEF TabsInv
  <2> QED
    BY <1>0, <2>1, <2>2 DEF TabsInv
<1>12. CASE \/ Answered(t) \/ Catch(t) \/ PanelFailed(t)
            \/ \E step \in {"new", "rename", "delete"}, c \in Chats : Panel(t, step, c)
  <2>1. UNCHANGED <<sess, list, fetch, typing>>
    BY <1>12 DEF Answered, Catch, PanelFailed, Panel, storeVars
  <2> QED
    BY <1>0, <2>1 DEF TabsInv
<1>13. CASE SubmitCreated(t) \/ NewChat(t)
  <2>1. PICK c, mark : c \in Chats /\ mark \in SUBSET Chats /\ Created(t, c, mark)
    <3>1. CASE SubmitCreated(t)
      <4>1. op[t]["send"].step = "create" /\ Created(t, op[t]["send"].conv, {op[t]["send"].conv})
        BY <3>1 DEF SubmitCreated
      <4> QED
        BY <1>2, <4>1
    <3>2. CASE NewChat(t)
      <4>1. op[t]["panel"].step = "new" /\ Created(t, op[t]["panel"].conv, {})
        BY <3>2 DEF NewChat, Ends
      <4> QED
        BY <1>2, <4>1
    <3> QED
      BY <1>13, <3>1, <3>2
  <2>2. PICK cp : Settle(t, c, list[t] \cup {c}, cp, Broadcast(t, fetch[t]), {c}, mark)
    BY <2>1 DEF Created
  <2>3. list[t] \cup {c} \in SUBSET Chats /\ c \in list[t] \cup {c}
    BY <1>2, <2>1
  <2> QED
    BY <1>0, <1>3, <2>1, <2>2, <2>3, SettleTabs
<1>14. CASE \E s \in Slots : Renamed(t, s)
  <2>1. PICK s \in Slots : Renamed(t, s)
    BY <1>14
  <2> DEFINE l == list[t] \cup {op[t][s].conv}
  <2>2. op[t][s].step # "free"
    BY <2>1 DEF Renamed, Ends, Renames
  <2>3. l \in SUBSET Chats
    BY <1>2, <2>2
  <2>4. PICK x \in Picks(sess[t], l) : Settle(t, x, l, copy[t], Broadcast(t, fetch[t]), {}, {})
    BY <2>1 DEF Renamed
  <2> HIDE DEF l
  <2> QED
    BY <1>0, <1>2, <1>3, <2>3, <2>4, PicksListed, SettleTabs
<1>15. CASE Deleted(t)
  <2> DEFINE l == list[t] \ {op[t]["panel"].conv}
  <2>1. PICK x \in Picks(sess[t], l) : \E cp, emitted : Settle(t, x, l, cp, Broadcast(t, fetch[t]), emitted, {})
    BY <1>15 DEF Deleted
  <2>2. l \in SUBSET Chats
    BY <1>2
  <2> HIDE DEF l
  <2> QED
    BY <1>0, <1>2, <1>3, <2>1, <2>2, PicksListed, SettleTabs
<1>16. CASE Reload(t)
  <2> DEFINE f0 == [k \in Keys |-> Rest]
  <2>1. FetchOK(f0)
    BY TalkConstants DEF FetchOK
  <2>2. FetchOK(Ask(f0, {List}))
    BY <2>1, AskOK
  <2>3. /\ fetch' = [fetch EXCEPT ![t] = Ask(f0, {List})] /\ sess' = [sess EXCEPT ![t] = None]
        /\ list' = [list EXCEPT ![t] = {}] /\ typing' \subseteq Chats
    BY <1>0, <1>16 DEF Reload, TabsInv
  <2> HIDE DEF f0
  <2> QED
    BY <1>0, <1>2, <2>2, <2>3, TabsKept
<1> QED
  BY <1>5, <1>6, <1>7, <1>8, <1>9, <1>10, <1>11, <1>12, <1>13, <1>14, <1>15, <1>16 DEF Page

\* What the handlers of a tab go on to.
LEMMA PageCalls ==
    ASSUME TalkInv, Grew, UNCHANGED <<thread, erased>>, NEW t \in Tabs, Page(t)
    PROVE  CallsInv'
<1>0. CallsInv /\ BudgetOK /\ TabsInv
  BY DEF TalkInv
<1>1. \A s \in Slots : CallOK(thread, erased, op[t][s]) /\ op[t][s] \in Calls
  BY <1>0, CallTypes
<1>2. "send" \in Slots /\ "panel" \in Slots
  BY DEF Slots
<1>3. ASSUME NEW s \in Slots, NEW o, CallOK(thread, erased, o), op' = [op EXCEPT ![t][s] = o]
      PROVE  CallsInv'
  BY <1>0, <1>3, CallsKept
<1>4. ASSUME NEW s \in Slots, op' = [op EXCEPT ![t][s] = Free] PROVE CallsInv'
  BY <1>3, <1>4, FreeOK
<1>5. ASSUME NEW s \in Slots, op[t][s].step # "free", NEW step \in Steps \ {"free"},
             Call(t, s, op[t][s], step),
             step \in {"chat", "reply"} => Asking(op[t][s])
      PROVE  CallsInv'
  <2> DEFINE o == op[t][s]
             p == [o EXCEPT !.step = step, !.phase = "sent"]
  <2>1. Asking(o) => Said(thread, erased, o.conv, <<"user", o.n>>)
    BY <1>1 DEF CallOK
  <2>2. Asking(p) => step \in {"chat", "reply"}
    BY <1>1 DEF Asking, Calls
  <2>3. "sent" \in Phases
    BY DEF Phases
  <2>4. op' = [op EXCEPT ![t][s] = p]
    BY <1>5 DEF Call
  <2>5. CallOK(thread, erased, o) /\ o.step # "free"
    BY <1>1, <1>5
  <2> HIDE DEF o
  <2>6. CallOK(thread, erased, p)
    BY <1>5, <2>1, <2>2, <2>3, <2>5, StepOK DEF o
  <2> HIDE DEF p
  <2> QED
    BY <1>3, <2>4, <2>6
<1>6. CASE \E k \in Keys : Poll(t, k)
  BY <1>0, <1>6, CallsSame DEF Poll, pageVars
<1>7. CASE ShowList(t) \/ \E c \in Chats : ShowThread(t, c)
  <2>1. PICK k : Arrived(t, k)
    BY <1>7 DEF ShowList, ShowThread
  <2> QED
    BY <1>0, <2>1, ArrivedCalls
<1>8. CASE (\E c \in Chats : Select(t, c)) \/ MoveEnded(t)
  BY <1>0, <1>8, CallsSame DEF Select, MoveEnded, pageVars
<1>9. CASE \E k \in Keys : Fallback(t, k)
  <2>1. PICK k \in Keys : Fallback(t, k)
    BY <1>9
  <2> DEFINE fails(s) == IF k \in op[t][s].waits THEN [op[t][s] EXCEPT !.phase = "failed", !.waits = {}]
                                                 ELSE op[t][s]
             os == [s \in Slots |-> fails(s)]
  <2>2. ASSUME NEW s \in Slots PROVE CallOK(thread', erased', fails(s)) /\ fails(s) \in Calls
    <3> DEFINE o == op[t][s]
               p == [o EXCEPT !.phase = "failed", !.waits = {}]
    <3>1. CASE k \notin o.waits
      BY <1>1, <3>1
    <3>2. CASE k \in o.waits
      <4>1. o.step # "free" /\ o.conv \in Chats
        BY <1>1, <3>2, TalkConstants DEF CallOK
      <4>2. /\ p \in Calls /\ p.step = o.step /\ p.phase = "failed" /\ p.conv = o.conv /\ p.n = o.n
        BY <1>1 DEF Calls, Phases
      <4>3. CallOK(thread, erased, o)
        BY <1>1
      <4> HIDE DEF p, o
      <4>4. CallOK(thread, erased, p)
        BY <4>1, <4>2, <4>3 DEF CallOK, Asking
      <4> QED
        BY <3>2, <4>2, <4>4 DEF p, o
    <3> QED
      BY <3>1, <3>2
  <2>3. os \in [Slots -> Calls] /\ \A s \in Slots : CallOK(thread', erased', os[s])
    BY <2>2
  <2>4. op' = [op EXCEPT ![t] = os]
    BY <2>1 DEF Fallback
  <2> HIDE DEF os
  <2> QED
    BY <1>0, <2>3, <2>4, CallsEach
<1>10. CASE Submit(t)
  <2>1. budget.sends \in Nat /\ Free \in Calls
    BY <1>0, TalkConstants DEF BudgetOK
  <2>2. CASE sess[t] # None
    <3> DEFINE made == [Free EXCEPT !.conv = sess[t], !.n = budget.sends, !.note = TRUE,
                                    !.first = (copy[t][sess[t]].msgs = <<>>)]
    <3>1. made \in Calls /\ made.conv \in Chats
      BY <1>0, <2>1, <2>2 DEF Calls, TabsInv
    <3>2. Call(t, "send", made, "ask")
      BY <1>10, <2>2 DEF Submit
    <3> HIDE DEF made
    <3> QED
      BY <1>2, <1>3, <3>1, <3>2, FirstStep DEF Call
  <2>3. CASE sess[t] = None
    <3>1. PICK c \in Chats : Call(t, "send", [Free EXCEPT !.conv = c, !.n = budget.sends, !.first = TRUE],
                                  "create")
      BY <1>10, <2>3 DEF Submit
    <3> DEFINE made == [Free EXCEPT !.conv = c, !.n = budget.sends, !.first = TRUE]
    <3>2. made \in Calls /\ made.conv \in Chats
      BY <2>1 DEF Calls
    <3> HIDE DEF made
    <3> QED
      BY <1>2, <1>3, <3>1, <3>2, FirstStep DEF Call, made
  <2> QED
    BY <2>2, <2>3
<1>11. CASE SubmitCreated(t)
  BY <1>2, <1>5, <1>11 DEF SubmitCreated, Steps, Posts
<1>12. CASE Refresh(t)
  <2> DEFINE o == op[t]["send"]
             p == [o EXCEPT !.phase = "wait", !.waits = {o.conv, List}]
  <2>1. o.step \in Posts /\ o.phase = "done" /\ op' = [op EXCEPT ![t]["send"] = p]
    BY <1>12 DEF Refresh
  <2>2. o.step # "free" /\ o \in Calls /\ CallOK(thread, erased, o)
    BY <1>1, <1>2, <2>1 DEF Posts
  <2>3. o.conv \in Chats
    BY <2>2 DEF CallOK
  <2>4. /\ p \in Calls /\ p.step = o.step /\ p.phase = "wait" /\ p.conv = o.conv /\ p.n = o.n
    BY <2>2, <2>3, TalkConstants DEF Calls, Phases
  <2> HIDE DEF p, o
  <2>5. CallOK(thread, erased, p)
    BY <2>1, <2>2, <2>3, <2>4 DEF CallOK, Asking
  <2> QED
    BY <1>2, <1>3, <2>1, <2>5
<1>13. CASE Asked(t)
  <2>1. op[t]["send"].step = "ask" /\ op[t]["send"].phase = "wait" /\ Call(t, "send", op[t]["send"], "chat")
    BY <1>13 DEF Asked, Refreshed
  <2> QED
    BY <1>2, <1>5, <2>1 DEF Asking, Steps
<1>14. CASE Answered(t)
  <2> DEFINE o == op[t]["send"]
  <2>1. o.step = "chat" /\ Call(t, "send", [o EXCEPT !.conv = o.conv], "reply")
    BY <1>14 DEF Answered, Target
  <2>2. [o EXCEPT !.conv = o.conv] = o
    BY <1>1, <1>2 DEF Calls
  <2> QED
    BY <1>2, <1>5, <2>1, <2>2 DEF Asking, Steps, Posts
<1>15. CASE ReplyPosted(t)
  <2>1. /\ op[t]["send"].step = "reply"
        /\ Call(t, "send", op[t]["send"], "title") \/ op' = [op EXCEPT ![t]["send"] = Free]
    BY <1>15 DEF ReplyPosted, Refreshed
  <2> QED
    BY <1>2, <1>4, <1>5, <2>1 DEF Steps, Renames
<1>16. CASE NotePosted(t) \/ PanelFailed(t) \/ NewChat(t) \/ Deleted(t) \/ \E s \in Slots : Renamed(t, s)
  <2>1. \E s \in Slots : op' = [op EXCEPT ![t][s] = Free]
    BY <1>2, <1>16 DEF NotePosted, PanelFailed, NewChat, Deleted, Renamed, Ends
  <2> QED
    BY <1>4, <2>1
<1>17. CASE Catch(t)
  <2>1. /\ op[t]["send"].phase = "failed"
        /\ Call(t, "send", op[t]["send"], "note") \/ op' = [op EXCEPT ![t]["send"] = Free]
    BY <1>17 DEF Catch
  <2>2. op[t]["send"].step # "free"
    BY <1>1, <1>2, <2>1, TalkConstants DEF CallOK
  <2> QED
    BY <1>2, <1>4, <1>5, <2>1, <2>2 DEF Steps, Posts
<1>18. CASE \E step \in {"new", "rename", "delete"}, c \in Chats : Panel(t, step, c)
  <2>1. PICK step \in {"new", "rename", "delete"}, c \in Chats : Panel(t, step, c)
    BY <1>18
  <2> DEFINE made == [Free EXCEPT !.conv = c]
  <2>2. made \in Calls /\ made.conv \in Chats
    BY TalkConstants DEF Calls
  <2>3. Call(t, "panel", made, step)
    BY <2>1 DEF Panel
  <2> HIDE DEF made
  <2> QED
    BY <1>2, <1>3, <2>2, <2>3, FirstStep DEF Call
<1>19. CASE Reload(t)
  <2> DEFINE os == [s \in Slots |-> Free]
  <2>1. os \in [Slots -> Calls] /\ \A s \in Slots : CallOK(thread', erased', os[s])
    BY FreeOK, TalkConstants
  <2>2. op' = [op EXCEPT ![t] = os]
    BY <1>19 DEF Reload
  <2> HIDE DEF os
  <2> QED
    BY <1>0, <2>1, <2>2, CallsEach
<1> QED
  BY <1>6, <1>7, <1>8, <1>9, <1>10, <1>11, <1>12, <1>13, <1>14, <1>15, <1>16, <1>17, <1>18, <1>19 DEF Page

LEMMA PageTalk ==
    ASSUME TalkInv, CopyInv', NEW t \in Tabs, Page(t)
    PROVE  TalkInv'
<1>0. /\ CopyInv /\ CallsInv /\ MovesInv /\ TabsInv /\ ThreadsInv /\ BudgetOK
  BY DEF TalkInv
<1>1. UNCHANGED service
  BY DEF Page, Poll, ShowList, ShowThread, Select, Fallback, MoveEnded, Submit, SubmitCreated, Refresh, Asked,
     Refreshed, Answered, ReplyPosted, NotePosted, Catch, Panel, NewChat, Deleted, PanelFailed, Renamed, Ends,
     Reload, storeVars
<1>2. ThreadsInv' /\ Grew /\ UNCHANGED <<thread, erased>>
  BY <1>0, <1>1, ThreadsSame DEF service
<1>3. BudgetOK' /\ budget'.old = budget.old
  <2>1. \/ budget' = budget \/ Fault
        \/ budget.sends > 0 /\ budget' = [budget EXCEPT !.sends = @ - 1]
        \/ budget.panels > 0 /\ budget' = [budget EXCEPT !.panels = @ - 1]
    BY DEF Page, Poll, ShowList, ShowThread, Select, Fallback, MoveEnded, Submit, SubmitCreated, Refresh, Asked,
       Refreshed, Answered, ReplyPosted, NotePosted, Catch, Panel, NewChat, Deleted, PanelFailed, Renamed, Ends,
       Reload, storeVars
  <2> QED
    BY <1>0, <2>1, FaultBudget DEF BudgetOK
<1>4. MovesInv'
  <2>1. CASE MoveEnded(t)
    <3>1. /\ moving[t].at = "done" /\ moving[t].item = Len(Legacy)
          /\ moving' = [moving EXCEPT ![t] = NotMoving]
      BY <2>1 DEF MoveEnded, Completes
    <3>2. MoveOK(thread, erased, moving[t])
      BY <1>0 DEF MovesInv
    <3>3. ASSUME NEW i \in 1..Len(Legacy) PROVE i < Len(Legacy) \/ i = Len(Legacy)
      <4> DEFINE n == Len(Legacy)
      <4>1. n \in Nat /\ i \in 1..n
        BY TalkConstants
      <4> HIDE DEF n
      <4>2. i < n \/ i = n
        BY <4>1
      <4> QED
        BY <4>2 DEF n
    <3>4. \A i \in 1..Len(Legacy) : Said(thread', erased', Old, Legacy[i])
      BY <1>2, <3>1, <3>2, <3>3 DEF MoveOK
    <3>5. MoveOK(thread', erased', NotMoving)
      BY TalkConstants DEF MoveOK
    <3> QED
      BY <1>0, <1>2, <1>3, <3>1, <3>4, <3>5, MovesKept
  <2>2. CASE Reload(t)
    <3>1. moving' = [moving EXCEPT ![t] = NotMoving] /\ legacy' = legacy
      BY <2>2 DEF Reload
    <3>2. MoveOK(thread', erased', NotMoving)
      BY TalkConstants DEF MoveOK
    <3> QED
      BY <1>0, <1>2, <1>3, <3>1, <3>2, MovesKept
  <2>3. CASE ~MoveEnded(t) /\ ~Reload(t)
    <3>1. moving' = moving /\ legacy' = legacy
      BY <2>3 DEF Page, Poll, ShowList, ShowThread, Select, Fallback, Submit, SubmitCreated, Refresh, Asked,
         Refreshed, Answered, ReplyPosted, NotePosted, Catch, Panel, NewChat, Deleted, PanelFailed, Renamed, Ends,
         storeVars, local
    <3> QED
      BY <1>0, <1>2, <1>3, <3>1, MovesSame
  <2> QED
    BY <2>1, <2>2, <2>3
<1> QED
  BY <1>0, <1>2, <1>3, <1>4, PageTabs, PageCalls DEF TalkInv

LEMMA InitTalk == Init => TalkInv
<1> SUFFICES ASSUME Init PROVE TalkInv
  OBVIOUS
<1>1. CopyInv
  BY InitFresh
<1>2. CallsInv
  <2>1. op = [t \in Tabs |-> [s \in Slots |-> Free]]
    BY DEF Init
  <2>2. \A t \in Tabs, s \in Slots : op[t][s] = Free
    BY <2>1
  <2>3. op \in [Tabs -> [Slots -> Calls]]
    BY <2>1, TalkConstants
  <2> QED
    BY <2>2, <2>3, FreeOK DEF CallsInv
<1>3. MovesInv
  <2>1. moving = [t \in Tabs |-> NotMoving] /\ budget.old = legacy
    BY DEF Init, StoreInit
  <2>2. MoveOK(thread, erased, NotMoving)
    BY TalkConstants DEF MoveOK
  <2>3. \A t \in Tabs : moving[t] = NotMoving
    BY <2>1
  <2>4. moving \in [Tabs -> Moves]
    BY <2>1, TalkConstants
  <2> QED
    BY <2>1, <2>2, <2>3, <2>4 DEF MovesInv
<1>4. TabsInv
  <2>1. [Rest EXCEPT !.at = "asked"].chats = {} /\ [Rest EXCEPT !.at = "asked"].ver = 0
    BY DEF Rest
  <2>2. \A t \in Tabs, k \in Keys : fetch[t][k] \in {Rest, [Rest EXCEPT !.at = "asked"]}
    BY DEF Init, StoreInit
  <2>3. \A t \in Tabs, k \in Keys : fetch[t][k].chats = {} /\ fetch[t][k].ver = 0
    BY <2>1, <2>2, TalkConstants
  <2>4. \A t \in Tabs : FetchOK(fetch[t])
    BY <2>3, TalkConstants DEF FetchOK
  <2> QED
    BY <2>4 DEF Init, StoreInit, TabsInv
<1>5. ThreadsInv
  BY DEF Init, StoreInit, ThreadsInv, RepliesFollow
<1>6. BudgetOK
  BY StoreAssumption DEF Init, StoreInit, BudgetOK
<1> QED
  BY <1>1, <1>2, <1>3, <1>4, <1>5, <1>6 DEF TalkInv

LEMMA NextTalk == TalkInv /\ [Next]_vars => TalkInv'
<1> SUFFICES ASSUME TalkInv, [Next]_vars PROVE TalkInv'
  OBVIOUS
<1>1. CopyInv
  BY DEF TalkInv
<1>2. CASE Next
  <2>1. CopyInv'
    BY <1>1, <1>2, PageSteps, ServiceSteps, StoreSteps DEF Next
  <2> QED
    BY <1>2, <2>1, PageTalk, ServiceTalk, StoreTalk DEF Next
<1>3. CASE UNCHANGED vars
  <2>1. CopyInv'
    BY <1>1, <1>3, VersionKept DEF vars, storeVars, service
  <2>2. ThreadsInv' /\ Grew
    BY <1>3, ThreadsSame DEF TalkInv, vars, storeVars
  <2>3. CallsInv' /\ MovesInv'
    BY <1>3, <2>2, CallsSame, MovesSame DEF TalkInv, vars, storeVars, pageVars, local
  <2>4. TabsInv' /\ BudgetOK'
    BY <1>3 DEF TalkInv, TabsInv, BudgetOK, vars, storeVars, pageVars, local
  <2> QED
    BY <2>1, <2>2, <2>3, <2>4 DEF TalkInv
<1> QED
  BY <1>2, <1>3

THEOREM TalkInductive == Spec => []TalkInv
BY InitTalk, NextTalk, PTL DEF Spec

\* Each answer stands in the conversation of its question, each selected conversation is
\* listed, and no tab holds a thread newer than the service's (onSubmit of ChatPage.tsx).
THEOREM AnswersFollow == Spec => []ChatSafe
<1>1. TalkInv => ChatSafe
  <2> SUFFICES ASSUME TalkInv PROVE ChatSafe
    OBVIOUS
  <2>1. \A c \in Chats : version[c] \in Nat /\ version \in [Chats -> Nat]
    BY DEF TalkInv, CopyInv
  <2>2. ASSUME NEW t \in Tabs, NEW c \in Chats
        PROVE  copy[t][c].ver <= version[c] /\ fetch[t][c].ver <= version[c]
    <3>1. copy[t][c].ver \in 0..version[c]
      BY <2>2 DEF TalkInv, CopyInv, Fresh
    <3>2. fetch[t][c].at # "answered" => fetch[t][c].ver = 0
      BY <2>2 DEF TalkInv, TabsInv, FetchOK
    <3>3. fetch[t][c].at = "answered" => fetch[t][c].ver <= version[c]
      BY <2>2 DEF TalkInv, CopyInv, Fresh
    <3> QED
      BY <2>1, <3>1, <3>2, <3>3
  <2>3. ChatTypeOK
    BY <2>1, <2>2 DEF TalkInv, CopyInv, TabsInv, ThreadsInv, ChatTypeOK
  <2> QED
    BY <2>3 DEF ChatSafe, TalkInv, ThreadsInv, TabsInv, SessionListed
<1> QED
  BY <1>1, TalkInductive, PTL

\* A conversation of the old release leaves localStorage only when each of its messages is at
\* the service, or the user deleted it (migrateLegacyIfNeeded of chatStore.ts).
THEOREM LegacyMoved == Spec => []LegacyKept
<1>1. TalkInv => LegacyKept
  BY TalkConstants DEF TalkInv, MovesInv, Said, LegacyKept
<1> QED
  BY <1>1, TalkInductive, PTL

================================================================================
