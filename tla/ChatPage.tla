-------------------------------- MODULE ChatPage --------------------------------
(***************************************************************************)
(* features/chat/ChatPage.tsx over the store of ChatStore: the selected    *)
(* conversation, sending a message and awaiting its answer, the sidebar's  *)
(* new, rename and delete, the persisted "assistant is typing" flags, and  *)
(* reloads.  Two calls of a tab may be under way together: one of the      *)
(* composer ("send") and one of the sidebar ("panel").                     *)
(***************************************************************************)
EXTENDS ChatStore

VARIABLES
    sess,      \* sessionId of each tab
    loading,   \* loadingThreadId is the session
    typing,    \* conversations whose flag chat:pending: is set
    op,        \* the calls of each tab
    used       \* conversation ids given out

pageVars == <<sess, loading, typing, op, used>>
vars == <<storeVars, pageVars>>

Slots == {"send", "panel"}
Free == [step |-> "free", phase |-> "none", conv |-> None, n |-> 0, waits |-> {},
         note |-> FALSE, first |-> FALSE]

Posts == {"ask", "reply", "note"}
Renames == {"title", "rename"}
Role == [ask |-> "user", reply |-> "assistant", note |-> "system"]

Init ==
    /\ StoreInit
    /\ sess = [t \in Tabs |-> None]
    /\ loading = [t \in Tabs |-> FALSE]
    /\ typing = {}
    /\ op = [t \in Tabs |-> [s \in Slots |-> Free]]
    /\ used = IF legacy THEN {Old} ELSE {}

--------------------------------------------------------------------------------
(* The callbacks of a tab. *)

LastRole(msgs) == IF msgs = <<>> THEN "none" ELSE msgs[Len(msgs)][1]

\* setSessionId in the list callback: the current one if it is listed, else the first.
Picks(cur, l) == IF cur \in l THEN {cur} ELSE IF l = {} THEN {None} ELSE l

\* Threads the page is shown in this step: emitted ones it subscribes to, and a new selection.
Shown(t, s, emitted) ==
    (emitted \cap {sess[t]}) \cup (IF s = sess[t] THEN {} ELSE {s} \ {None})

Replied(cp, cs) == {c \in cs : LastRole(cp[c].msgs) \notin {"none", "user"}}

\* The step leaves tab t with session s, list l, threads cp and fetches f, the threads emitted
\* having been given to the page, and the flags set that "mark" adds.
Settle(t, s, l, cp, f, emitted, mark) ==
    /\ sess' = [sess EXCEPT ![t] = s]
    /\ list' = [list EXCEPT ![t] = l]
    /\ copy' = [copy EXCEPT ![t] = cp]
    /\ fetch' = [fetch EXCEPT ![t] = IF s \in {sess[t], None} THEN f ELSE Ask(f, {s})]
    /\ loading' = [loading EXCEPT ![t] =
          IF s = sess[t] THEN @ /\ s \notin emitted ELSE s # None /\ ~cp[s].has]
    /\ typing' = (typing \ Replied(cp, Shown(t, s, emitted))) \cup mark

\* broadcastChange: the subscribers of the tab refresh (those of other tabs do so at a Poll).
Broadcast(t, f) == Ask(f, {sess[t], List})

--------------------------------------------------------------------------------
(* Refreshing. *)

\* Mutation of Poll: only the list is refreshed by a timer.
PollList(t, k) ==
    /\ k = List /\ t \in budget.open
    /\ fetch[t][k].at = "idle"
    /\ fetch' = [fetch EXCEPT ![t][k] = IF Settled(t) THEN Answers(k) ELSE [Rest EXCEPT !.at = "asked"]]
    /\ UNCHANGED <<service, local, list, copy, budget, pageVars>>

\* The 15 s timers, and the storage events of the other tabs.  The request is taken together
\* with the service's reading: until then nothing tells it from one that is not yet sent.
Poll(t, k) ==
    /\ t \in budget.open
    /\ k \in {sess[t], List} \ {None}
    /\ fetch[t][k].at = "idle"
    /\ fetch' = [fetch EXCEPT ![t][k] = IF Settled(t) THEN Answers(k) ELSE [Rest EXCEPT !.at = "asked"]]
    /\ UNCHANGED <<service, local, list, copy, budget, pageVars>>

Arrived(t, k) ==
    op' = [op EXCEPT ![t] = [s \in Slots |-> [op[t][s] EXCEPT !.waits = @ \ {k}]]]

ShowList(t) ==
    LET f == fetch[t][List] IN
    /\ f.at = "answered"
    /\ \E s \in Picks(sess[t], f.chats) :
          Settle(t, s, f.chats, copy[t], [fetch[t] EXCEPT ![List] = Rest], {}, {})
    /\ Arrived(t, List)
    /\ UNCHANGED <<service, local, budget, used>>

ShowThread(t, c) ==
    LET f == fetch[t][c] IN
    /\ f.at = "answered"
    /\ Settle(t, sess[t], list[t], [copy[t] EXCEPT ![c] = [has |-> TRUE, msgs |-> f.msgs, ver |-> f.ver]],
              [fetch[t] EXCEPT ![c] = Rest], {c}, {})
    /\ Arrived(t, c)
    /\ UNCHANGED <<service, local, budget, used>>

\* A failed fetch: subscribers are given the cache, and a call that awaits it is rejected.
Fallback(t, k) ==
    /\ fetch[t][k].at = "failed"
    /\ \E s \in (IF k = List THEN Picks(sess[t], list[t]) ELSE {sess[t]}) :
          Settle(t, s, list[t], copy[t], [fetch[t] EXCEPT ![k] = Rest], {k}, {})
    /\ op' = [op EXCEPT ![t] = [s \in Slots |->
          IF k \in op[t][s].waits THEN [op[t][s] EXCEPT !.phase = "failed", !.waits = {}] ELSE op[t][s]]]
    /\ UNCHANGED <<service, local, budget, used>>

MoveEnded(t) ==
    /\ Completes(t)
    /\ moved' = TRUE
    /\ legacy' = FALSE
    /\ moving' = [moving EXCEPT ![t] = NotMoving]
    /\ fetch' = [fetch EXCEPT ![t] = Broadcast(t, @)]
    /\ UNCHANGED <<service, list, copy, budget, pageVars>>

--------------------------------------------------------------------------------
(* The service's part of a call; the user's part follows. *)

Phase(t, s, p) == op' = [op EXCEPT ![t][s].phase = p]

ServeCheck(t, s) ==
    /\ op[t][s].phase = "sent"
    /\ op[t][s].step \in Posts \cup Renames \cup {"delete"}
    /\ Phase(t, s, IF op[t][s].conv \in live THEN "read" ELSE "failed")
    /\ UNCHANGED <<storeVars, sess, loading, typing, used>>

ServeWrite(t, s) ==
    LET o == op[t][s] IN
    /\ \/ o.phase = "sent" /\ o.step \in {"create", "new"} /\ Create(o.conv)
       \/ o.phase = "read" /\ o.step \in Posts /\ Post(o.conv, <<Role[o.step], o.n>>)
       \/ o.phase = "read" /\ o.step = "delete" /\ Erase(o.conv)
       \/ /\ \/ o.phase = "read" /\ o.step \in Renames
             \/ o.phase = "sent" /\ o.step = "chat"
          /\ UNCHANGED service
    /\ Phase(t, s, "done")
    /\ UNCHANGED <<local, list, copy, fetch, budget, sess, loading, typing, used>>

ServeLost(t, s) ==
    /\ op[t][s].phase \in {"sent", "done"}
    /\ Fault
    /\ Phase(t, s, "failed")
    /\ UNCHANGED <<service, local, list, copy, fetch, sess, loading, typing, used>>

--------------------------------------------------------------------------------
(* onSubmit. *)

Call(t, s, o, step) == op' = [op EXCEPT ![t][s] = [o EXCEPT !.step = step, !.phase = "sent"]]

\* The composer is hidden while the thread loads; without a conversation one is made first.
Submit(t) ==
    /\ t \in budget.open
    /\ op[t]["send"] = Free
    /\ ~loading[t]
    /\ budget.sends > 0
    /\ budget' = [budget EXCEPT !.sends = @ - 1]
    /\ \/ /\ sess[t] # None
          /\ Call(t, "send", [Free EXCEPT !.conv = sess[t], !.n = budget.sends, !.note = TRUE,
                                          !.first = (copy[t][sess[t]].msgs = <<>>)], "ask")
          /\ typing' = typing \cup {sess[t]}
          /\ UNCHANGED used
       \/ /\ sess[t] = None
          /\ \E c \in Chats \ used :
                /\ used' = used \cup {c}
                /\ Call(t, "send", [Free EXCEPT !.conv = c, !.n = budget.sends, !.first = TRUE], "create")
          /\ UNCHANGED typing
    /\ UNCHANGED <<service, local, list, copy, fetch, sess, loading>>

\* createConversation, and the selection of what it made: the same step of the composer and
\* of the button New chat.
Created(t, c, mark) ==
    LET f == Broadcast(t, fetch[t]) IN
    Settle(t, c, list[t] \cup {c}, [copy[t] EXCEPT ![c] = Empty], f, {c}, mark)

SubmitCreated(t) ==
    LET o == op[t]["send"] IN
    /\ o.step = "create" /\ o.phase = "done"
    /\ Created(t, o.conv, {o.conv})
    /\ Call(t, "send", o, "ask")
    /\ UNCHANGED <<service, local, budget, used>>

\* Mutation of Refresh: the thread is brought by the post's answer, beside a fetch under way.
RefreshAhead(t) ==
    LET o == op[t]["send"]
        c == o.conv IN
    /\ o.step \in Posts /\ o.phase = "done"
    /\ copy' = [copy EXCEPT ![t][c] = [has |-> TRUE, msgs |-> thread[c], ver |-> version[c]]]
    /\ fetch' = [fetch EXCEPT ![t] = Ask(@, {c, List})]
    /\ op' = [op EXCEPT ![t]["send"] = [o EXCEPT !.phase = "wait", !.waits = {c, List}]]
    /\ UNCHANGED <<service, local, list, budget, sess, loading, typing, used>>

\* appendMessage, its answer in hand: both refreshes are joined or started, and awaited.
Refresh(t) ==
    LET o == op[t]["send"] IN
    /\ o.step \in Posts /\ o.phase = "done"
    /\ fetch' = [fetch EXCEPT ![t] = Ask(@, {o.conv, List})]
    /\ op' = [op EXCEPT ![t]["send"] = [o EXCEPT !.phase = "wait", !.waits = {o.conv, List}]]
    /\ UNCHANGED <<service, local, list, copy, budget, sess, loading, typing, used>>

Refreshed(t, step) ==
    LET o == op[t]["send"] IN
    /\ o.phase = "wait" /\ o.waits = {} /\ o.step = step
    /\ fetch' = [fetch EXCEPT ![t] = Broadcast(t, @)]
    /\ UNCHANGED <<service, local, list, copy, budget, sess, loading, used>>

Asked(t) ==
    /\ Refreshed(t, "ask")
    /\ Call(t, "send", op[t]["send"], "chat")
    /\ UNCHANGED typing

\* Mutation of Target: the answer goes to the conversation now on the screen.
TargetShown(t) == IF sess[t] = None THEN op[t]["send"].conv ELSE sess[t]

Target(t) == op[t]["send"].conv

Answered(t) ==
    LET o == op[t]["send"] IN
    /\ o.step = "chat" /\ o.phase = "done"
    /\ Call(t, "send", [o EXCEPT !.conv = Target(t)], "reply")
    /\ UNCHANGED <<storeVars, sess, loading, typing, used>>

\* The first exchange names the conversation.
ReplyPosted(t) ==
    LET o == op[t]["send"] IN
    /\ Refreshed(t, "reply")
    /\ typing' = typing \ {o.conv}
    /\ IF o.first THEN Call(t, "send", o, "title") ELSE op' = [op EXCEPT ![t]["send"] = Free]

NotePosted(t) ==
    /\ Refreshed(t, "note")
    /\ op' = [op EXCEPT ![t]["send"] = Free]
    /\ UNCHANGED typing

\* The catch: a note in the conversation that was selected at the submit, if one was.
Catch(t) ==
    LET o == op[t]["send"] IN
    /\ o.phase = "failed"
    /\ IF o.note /\ o.step # "note"
       THEN Call(t, "send", o, "note")
       ELSE op' = [op EXCEPT ![t]["send"] = Free]
    /\ UNCHANGED <<storeVars, sess, loading, typing, used>>

--------------------------------------------------------------------------------
(* The sidebar. *)

Select(t, c) ==
    /\ c \in list[t] \ {sess[t]}
    /\ Settle(t, c, list[t], copy[t], fetch[t], {}, {})
    /\ UNCHANGED <<service, local, budget, op, used>>

Panel(t, step, c) ==
    /\ t \in budget.open
    /\ op[t]["panel"] = Free
    /\ budget.panels > 0
    /\ budget' = [budget EXCEPT !.panels = @ - 1]
    /\ \/ /\ step = "new" /\ c \notin used
          /\ used' = used \cup {c}
       \/ /\ step \in {"rename", "delete"} /\ c \in list[t]
          /\ UNCHANGED used
    /\ Call(t, "panel", [Free EXCEPT !.conv = c], step)
    /\ UNCHANGED <<service, local, list, copy, fetch, sess, loading, typing>>

Ends(t, s, step) ==
    /\ op[t][s].step = step /\ op[t][s].phase = "done"
    /\ op' = [op EXCEPT ![t][s] = Free]
    /\ UNCHANGED <<service, local, budget, used>>

NewChat(t) ==
    /\ Ends(t, "panel", "new")
    /\ Created(t, op[t]["panel"].conv, {})

Renamed(t, s) ==
    LET l == list[t] \cup {op[t][s].conv} IN
    /\ \E step \in Renames : Ends(t, s, step)
    /\ \E x \in Picks(sess[t], l) : Settle(t, x, l, copy[t], Broadcast(t, fetch[t]), {}, {})

Deleted(t) ==
    LET c == op[t]["panel"].conv
        l == list[t] \ {c} IN
    /\ Ends(t, "panel", "delete")
    /\ \E x \in Picks(sess[t], l) :
          Settle(t, x, l, [copy[t] EXCEPT ![c] = Blank], Broadcast(t, fetch[t]), {c}, {})

\* A rejected call of the sidebar is not caught: its dialog stays open.
PanelFailed(t) ==
    /\ op[t]["panel"].phase = "failed"
    /\ op' = [op EXCEPT ![t]["panel"] = Free]
    /\ UNCHANGED <<storeVars, sess, loading, typing, used>>

\* The tab starts again: what localStorage holds stays, what the page holds is gone.
Reload(t) ==
    /\ t \in budget.open
    /\ Fault
    /\ sess' = [sess EXCEPT ![t] = None]
    /\ loading' = [loading EXCEPT ![t] = FALSE]
    /\ op' = [op EXCEPT ![t] = [s \in Slots |-> Free]]
    /\ moving' = [moving EXCEPT ![t] = NotMoving]
    /\ list' = [list EXCEPT ![t] = {}]
    /\ copy' = [copy EXCEPT ![t] = [c \in Chats |-> Blank]]
    /\ fetch' = [fetch EXCEPT ![t] = Ask([k \in Keys |-> Rest], {List})]
    /\ UNCHANGED <<service, moved, legacy, typing, used>>

--------------------------------------------------------------------------------
Page(t) ==
    \/ \E k \in Keys : Poll(t, k)
    \/ ShowList(t)
    \/ \E c \in Chats : ShowThread(t, c) \/ Select(t, c)
    \/ \E k \in Keys : Fallback(t, k)
    \/ MoveEnded(t)
    \/ Submit(t) \/ SubmitCreated(t) \/ Refresh(t) \/ Asked(t) \/ Answered(t)
    \/ ReplyPosted(t) \/ NotePosted(t) \/ Catch(t)
    \/ \E step \in {"new", "rename", "delete"}, c \in Chats : Panel(t, step, c)
    \/ NewChat(t) \/ Deleted(t) \/ PanelFailed(t)
    \/ \E s \in Slots : Renamed(t, s)
    \/ Reload(t)

Service(t) ==
    \E s \in Slots : ServeCheck(t, s) \/ ServeWrite(t, s) \/ ServeLost(t, s)

Store(t) ==
    /\ \/ \E k \in Keys : Answer(t, k) \/ LoseFetch(t, k)
       \/ Move(t) \/ MoveCreated(t) \/ MoveChecked(t) \/ MovePosted(t)
       \/ MoveLost(t) \/ MoveNext(t) \/ MoveFailed(t)
    /\ UNCHANGED pageVars

Next == \E t \in Tabs : Page(t) \/ Service(t) \/ Store(t)

\* Timers fire, requests are answered and awaited calls go on; nobody has to use the page.
Fairness ==
    \A t \in Tabs :
        /\ \A k \in Keys :
              /\ WF_vars(Poll(t, k)) /\ WF_vars(Fallback(t, k))
              /\ WF_vars(Answer(t, k) /\ UNCHANGED pageVars)
        /\ WF_vars(ShowList(t)) /\ WF_vars(MoveEnded(t))
        /\ \A c \in Chats : WF_vars(ShowThread(t, c))
        /\ WF_vars(/\ Move(t) \/ MoveCreated(t) \/ MoveChecked(t) \/ MovePosted(t) \/ MoveNext(t)
                      \/ MoveFailed(t)
                   /\ UNCHANGED pageVars)

Spec == Init /\ [][Next]_vars /\ Fairness

--------------------------------------------------------------------------------
(* Properties. *)

Messages == {"user", "assistant", "system"} \X Nat

\* Types of the store and the page; what a tab has fetched is not newer than the service.
ChatTypeOK ==
    /\ live \in SUBSET Chats /\ erased \in SUBSET Chats
    /\ thread \in [Chats -> Seq(Messages)]
    /\ version \in [Chats -> Nat]
    /\ list \in [Tabs -> SUBSET Chats]
    /\ sess \in [Tabs -> Chats \cup {None}]
    /\ typing \in SUBSET Chats
    /\ \A t \in Tabs, c \in Chats :
          /\ copy[t][c].ver <= version[c]
          /\ fetch[t][c].ver <= version[c]

\* Once a conversation of the old release has left localStorage (the migration of chatStore.ts),
\* all its messages are at the service, unless the user deleted it: whichever of the tabs
\* moved it, whatever calls failed, and however often a move was begun again.
LegacyKept ==
    budget.old /\ ~legacy => \/ Old \in erased
                             \/ \A i \in DOMAIN Legacy : \E j \in DOMAIN thread[Old] : thread[Old][j] = Legacy[i]

\* An answer stands in the conversation its question was asked in (onSubmit's convId), whatever
\* was selected, created or renamed while it was awaited; only a deletion can part them.
RepliesFollow ==
    \A c \in Chats \ erased : \A i \in DOMAIN thread[c] :
        thread[c][i][1] = "assistant" /\ thread[c][i][2] > 0 =>
            \E j \in 1..(i - 1) : thread[c][j] = <<"user", thread[c][i][2]>>

\* The conversation on the screen is one the sidebar lists: late lists, deletions and
\* creations under way never leave the page on a conversation it does not show.
SessionListed == \A t \in Tabs : sess[t] # None => sess[t] \in list[t]

\* The tabs and the service keep to one account of the conversations: each answer is in the
\* conversation of its question, and each selected conversation is listed.
ChatSafe == ChatTypeOK /\ RepliesFollow /\ SessionListed

Copies == INSTANCE ThreadCopies WITH
    Readers <- Tabs, Threads <- Chats, version <- version,
    held <- [t \in Tabs |-> [c \in Chats |-> copy[t][c].ver]]

\* The cached threads of a tab implement ThreadCopies: an answer overtaken by a newer one is
\* never shown, since refreshMessages keeps one fetch in flight for each thread.
ReadsForward == Copies!Spec

\* Every tab comes to show the conversations and the selected thread as the service holds
\* them, through lost requests, other tabs' changes and reloads (timers of subscribeMessages
\* and subscribeConversations).
TabsCatchUp ==
    \A t \in Tabs : <>[](t \in budget.open => /\ list[t] = live
                                              /\ sess[t] # None => copy[t][sess[t]].msgs = thread[sess[t]])
================================================================================
