------------------------------- MODULE ChatStore -------------------------------
(***************************************************************************)
(* features/chat/chatStore.ts: a tab's cached conversation list and        *)
(* threads, the fetches that refresh them (one in flight per key), and the *)
(* move of the conversations an older release kept in localStorage to the  *)
(* service of backend/features/chat_history.                               *)
(*                                                                         *)
(* A message is <<role, n>>, n the exchange it belongs to.  The service    *)
(* lists a thread in the order its messages arrived; titles are left out.  *)
(***************************************************************************)
EXTENDS Naturals, Sequences

CONSTANTS
    Tabs,        \* browser tabs of one user
    Chats,       \* conversation ids
    Old,         \* the conversation an older release may have left in localStorage
    List,        \* the key of the conversation list
    None,        \* no conversation
    Legacy,      \* its messages
    Budgets      \* bounds of a behaviour: the tabs that are open, messages sent, sidebar calls,
                 \* faults (requests lost and tabs reloaded), and whether the older release
                 \* left its conversation

ASSUME StoreAssumption ==
    /\ Old \in Chats
    /\ List \notin Chats /\ None \notin Chats /\ List # None
    /\ Legacy \in Seq({"user", "assistant"} \X {0})
    /\ Budgets \subseteq [open : SUBSET Tabs, sends : Nat, panels : Nat, faults : Nat, old : BOOLEAN]

VARIABLES
    live,      \* conversations that have a document
    thread,    \* the messages of each conversation at the service
    version,   \* history: writes to each thread so far
    erased,    \* history: conversations that were deleted
    moved,     \* lbp_chat_migrated: is "1"
    legacy,    \* lbp_chat_: the old conversation is in localStorage
    moving,    \* INFLIGHT_MIGRATIONS of each tab, and the call it waits for
    list,      \* conversations cached in each tab
    copy,      \* threads cached in each tab
    fetch,     \* INFLIGHT_CONVERSATIONS and INFLIGHT_MESSAGES of each tab
    budget     \* what is left of the bounds

service == <<live, thread, version, erased>>
local == <<moved, legacy, moving>>
storeVars == <<service, local, list, copy, fetch, budget>>

Keys == Chats \cup {List}

Blank == [has |-> FALSE, msgs |-> <<>>, ver |-> 0]
Empty == [has |-> TRUE, msgs |-> <<>>, ver |-> 0]
Rest == [at |-> "idle", msgs |-> <<>>, ver |-> 0, chats |-> {}]
NotMoving == [at |-> "none", item |-> 0]

StoreInit ==
    /\ budget \in Budgets
    /\ live = {}
    /\ thread = [c \in Chats |-> <<>>]
    /\ version = [c \in Chats |-> 0]
    /\ erased = {}
    /\ moved = FALSE
    /\ legacy = budget.old
    /\ moving = [t \in Tabs |-> NotMoving]
    /\ list = [t \in Tabs |-> {}]
    /\ copy = [t \in Tabs |-> [c \in Chats |-> Blank]]
    /\ fetch = [t \in Tabs |-> [k \in Keys |->
          IF k = List /\ t \in budget.open THEN [Rest EXCEPT !.at = "asked"] ELSE Rest]]

--------------------------------------------------------------------------------
(* The service. *)

Post(c, m) ==
    /\ thread' = [thread EXCEPT ![c] = Append(@, m)]
    /\ version' = [version EXCEPT ![c] = @ + 1]
    /\ live' = live \cup {c}
    /\ UNCHANGED erased

Create(c) ==
    /\ live' = live \cup {c}
    /\ UNCHANGED <<thread, version, erased>>

Erase(c) ==
    /\ thread' = [thread EXCEPT ![c] = <<>>]
    /\ version' = [version EXCEPT ![c] = @ + 1]
    /\ live' = live \ {c}
    /\ erased' = erased \cup {c}

Fault ==
    /\ budget.faults > 0
    /\ budget' = [budget EXCEPT !.faults = @ - 1]

--------------------------------------------------------------------------------
(* Fetches: f is the fetch[t] of a tab. *)

\* refreshConversations, refreshMessages: one in flight for each key.
Ask(f, ks) == [k \in Keys |-> IF k \in ks /\ f[k].at = "idle" THEN [Rest EXCEPT !.at = "asked"] ELSE f[k]]

\* What the service answers to the fetch of k; none for a conversation that is not there.
Answers(k) ==
    CASE k = List -> [Rest EXCEPT !.at = "answered", !.chats = live]
      [] k \in live -> [Rest EXCEPT !.at = "answered", !.msgs = thread[k], !.ver = version[k]]
      [] OTHER -> [Rest EXCEPT !.at = "failed"]

\* A request is sent once the tab has no conversations to move.
Settled(t) == moved /\ moving[t] = NotMoving

Answer(t, k) ==
    /\ fetch[t][k].at = "asked"
    /\ Settled(t)
    /\ fetch' = [fetch EXCEPT ![t][k] = Answers(k)]
    /\ UNCHANGED <<service, local, list, copy, budget>>

LoseFetch(t, k) ==
    /\ fetch[t][k].at = "answered"
    /\ Fault
    /\ fetch' = [fetch EXCEPT ![t][k] = [Rest EXCEPT !.at = "failed"]]
    /\ UNCHANGED <<service, local, list, copy>>

--------------------------------------------------------------------------------
(* maybeMigrateLegacyNamespace: item 0 creates Old, item i posts its i-th message. *)

Move(t) ==
    /\ ~moved
    /\ moving[t] = NotMoving
    /\ \E k \in Keys : fetch[t][k].at = "asked"
    /\ IF legacy
       THEN /\ moving' = [moving EXCEPT ![t] = [at |-> "sent", item |-> 0]]
            /\ UNCHANGED moved
       ELSE /\ moved' = TRUE
            /\ UNCHANGED moving
    /\ UNCHANGED <<service, legacy, list, copy, fetch, budget>>

MoveCreated(t) ==
    /\ moving[t] = [at |-> "sent", item |-> 0]
    /\ Create(Old)
    /\ moving' = [moving EXCEPT ![t].at = "done"]
    /\ UNCHANGED <<moved, legacy, list, copy, fetch, budget>>

MoveChecked(t) ==
    /\ moving[t].at = "sent"
    /\ moving[t].item > 0
    /\ moving' = [moving EXCEPT ![t].at = IF Old \in live THEN "read" ELSE "failed"]
    /\ UNCHANGED <<service, moved, legacy, list, copy, fetch, budget>>

MovePosted(t) ==
    /\ moving[t].at = "read"
    /\ Post(Old, Legacy[moving[t].item])
    /\ moving' = [moving EXCEPT ![t].at = "done"]
    /\ UNCHANGED <<moved, legacy, list, copy, fetch, budget>>

MoveLost(t) ==
    /\ moving[t].at \in {"sent", "done"}
    /\ Fault
    /\ moving' = [moving EXCEPT ![t].at = "failed"]
    /\ UNCHANGED <<service, moved, legacy, list, copy, fetch>>

MoveNext(t) ==
    /\ moving[t].at = "done"
    /\ moving[t].item < Len(Legacy)
    /\ moving' = [moving EXCEPT ![t] = [at |-> "sent", item |-> @.item + 1]]
    /\ UNCHANGED <<service, moved, legacy, list, copy, fetch, budget>>

\* Every fetch that awaited the failed move is rejected with it.
MoveFailed(t) ==
    /\ moving[t].at = "failed"
    /\ moving' = [moving EXCEPT ![t] = NotMoving]
    /\ fetch' = [fetch EXCEPT ![t] = [k \in Keys |->
          IF fetch[t][k].at = "asked" THEN [Rest EXCEPT !.at = "failed"] ELSE fetch[t][k]]]
    /\ UNCHANGED <<service, moved, legacy, list, copy, budget>>

\* Mutation of Completes: the old copy is dropped with its last message still unsent.
CompletesEarly(t) == moving[t].at = "done" /\ moving[t].item + 1 >= Len(Legacy)

Completes(t) == moving[t].at = "done" /\ moving[t].item = Len(Legacy)
================================================================================
