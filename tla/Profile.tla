-------------------------------- MODULE Profile --------------------------------
(***************************************************************************)
(* features/profile/ProfilePage.tsx with features/auth/ReauthDialog.tsx:   *)
(* the account page links and unlinks sign-in methods at Firebase and      *)
(* changes e-mail and password.  A change that Firebase refuses because    *)
(* the sign-in is old is kept in pendingAction and done again once the     *)
(* dialog has verified the user.  Handlers of the methods take busy;       *)
(* e-mail, password and what is done again do not.                         *)
(*                                                                         *)
(* The account has an e-mail address.  Leaving the page ends the model.    *)
(***************************************************************************)
EXTENDS Naturals, FiniteSets

CONSTANTS
    MaxClicks,     \* the most changes the user asks for
    Cares          \* bounds: how many he asks for, and how many requests fail or lose their
                   \* answer and changes from another tab there are

Methods == {"google", "phone", "password"}
Changes == {"linkGoogle", "unlinkGoogle", "unlinkPhone", "sendCode", "confirmPhone", "email",
            "addPassword", "setPassword"}
Clicks == 1..MaxClicks

NoClick == 0
Stages == {"unused", "sent", "after", "waiting", "over"}
ClosedDialog == [open |-> FALSE, step |-> "enter", loading |-> FALSE]

VARIABLES
    methods,     \* Firebase: the account's sign-in methods
    local,       \* the same on auth.currentUser of this tab
    shown,       \* the same as last rendered
    recent,      \* Firebase: the sign-in is recent
    click,       \* each change asked for: what it is, where it is, whether it is being done again
    busy,        \* busy: the change that took it
    pending,     \* pendingAction
    dialog,      \* ReauthDialog: open, phoneStep, loading
    verifying,   \* verifications in flight
    phoneStep,   \* phoneStep of the page: "code" once there is a confirmation to answer
    deletion,    \* the deletion dialog
    troubles,    \* what is left of the bound
    estranged       \* history: why the page may not know the account's methods

profileVars == <<methods, local, shown, recent, click, busy, pending, dialog, verifying, phoneStep,
                 deletion, troubles, estranged>>
account == <<methods, local, recent>>
reauth == <<pending, dialog, verifying>>

Used == {i \in Clicks : click[i].stage # "unused"}
Running(i) == click[i].stage \in {"sent", "after"}
Locks(change) == change \notin {"email", "addPassword", "setPassword"}
Trouble == troubles > 0 /\ troubles' = troubles - 1
To(i, stage) == [click EXCEPT ![i].stage = stage]

--------------------------------------------------------------------------------
(* The page's buttons. *)

\* Mutation of CanUnlink: the last method too.
CanUnlinkAny(method) == method \in shown

CanUnlink(method) == method \in shown /\ Cardinality(shown) > 1

\* The cards of Google and the phone.
CardOffers(change) ==
    CASE change = "linkGoogle"   -> "google" \notin shown
      [] change = "unlinkGoogle" -> CanUnlink("google")
      [] change = "unlinkPhone"  -> CanUnlink("phone")
      [] change = "sendCode"     -> "phone" \notin shown /\ phoneStep = "enter"
      [] change = "confirmPhone" -> "phone" \notin shown /\ phoneStep = "code"
      [] OTHER                   -> FALSE

\* The forms for e-mail and password.
FormOffers(change) ==
    CASE change = "email"       -> TRUE
      [] change = "addPassword" -> "password" \notin local
      [] change = "setPassword" -> "password" \in local
      [] OTHER                  -> FALSE

\* Both dialogs cover the page.
Reachable == deletion = "closed" /\ ~dialog.open

Ask(i, change) ==
    /\ Reachable /\ busy = NoClick /\ (CardOffers(change) \/ FormOffers(change))
    /\ click[i].stage = "unused" /\ \A j \in Clicks : j < i => j \in Used
    /\ click' = [click EXCEPT ![i].change = change, ![i].stage = "sent"]
    /\ busy' = IF Locks(change) THEN i ELSE busy
    /\ shown' = IF Locks(change) THEN local ELSE shown
    /\ estranged' = (estranged \/ \E j \in Clicks : Running(j))
    /\ UNCHANGED <<account, reauth, phoneStep, deletion, troubles>>

\* clearPhoneLinkState
ChangeNumber ==
    /\ Reachable /\ busy = NoClick /\ "phone" \notin shown
    /\ phoneStep = "code" /\ phoneStep' = "enter"
    /\ shown' = local
    /\ UNCHANGED <<account, click, busy, reauth, deletion, troubles, estranged>>

--------------------------------------------------------------------------------
(* What Firebase does, and what the handlers do with its answers. *)

Effect(change) ==
    CASE change = "linkGoogle"   -> methods \cup {"google"}
      [] change = "unlinkGoogle" -> methods \ {"google"}
      [] change = "unlinkPhone"  -> methods \ {"phone"}
      [] change = "confirmPhone" -> methods \cup {"phone"}
      [] change = "addPassword"  -> methods \cup {"password"}
      [] OTHER                   -> methods

Alters(change) == change \notin {"sendCode", "email", "setPassword"}

\* Firebase refuses to link what is linked and to unlink what is not.
Refuses(change) == Alters(change) /\ Effect(change) = methods

Perform(i) ==
    /\ methods' = Effect(click[i].change)
    /\ click' = [click EXCEPT ![i].done = @ + 1, ![i].stage = "after"]

\* Whoever ends sets busy to null, whether or not it is its own; what is done again never took it,
\* but for the phone's confirmation, which is its whole handler.
EndsLock(i) == Locks(click[i].change) /\ (~click[i].again \/ click[i].change = "confirmPhone")

Release(i) == busy' = IF EndsLock(i) THEN NoClick ELSE busy

ReleaseForReauth(i) == Release(i)

Performed(i) ==
    /\ click[i].stage = "sent" /\ ~Refuses(click[i].change) /\ click[i].change # "sendCode"
    /\ Perform(i)
    /\ local' = methods'
    /\ phoneStep' = IF click[i].change = "confirmPhone" THEN "enter" ELSE phoneStep
    /\ UNCHANGED <<recent, shown, busy, reauth, deletion, troubles, estranged>>

CodeSent(i) ==
    /\ click[i].stage = "sent" /\ click[i].change = "sendCode"
    /\ click' = [click EXCEPT ![i].done = @ + 1, ![i].stage = "over"]
    /\ phoneStep' = "code" /\ shown' = local
    /\ Release(i)
    /\ UNCHANGED <<account, reauth, deletion, troubles, estranged>>

\* afterAuthMethodChange: the user, the session and the profile are read again.
ShowLocal == shown' = local'

Reloaded(i) ==
    /\ click[i].stage = "after"
    /\ click' = To(i, "over")
    /\ Release(i)
    /\ local' = methods /\ ShowLocal
    /\ UNCHANGED <<methods, recent, reauth, phoneStep, deletion, troubles, estranged>>

\* pendingAction holds one change: the one before is forgotten.
Keep(i) ==
    /\ pending' = i
    /\ click' = [j \in Clicks |->
                   IF j = i THEN [click[j] EXCEPT !.stage = "waiting"]
                   ELSE IF j = pending THEN [click[j] EXCEPT !.stage = "over"] ELSE click[j]]

OpenDialog == dialog' = IF dialog.open THEN dialog ELSE [ClosedDialog EXCEPT !.open = TRUE]

ReloadFailed(i) ==
    /\ click[i].stage = "after" /\ Trouble /\ estranged' = TRUE
    /\ click' = To(i, "over")
    /\ Release(i)
    /\ shown' = IF EndsLock(i) THEN local ELSE shown
    /\ UNCHANGED <<account, reauth, phoneStep, deletion>>

\* The request was refused, or failed before or after Firebase did it.
Failed(i) ==
    /\ click[i].stage = "sent"
    /\ \/ Refuses(click[i].change) /\ UNCHANGED <<methods, troubles, estranged>> /\ click' = To(i, "over")
       \/ /\ Trouble /\ estranged' = TRUE
          /\ \/ methods' = methods /\ click' = To(i, "over")
             \/ /\ methods' = Effect(click[i].change)
                /\ click' = [click EXCEPT ![i].done = @ + 1, ![i].stage = "over"]
    /\ Release(i)
    /\ shown' = IF EndsLock(i) THEN local ELSE shown
    /\ UNCHANGED <<local, recent, reauth, phoneStep, deletion>>

\* auth/requires-recent-login, the first time; what is done again only says that it failed, but for
\* the phone's confirmation.
TooOld(i) ==
    /\ click[i].stage = "sent" /\ ~recent
    /\ \/ /\ ~click[i].again \/ click[i].change = "confirmPhone"
          /\ Keep(i)
          /\ OpenDialog
       \/ /\ click[i].again /\ click[i].change # "confirmPhone"
          /\ click' = To(i, "over")
          /\ UNCHANGED <<pending, dialog>>
    /\ ReleaseForReauth(i)
    /\ shown' = local
    /\ UNCHANGED <<account, verifying, phoneStep, deletion, troubles, estranged>>

--------------------------------------------------------------------------------
(* ReauthDialog. *)

PhoneOnly == local = {"phone"}

\* An account with a phone number only asks for a code first.
Verify ==
    /\ dialog.open /\ ~dialog.loading
    /\ PhoneOnly => dialog.step = "code"
    /\ dialog' = [dialog EXCEPT !.loading = TRUE]
    /\ verifying' = verifying + 1
    /\ UNCHANGED <<account, shown, click, busy, pending, phoneStep, deletion, troubles, estranged>>

\* onSendPhoneCode and its answer.
SendReauthCode ==
    /\ dialog.open /\ ~dialog.loading /\ PhoneOnly /\ dialog.step = "enter"
    /\ dialog' = [dialog EXCEPT !.step = "code"]
    /\ UNCHANGED <<account, shown, click, busy, pending, verifying, phoneStep, deletion, troubles, estranged>>

TakePending == pending' = NoClick

\* onReauthSuccess, also of a verification whose dialog has been closed.
Verified ==
    /\ verifying > 0 /\ verifying' = verifying - 1
    /\ recent' = TRUE
    /\ dialog' = ClosedDialog
    /\ TakePending
    /\ IF pending = NoClick \/ (click[pending].change = "confirmPhone" /\ phoneStep = "enter")
         THEN /\ click' = IF pending = NoClick THEN click ELSE To(pending, "over")
              /\ UNCHANGED <<busy, estranged>>
         ELSE /\ click' = [click EXCEPT ![pending].stage = "sent", ![pending].again = TRUE]
              /\ busy' = IF click[pending].change = "confirmPhone" THEN pending ELSE busy
              /\ estranged' = (estranged \/ ~dialog.open \/ \E j \in Clicks : Running(j))
    /\ shown' = local
    /\ UNCHANGED <<methods, local, phoneStep, deletion, troubles>>

VerificationFailed ==
    /\ verifying > 0 /\ verifying' = verifying - 1
    /\ dialog' = [dialog EXCEPT !.loading = FALSE]
    /\ UNCHANGED <<account, shown, click, busy, pending, phoneStep, deletion, troubles, estranged>>

\* Closing the dialog stops neither the verification nor forgets the change.
CloseDialog ==
    /\ dialog.open /\ dialog' = [dialog EXCEPT !.open = FALSE]
    /\ click' = IF pending # NoClick /\ verifying = 0 THEN [click EXCEPT ![pending].givenUp = TRUE]
                                                      ELSE click
    /\ shown' = local
    /\ UNCHANGED <<account, busy, pending, verifying, phoneStep, deletion, troubles, estranged>>

--------------------------------------------------------------------------------
(* Leaving, deleting, and what happens elsewhere. *)

SignOut ==
    /\ Reachable /\ busy = NoClick
    /\ deletion' = "left"
    /\ UNCHANGED <<account, shown, click, busy, reauth, phoneStep, troubles, estranged>>

AskDeletion == deletion = "closed" /\ ~dialog.open /\ busy = NoClick /\ deletion' = "open"
ConfirmDeletion == deletion = "open" /\ deletion' \in {"closed", "deleting"}
Deleted == deletion = "deleting" /\ deletion' \in {"open", "left"}

DeleteAccount ==
    /\ AskDeletion \/ ConfirmDeletion \/ Deleted
    /\ shown' = local
    /\ UNCHANGED <<account, click, busy, reauth, phoneStep, troubles, estranged>>

Ages ==
    /\ recent /\ recent' = FALSE
    /\ UNCHANGED <<methods, local, shown, click, busy, reauth, phoneStep, deletion, troubles, estranged>>

OtherTab ==
    /\ Trouble /\ estranged' = TRUE
    /\ methods' \in {m \in SUBSET Methods : m # {} /\ m # methods}
    /\ UNCHANGED <<local, recent, shown, click, busy, reauth, phoneStep, deletion>>

ProfileInit ==
    /\ methods \in (SUBSET Methods) \ {{}} /\ local = methods /\ shown = methods
    /\ recent \in BOOLEAN
    /\ \E b \in Cares :
          /\ click = [i \in Clicks |-> [change |-> "email", again |-> FALSE, done |-> 0, givenUp |-> FALSE,
                                        stage |-> IF i <= b.clicks THEN "unused" ELSE "over"]]
          /\ troubles = b.troubles
    /\ busy = NoClick /\ pending = NoClick
    /\ dialog = ClosedDialog /\ verifying = 0
    /\ phoneStep = "enter" /\ deletion = "closed"
    /\ estranged = FALSE

Answers(i) == Performed(i) \/ CodeSent(i) \/ Reloaded(i) \/ ReloadFailed(i) \/ Failed(i) \/ TooOld(i)

ProfileNext ==
    /\ deletion # "left"
    /\ \/ \E i \in Clicks : Answers(i) \/ \E change \in Changes : Ask(i, change)
       \/ ChangeNumber \/ Verify \/ SendReauthCode \/ Verified \/ VerificationFailed \/ CloseDialog
       \/ SignOut \/ DeleteAccount \/ Ages \/ OtherTab

ProfileSpec == ProfileInit /\ [][ProfileNext]_profileVars
--------------------------------------------------------------------------------
(* Properties *)

\* Every variable keeps its type.
ProfileTypeOK ==
    /\ methods \subseteq Methods /\ local \subseteq Methods /\ shown \subseteq Methods
    /\ {recent, estranged} \subseteq BOOLEAN
    /\ click \in [Clicks -> [change : Changes, stage : Stages, again : BOOLEAN, done : 0..MaxClicks,
                             givenUp : BOOLEAN]]
    /\ {busy, pending} \subseteq Clicks \cup {NoClick}
    /\ dialog \in [open : BOOLEAN, step : {"enter", "code"}, loading : BOOLEAN]
    /\ verifying \in 0..MaxClicks
    /\ phoneStep \in {"enter", "code"} /\ deletion \in {"closed", "open", "deleting", "left"}
    /\ pending # NoClick => click[pending].stage = "waiting"

\* The account keeps a way to sign in ("Link another sign-in method before unlinking Google",
\* ProfilePage.tsx): the page's own rule is enough as long as no two changes overlap, no answer is
\* lost, no other tab changes the account and no dialog is closed under its verification.
MethodKept == methods = {} => estranged

\* What the user asks for once is done at most once, however many verifications succeed
\* (onReauthSuccess empties pendingAction before it calls it), and a change the user gave up by
\* closing the dialog, with no verification on its way, is never done after all, although
\* pendingAction still holds it.
DoneAsAsked == \A i \in Clicks : click[i].done <= IF click[i].givenUp THEN 0 ELSE 1
================================================================================
