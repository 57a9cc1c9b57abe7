------------------------------- MODULE PageProofs -------------------------------
(***************************************************************************)
(* Proofs about the two models of the workflows page.  WorkflowsPage, for  *)
(* any runs, polls and calls: the list, the selection and the address      *)
(* agree, and the linked run stays listed.  OutputDrafts, for any runs,    *)
(* pages, edits and requests: the drafts keep their locks, and no AI edit  *)
(* that was cancelled is applied.                                          *)
(***************************************************************************)
EXTENDS WorkflowsPage, OutputDrafts, TLAPS

PollStates == [st: {"idle", "asked", "answered"}, rows: Lists]

LinkStates == [st: {"never", "asked", "answered", "failed", "done"}, live: BOOLEAN,
               row: Maybe(Run)]

Call == [st: {"asked", "answered", "failed"}, kind: Kinds, run: Runs, sel: Maybe(Runs),
         row: Maybe(Run)]

\* A dialog that renames or deletes names a run.
DialogStates ==
    {d \in [kind: Dialogs \cup {"none"}, run: Maybe(Runs), saving: BOOLEAN] :
        d.kind \in {"rename", "delete"} => d.run \in Runs}

\* What the service and the requests hold.
Requests ==
    /\ srv \in Lists /\ gone \subseteq Runs
    /\ polls \in [Polls -> PollStates]
    /\ calls \in [Calls -> Call \cup {Idle}]
    /\ dialog \in DialogStates

\* What the page shows, and the fetches of linked runs.
Shown ==
    /\ runs \in Lists
    /\ {linked, selected, refining} \subseteq Maybe(Runs) /\ filter \in Filters
    /\ links \in [Runs -> LinkStates]
    /\ \A r \in Runs : links[r].live => r = linked

\* An answer brings a run, and a deletion is answered once the run is gone.
AnswersHold ==
    /\ \A r \in Runs : links[r].st = "answered" => links[r].row # None
    /\ \A c \in Calls : calls[c] # Idle /\ calls[c].st = "answered" =>
          IF calls[c].kind = "delete" THEN calls[c].run \in gone ELSE calls[c].row # None

PageInv == Requests /\ Shown /\ AnswersHold /\ SelectionListed

--------------------------------------------------------------------------------
(* What Repair and Show establish, whatever they are given. *)

LEMMA Values ==
    /\ None \notin Runs /\ None \notin Run
    /\ Nothing \in Lists /\ "all" \in Filters
    /\ \A list \in Lists, r \in Runs, row \in Maybe(Run) : [list EXCEPT ![r] = row] \in Lists
    /\ \A list \in Lists : Listed(list) \subseteq Runs
    /\ \A list \in Lists, f \in Filters, r \in Maybe(Runs) : Visible(list, f, r) \subseteq Listed(list)
    /\ Idle \notin Call
BY PageAssumption, NoRunAssumption DEF Nothing, Lists, Maybe, Listed, Visible, Idle, Call

\* The selection is repaired: nothing else is assumed of what was selected.
LEMMA RepairSelects ==
    ASSUME NEW list \in Lists, NEW link \in Maybe(Runs), NEW sel \in Maybe(Runs),
           filter' \in Filters, runs' = list, linked' = link, Repair(list, link, sel)
    PROVE  selected' \in Maybe(Runs) /\ SelectionListed'
<1> DEFINE visible == Visible(list, filter', refining')
<1>1. visible \subseteq Runs /\ \A r \in visible : list[r] # None
  BY Values DEF Visible, Listed
<1>2. \/ link # None /\ list[link] # None /\ selected' = link
      \/ ~(link # None /\ list[link] # None) /\ selected' \in visible
      \/ ~(link # None /\ list[link] # None) /\ selected' = None /\ visible = {}
  BY DEF Repair
<1>3. Visible(runs', filter', refining') = visible
  OBVIOUS
<1> HIDE DEF visible
<1>4. selected' \in Maybe(Runs)
  BY <1>1, <1>2 DEF Maybe
<1>5. SelectionListed'
  BY <1>1, <1>2, <1>3, Values DEF SelectionListed
<1> QED
  BY <1>4, <1>5

LEMMA ShowStep ==
    ASSUME Shown, AnswersHold, refining' \in Maybe(Runs), NEW list \in Lists, NEW link \in Maybe(Runs),
           NEW sel \in Maybe(Runs), Redraw(list, link, sel)
    PROVE  /\ Shown' /\ SelectionListed' /\ runs' = list /\ linked' = link
           /\ \A r \in Runs : links'[r].st = "answered" => links'[r].row # None
<1>1. /\ runs' = list /\ linked' = link /\ filter' = filter
      /\ FetchLinked(list, link) /\ Repair(list, link, sel)
  BY DEF Redraw
<1>2. selected' \in Maybe(Runs) /\ SelectionListed'
  BY <1>1, RepairSelects DEF Shown
<1> DEFINE next(r) == IF r = link /\ list[r] = None /\ links[r].st = "never"
                      THEN [st |-> "asked", live |-> TRUE, row |-> None]
                      ELSE [links[r] EXCEPT !.live = FALSE]
<1>3. \A r \in Runs : /\ next(r) \in LinkStates /\ (next(r).live => r = link)
                      /\ next(r).st = "answered" => next(r).row # None
  BY DEF Shown, LinkStates, AnswersHold, Maybe
<1>4. links' = [r \in Runs |-> next(r)]
  BY <1>1 DEF FetchLinked
<1> HIDE DEF next
<1>5. links' \in [Runs -> LinkStates] /\ \A r \in Runs : links'[r] = next(r)
  BY <1>3, <1>4
<1> QED
  BY <1>1, <1>2, <1>3, <1>5 DEF Shown

\* A step that leaves the page alone.
LEMMA SamePage ==
    ASSUME Shown, SelectionListed, UNCHANGED page
    PROVE  /\ Shown' /\ SelectionListed'
           /\ \A r \in Runs : links'[r] = links[r] /\ runs'[r] = runs[r]
BY DEF page, Shown, SelectionListed, Visible, Listed, Matches

\* The linked run leaves the list only when it is deleted.
Stays == \A r \in Runs : linked = r /\ linked' = r /\ runs[r] # None /\ runs'[r] = None => r \in gone

--------------------------------------------------------------------------------
(* Steps that leave what the page shows. *)

LEMMA RequestsOnly ==
    ASSUME PageInv, UNCHANGED page, Requests', AnswersHold'
    PROVE  PageInv' /\ Stays
BY SamePage DEF PageInv, Stays

LEMMA ServiceStep ==
    ASSUME PageInv, NEW r \in Runs, Execute(r) \/ Elsewhere(r)
    PROVE  PageInv' /\ Stays
<1>1. Requests /\ AnswersHold /\ srv[r] # None /\ srv[r] \in Run
  BY DEF PageInv, Requests, Execute, Elsewhere, Lists, Maybe
<1>2. PICK row \in Maybe(Run) : srv' = [srv EXCEPT ![r] = row]
  <2>1. CASE Execute(r)
    <3>1. PICK next \in Active \cup Ended :
             srv' = [srv EXCEPT ![r] = [status |-> next, rev |-> srv[r].rev + 1]]
      BY <1>1, <2>1 DEF Execute, Requests, Lists, Active
    <3>2. [status |-> next, rev |-> srv[r].rev + 1] \in Run
      BY <1>1, <3>1 DEF Run
    <3> QED
      BY <3>1, <3>2 DEF Maybe
  <2>2. CASE ChangedElsewhere(r)
    <3>1. [srv[r] EXCEPT !.rev = @ + 1] \in Run
      BY <1>1 DEF Run
    <3>2. srv' = [srv EXCEPT ![r] = [srv[r] EXCEPT !.rev = @ + 1]]
      BY <1>1, <2>2 DEF ChangedElsewhere, Touched, Requests, Lists
    <3> QED
      BY <3>1, <3>2 DEF Maybe
  <2>3. CASE DeletedElsewhere(r)
    BY <2>3 DEF DeletedElsewhere, Removed, Maybe
  <2> QED
    BY <2>1, <2>2, <2>3 DEF Elsewhere
<1>3. /\ gone \subseteq gone' /\ gone' \subseteq Runs /\ UNCHANGED <<page, polls, calls, dialog>>
  BY <1>1 DEF Execute, Elsewhere, ChangedElsewhere, DeletedElsewhere, Requests
<1>4. Requests'
  BY <1>1, <1>2, <1>3, Values DEF Requests
<1>5. AnswersHold'
  BY <1>1, <1>3 DEF AnswersHold, page
<1> QED
  BY <1>3, <1>4, <1>5, RequestsOnly

LEMMA PollStep ==
    ASSUME PageInv, NEW p \in Polls, AskList(p) \/ AnswerList(p) \/ FailList(p)
    PROVE  PageInv' /\ Stays
<1>1. Requests /\ AnswersHold
  BY DEF PageInv
<1>2. UNCHANGED <<service, page, calls, dialog>>
  BY DEF AskList, AnswerList, FailList
<1>3. Newest \in Lists
  BY <1>1 DEF Newest, Requests, Lists, Maybe
<1>4. polls' \in [Polls -> PollStates]
  BY <1>1, <1>3 DEF AskList, AnswerList, FailList, Requests, PollStates
<1>5. Requests' /\ AnswersHold'
  BY <1>1, <1>2, <1>4 DEF service, page, Requests, AnswersHold
<1> QED
  BY <1>2, <1>5, RequestsOnly

LEMMA DialogStep ==
    ASSUME PageInv,
           \/ \E kind \in Dialogs, r \in Maybe(Runs) : OpenDialog(kind, r)
           \/ CloseDialog
    PROVE  PageInv' /\ Stays
<1>1. Requests /\ AnswersHold
  BY DEF PageInv
<1>2. UNCHANGED <<service, page, polls, calls>> /\ dialog' \in DialogStates
  <2>1. ASSUME NEW kind \in Dialogs, NEW r \in Maybe(Runs), OpenDialog(kind, r)
        PROVE  UNCHANGED <<service, page, polls, calls>> /\ dialog' \in DialogStates
    <3>1. kind \in {"rename", "delete"} => r \in Runs
      BY <2>1 DEF OpenDialog, Visible, Listed
    <3> QED
      BY <2>1, <3>1 DEF OpenDialog, DialogStates
  <2>2. CASE CloseDialog
    BY <2>2 DEF CloseDialog, Closed, DialogStates, Maybe
  <2> QED
    BY <2>1, <2>2
<1>3. Requests' /\ AnswersHold'
  BY <1>1, <1>2 DEF service, page, Requests, AnswersHold
<1> QED
  BY <1>2, <1>3, RequestsOnly

LEMMA StartStep ==
    ASSUME PageInv, NEW c \in Calls, NEW kind \in Kinds, NEW r \in Runs, Start(c, kind, r),
           UNCHANGED <<service, links, polls>>,
           dialog' \in {dialog, [dialog EXCEPT !.saving = TRUE]}
    PROVE  Requests' /\ AnswersHold'
<1> DEFINE call == [st |-> "asked", kind |-> kind, run |-> r,
                    sel |-> IF kind = "delete" THEN selected ELSE None, row |-> None]
<1>1. Requests /\ AnswersHold /\ Shown
  BY DEF PageInv
<1>2. call \in Call /\ call.st # "answered"
  BY <1>1 DEF Call, Shown, Maybe
<1>3. calls' = [calls EXCEPT ![c] = call]
  BY DEF Start
<1> HIDE DEF call
<1>4. dialog' \in DialogStates
  BY <1>1 DEF Requests, DialogStates
<1>5. Requests'
  BY <1>1, <1>2, <1>3, <1>4 DEF Requests, service
<1>6. \A d \in Calls : calls'[d] = IF d = c THEN call ELSE calls[d]
  BY <1>1, <1>3 DEF Requests
<1>7. AnswersHold'
  BY <1>1, <1>2, <1>6 DEF AnswersHold, service
<1> QED
  BY <1>5, <1>7

\* The mark of a refinement changes.
LEMMA RemarkStep ==
    ASSUME PageInv, NEW r \in Maybe(Runs), Remark(r), Requests', AnswersHold'
    PROVE  PageInv' /\ Stays
<1>1. Shown /\ UNCHANGED <<runs, linked, filter, links>> /\ refining' = r /\ Repair(runs, linked, selected)
  BY DEF PageInv, Remark
<1>2. selected' \in Maybe(Runs) /\ SelectionListed'
  BY <1>1, RepairSelects DEF Shown
<1> QED
  BY <1>1, <1>2 DEF PageInv, Shown, Stays

\* The user submits a dialog, or changes a version.
LEMMA SubmitStep ==
    ASSUME PageInv, NEW c \in Calls,
           \/ SubmitLaunch(c) \/ SubmitRename(c) \/ SubmitDelete(c)
           \/ \E r \in Runs : ChangeVersion(c, r) \/ Refine(c, r)
    PROVE  PageInv' /\ Stays
<1>1. Requests /\ Shown
  BY DEF PageInv
<1>2. PICK kind \in Kinds, r \in Runs :
         /\ Start(c, kind, r) /\ UNCHANGED <<service, polls, links>>
         /\ UNCHANGED page \/ Remark(r)
         /\ dialog' \in {dialog, [dialog EXCEPT !.saving = TRUE]}
  <2>1. CASE SubmitLaunch(c)
    <3>1. PICK r \in Fresh : Start(c, "launch", r)
      BY <2>1 DEF SubmitLaunch
    <3>2. r \in Runs /\ "launch" \in Kinds
      BY DEF Fresh, Kinds, Dialogs
    <3> QED
      BY <2>1, <3>1, <3>2 DEF SubmitLaunch, Submits, page
  <2>2. CASE SubmitRename(c) \/ SubmitDelete(c)
    <3>1. dialog.run \in Runs
      BY <1>1, <2>2 DEF SubmitRename, SubmitDelete, Submits, Requests, DialogStates
    <3> QED
      BY <2>2, <3>1 DEF SubmitRename, SubmitDelete, Submits, Kinds, Dialogs, page
  <2>3. CASE \E r \in Runs : ChangeVersion(c, r) \/ Refine(c, r)
    BY <2>3 DEF ChangeVersion, Refine, Remark, Kinds, page
  <2> QED
    BY <2>1, <2>2, <2>3
<1>3. Requests' /\ AnswersHold' /\ r \in Maybe(Runs)
  BY <1>2, StartStep DEF Maybe
<1> QED
  BY <1>2, <1>3, RequestsOnly, RemarkStep

\* The service answers a call or refuses it, or the call is lost or ends without an answer.
LEMMA ServeStep ==
    ASSUME PageInv, NEW c \in Calls, Serve(c) \/ Refuse(c) \/ LoseCall(c) \/ CallFailed(c)
    PROVE  PageInv' /\ Stays
<1>1. Requests /\ AnswersHold /\ calls[c] # Idle /\ calls[c] \in Call
  BY DEF PageInv, Serve, Refuse, LoseCall, CallFailed, Busy, Requests
<1>2. CASE Serve(c)
  <2> DEFINE r == calls[c].run
             call == [calls[c] EXCEPT !.st = "answered", !.row = srv'[r]]
  <2>1. PICK row \in Maybe(Run) :
           /\ srv' = [srv EXCEPT ![r] = row] /\ calls' = [calls EXCEPT ![c] = call]
           /\ \/ calls[c].kind # "delete" /\ row # None /\ gone' = gone
              \/ calls[c].kind = "delete" /\ gone' = gone \cup {r}
    <3>0. calls' = [calls EXCEPT ![c] = call]
      BY <1>1, <1>2 DEF Serve, Answered, Requests
    <3> HIDE DEF call
    <3>1. CASE calls[c].kind = "launch" /\ srv' = [srv EXCEPT ![r] = [status |-> "queued", rev |-> 0]]
               /\ gone' = gone
      <4> DEFINE queued == [status |-> "queued", rev |-> 0]
      <4>1. queued \in Run
        BY DEF Run, Active
      <4>2. queued \in Maybe(Run) /\ queued # None
        BY <4>1, Values DEF Maybe
      <4>3. srv' = [srv EXCEPT ![r] = queued]
        BY <3>1
      <4> HIDE DEF queued
      <4> QED
        BY <3>0, <3>1, <4>2, <4>3
    <3>2. CASE srv[r] # None /\ srv' = Touched(r) /\ gone' = gone /\ calls[c].kind # "delete"
      <4> DEFINE touched == [srv[r] EXCEPT !.rev = @ + 1]
      <4>1. srv[r] \in Run /\ touched \in Run
        BY <1>1, <3>2 DEF Requests, Lists, Maybe, Call, Run
      <4>2. touched \in Maybe(Run) /\ touched # None
        BY <4>1, Values DEF Maybe
      <4>3. srv' = [srv EXCEPT ![r] = touched]
        BY <3>2 DEF Touched
      <4> HIDE DEF touched
      <4> QED
        BY <3>0, <3>2, <4>2, <4>3
    <3>3. CASE srv' = Removed(r) /\ gone' = gone \cup {r} /\ calls[c].kind = "delete"
      BY <3>0, <3>3 DEF Removed, Maybe
    <3> QED
      BY <1>2, <3>1, <3>2, <3>3 DEF Serve, Busy, Kinds, Dialogs
  <2>2. UNCHANGED <<page, polls, dialog>>
    BY <1>2 DEF Serve
  <2>3. srv' \in Lists /\ r \in Runs /\ srv'[r] = row
    BY <1>1, <2>1, Values DEF Requests, Call, Lists
  <2>4. call \in Call /\ call.kind = calls[c].kind /\ call.run = r /\ call.row = srv'[r]
    BY <1>1, <2>3 DEF Call, Lists
  <2> HIDE DEF call
  <2>5. Requests'
    BY <1>1, <2>1, <2>2, <2>3, <2>4 DEF Requests
  <2>6. \A d \in Calls : calls'[d] = IF d = c THEN call ELSE calls[d]
    BY <1>1, <2>1 DEF Requests
  <2>7. gone \subseteq gone' /\ (call.kind = "delete" => r \in gone') /\ (call.kind # "delete" => call.row # None)
    BY <2>1, <2>3, <2>4
  <2>8. AnswersHold'
    BY <1>1, <2>2, <2>4, <2>6, <2>7 DEF AnswersHold, page
  <2> QED
    BY <2>2, <2>5, <2>8, RequestsOnly
<1>3. CASE Refuse(c) \/ LoseCall(c) \/ CallFailed(c)
  <2>1. PICK call \in Call \cup {Idle} :
           /\ calls' = [calls EXCEPT ![c] = call]
           /\ call # Idle => call.st # "answered"
    <3>1. [calls[c] EXCEPT !.st = "failed"] \in Call
      BY <1>1 DEF Call
    <3>2. [calls[c] EXCEPT !.st = "failed"].st = "failed"
      BY <1>1 DEF Call
    <3> QED
      BY <1>3, <3>1, <3>2 DEF Refuse, LoseCall, CallFailed
  <2>2. UNCHANGED <<service, polls, links>> /\ dialog' \in {dialog, [dialog EXCEPT !.saving = FALSE]}
    BY <1>3 DEF Refuse, LoseCall, CallFailed, Remark, page
  <2>3. dialog' \in DialogStates
    BY <1>1, <2>2 DEF Requests, DialogStates
  <2>4. Requests'
    BY <1>1, <2>1, <2>2, <2>3 DEF Requests, service
  <2>5. \A d \in Calls : calls'[d] = IF d = c THEN call ELSE calls[d]
    BY <1>1, <2>1 DEF Requests
  <2>6. AnswersHold'
    BY <1>1, <2>1, <2>2, <2>5 DEF AnswersHold, service
  <2>7. UNCHANGED page \/ Remark(Unmarked(calls[c].run))
    BY <1>3 DEF Refuse, LoseCall, CallFailed
  <2>8. Unmarked(calls[c].run) \in Maybe(Runs)
    BY DEF Unmarked, PageInv, Shown, Maybe
  <2> QED
    BY <2>4, <2>6, <2>7, <2>8, RequestsOnly, RemarkStep
<1> QED
  BY <1>2, <1>3

--------------------------------------------------------------------------------
(* Steps that change what the page shows. *)

LEMMA LinkStep ==
    ASSUME PageInv, NEW r \in Runs, AnswerLink(r) \/ FailLink(r) \/ DropLinked(r)
    PROVE  PageInv' /\ Stays
<1>1. Requests /\ AnswersHold /\ Shown /\ SelectionListed
  BY DEF PageInv
<1>2. UNCHANGED <<service, runs, linked, selected, filter, refining, polls, calls, dialog>>
  BY DEF AnswerLink, FailLink, DropLinked
<1>3. PICK link \in LinkStates :
         /\ links' = [links EXCEPT ![r] = link]
         /\ link.live => links[r].live
         /\ link.st = "answered" => link.row # None
  <2>1. CASE AnswerLink(r)
    <3> DEFINE link == [links[r] EXCEPT !.st = IF srv[r] = None THEN "failed" ELSE "answered",
                                        !.row = srv[r]]
    <3>1. link \in LinkStates /\ link.live = links[r].live /\ (link.st = "answered" => link.row # None)
      BY <1>1 DEF Requests, Shown, Lists, LinkStates
    <3>2. links' = [links EXCEPT ![r] = link]
      BY <2>1 DEF AnswerLink
    <3> QED
      BY <3>1, <3>2
  <2>2. CASE FailLink(r)
    <3> DEFINE link == [links[r] EXCEPT !.st = "failed"]
    <3>1. link \in LinkStates /\ link.live = links[r].live /\ link.st = "failed"
      BY <1>1 DEF Shown, LinkStates
    <3>2. links' = [links EXCEPT ![r] = link]
      BY <2>2 DEF FailLink
    <3> QED
      BY <3>1, <3>2
  <2>3. CASE DropLinked(r)
    <3> DEFINE link == [st |-> "done", live |-> FALSE, row |-> None]
    <3>1. link \in LinkStates /\ ~link.live /\ link.st = "done"
      BY DEF LinkStates, Maybe
    <3>2. links' = [links EXCEPT ![r] = link]
      BY <2>3 DEF DropLinked
    <3> QED
      BY <3>1, <3>2
  <2> QED
    BY <2>1, <2>2, <2>3
<1>4. \A x \in Runs : links'[x] = IF x = r THEN link ELSE links[x]
  BY <1>1, <1>3 DEF Shown
<1>5. Shown' /\ SelectionListed'
  BY <1>1, <1>2, <1>3, <1>4 DEF Shown, SelectionListed, Visible, Listed, Matches
<1>6. Requests' /\ AnswersHold'
  BY <1>1, <1>2, <1>3, <1>4 DEF Requests, AnswersHold, service
<1> QED
  BY <1>2, <1>5, <1>6 DEF PageInv, Stays

\* A fetched run opens, or a filter is chosen: the selection is repaired.
LEMMA RepairStep ==
    ASSUME PageInv, (\E r \in Runs : OpenLinked(r)) \/ \E f \in Filters : SetFilter(f)
    PROVE  PageInv' /\ Stays
<1>1. Requests /\ AnswersHold /\ Shown
  BY DEF PageInv
<1>2. ASSUME NEW r \in Runs, OpenLinked(r) PROVE PageInv' /\ Stays
  <2> DEFINE list == [runs EXCEPT ![r] = links[r].row]
             link == [st |-> "done", live |-> FALSE, row |-> None]
  <2>1. /\ links[r].st = "answered" /\ runs' = list /\ UNCHANGED <<linked, filter, refining>>
        /\ links' = [links EXCEPT ![r] = link]
        /\ Repair(list, linked, r)
        /\ UNCHANGED <<service, polls, calls, dialog>>
    BY <1>2 DEF OpenLinked
  <2>2. links[r].row \in Maybe(Run) /\ links[r].row # None /\ list \in Lists
    BY <1>1, <2>1, Values DEF Shown, AnswersHold, LinkStates
  <2>3. list[r] # None /\ \A x \in Runs : x # r => list[x] = runs[x]
    BY <1>1, <2>2 DEF Shown, Lists
  <2> HIDE DEF list
  <2>4. selected' \in Maybe(Runs) /\ SelectionListed'
    BY <1>1, <2>1, <2>2, RepairSelects DEF Shown, Maybe
  <2>5. link \in LinkStates /\ ~link.live /\ link.st = "done"
    BY DEF LinkStates, Maybe
  <2> HIDE DEF link
  <2>6. \A x \in Runs : links'[x] = IF x = r THEN link ELSE links[x]
    BY <1>1, <2>1 DEF Shown
  <2>7. Shown'
    BY <1>1, <2>1, <2>2, <2>4, <2>5, <2>6 DEF Shown
  <2>8. Requests' /\ AnswersHold'
    BY <1>1, <2>1, <2>5, <2>6 DEF Requests, AnswersHold, service
  <2>9. Stays
    BY <2>1, <2>3 DEF Stays
  <2> QED
    BY <2>4, <2>7, <2>8, <2>9 DEF PageInv
<1>3. ASSUME NEW f \in Filters, SetFilter(f) PROVE PageInv' /\ Stays
  <2>1. /\ filter' = f /\ Repair(runs, linked, selected)
        /\ UNCHANGED <<service, runs, linked, refining, links, polls, calls, dialog>>
    BY <1>3 DEF SetFilter
  <2>2. selected' \in Maybe(Runs) /\ SelectionListed'
    BY <1>1, <2>1, RepairSelects DEF Shown
  <2>3. Shown' /\ Requests' /\ AnswersHold'
    BY <1>1, <2>1, <2>2 DEF Shown, Requests, AnswersHold, service
  <2> QED
    BY <2>1, <2>2, <2>3 DEF PageInv, Stays
<1> QED
  BY <1>2, <1>3

\* What a step shows, with the request that brought it settled.
LEMMA ShowsStep ==
    ASSUME PageInv, UNCHANGED service, refining' \in Maybe(Runs),
           NEW list \in Lists, NEW link \in Maybe(Runs), NEW sel \in Maybe(Runs),
           Redraw(list, link, sel),
           polls' \in [Polls -> PollStates], calls' \in [Calls -> Call \cup {Idle}],
           \A c \in Calls : calls'[c] \in {calls[c], Idle},
           dialog' \in {dialog, Closed},
           \A r \in Runs : link = r /\ linked = r /\ runs[r] # None /\ list[r] = None => r \in gone
    PROVE  PageInv' /\ Stays
<1>1. Requests /\ AnswersHold /\ Shown
  BY DEF PageInv
<1>2. /\ Shown' /\ SelectionListed' /\ runs' = list /\ linked' = link
      /\ \A r \in Runs : links'[r].st = "answered" => links'[r].row # None
  BY <1>1, ShowStep
<1>3. dialog' \in DialogStates
  <2>1. Closed \in DialogStates
    BY DEF Closed, DialogStates, Maybe
  <2> QED
    BY <1>1, <2>1 DEF Requests
<1>4. Requests' /\ AnswersHold'
  BY <1>1, <1>2, <1>3 DEF Requests, AnswersHold, service
<1> QED
  BY <1>2, <1>4 DEF PageInv, Stays

LEMMA ListStep ==
    ASSUME PageInv, (\E p \in Polls : ShowList(p)) \/ \E r \in Runs : SelectRun(r)
    PROVE  PageInv' /\ Stays
<1>1. Requests /\ Shown
  BY DEF PageInv
<1>2. ASSUME NEW p \in Polls, ShowList(p) PROVE PageInv' /\ Stays
  <2> DEFINE list == Incoming(polls[p].rows)
  <2>1. polls[p].rows \in Lists
    BY <1>1 DEF Requests, PollStates
  <2>2. list \in Lists /\ (linked # None /\ runs[linked] # None => list[linked] # None)
    BY <1>1, <2>1 DEF Incoming, Shown, Lists, Maybe
  <2>3. polls' \in [Polls -> PollStates]
    BY <1>1, <1>2, Values DEF ShowList, Requests, PollStates
  <2>4. /\ Redraw(list, linked, selected)
        /\ UNCHANGED <<service, refining, calls, dialog>>
    BY <1>2 DEF ShowList, Show
  <2> HIDE DEF list
  <2> QED
    BY <1>1, <2>2, <2>3, <2>4, ShowsStep, Values DEF Requests, Shown
<1>3. ASSUME NEW r \in Runs, SelectRun(r) PROVE PageInv' /\ Stays
  <2>1. Redraw(runs, r, r) /\ UNCHANGED <<service, refining, polls, calls, dialog>>
    BY <1>3 DEF SelectRun, Show
  <2>2. r \in Maybe(Runs)
    BY DEF Maybe
  <2> QED
    BY <1>1, <2>1, <2>2, ShowsStep DEF Requests, Shown
<1> QED
  BY <1>2, <1>3

LEMMA FinishStep ==
    ASSUME PageInv, NEW c \in Calls,
           Launched(c) \/ Renamed(c) \/ VersionChanged(c) \/ Refined(c) \/ Deleted(c)
    PROVE  PageInv' /\ Stays
<1> DEFINE r == calls[c].run
           row == calls[c].row
<1>1. Requests /\ Shown /\ AnswersHold
  BY DEF PageInv
<1>2. /\ calls[c] \in Call /\ calls[c] # Idle /\ calls[c].st = "answered"
      /\ calls' = [calls EXCEPT ![c] = Idle] /\ dialog' \in {dialog, Closed}
      /\ UNCHANGED <<service, polls>>
  BY <1>1 DEF Launched, Renamed, VersionChanged, Refined, Deleted, Finish, CloseOf, Busy, Requests
<1>3. /\ calls' \in [Calls -> Call \cup {Idle}]
      /\ \A d \in Calls : calls'[d] \in {calls[d], Idle}
      /\ polls' \in [Polls -> PollStates]
  BY <1>1, <1>2 DEF Requests
<1>4. r \in Runs /\ row \in Maybe(Run) /\ r \in Maybe(Runs) /\ None \in Maybe(Runs)
  BY <1>2 DEF Call, Maybe
<1>5. IF calls[c].kind = "delete" THEN r \in gone ELSE row # None
  BY <1>1, <1>2 DEF AnswersHold
<1>6. PICK list \in Lists, link \in Maybe(Runs), sel \in Maybe(Runs) :
         /\ Redraw(list, link, sel)
         /\ \A x \in Runs : runs[x] # None /\ list[x] = None => x = r /\ calls[c].kind = "delete"
  <2> DEFINE new == [runs EXCEPT ![r] = row]
             old == [runs EXCEPT ![r] = None]
  <2>1. new \in Lists /\ Replaced(r, row) \in Lists /\ old \in Lists /\ None \in Maybe(Run)
    BY <1>1, <1>4, Values DEF Replaced, Shown, Maybe
  <2>2. CASE Launched(c)
    <3>1. Redraw(new, r, r) /\ calls[c].kind = "launch"
      BY <2>2 DEF Launched, Finish, Busy, Show
    <3>2. \A x \in Runs : runs[x] # None => new[x] # None
      BY <1>1, <1>5, <3>1 DEF Shown, Lists
    <3> QED
      BY <1>4, <2>1, <3>1, <3>2
  <2>3. CASE Renamed(c) \/ VersionChanged(c) \/ Refined(c)
    <3>1. /\ Redraw(Replaced(r, row), linked, selected) \/ Redraw(Replaced(r, row), r, r)
          /\ calls[c].kind # "delete"
      BY <2>3 DEF Renamed, VersionChanged, Refined, Finish, Busy, Show
    <3>2. \A x \in Runs : runs[x] # None => Replaced(r, row)[x] # None
      BY <1>1, <1>5, <3>1 DEF Shown, Lists, Replaced
    <3> QED
      BY <1>1, <1>4, <2>1, <3>1, <3>2 DEF Shown
  <2>4. CASE Deleted(c)
    <3> DEFINE mine == calls[c].sel = r
    <3>1. /\ Redraw(old, IF mine THEN None ELSE linked, IF mine THEN None ELSE selected)
          /\ calls[c].kind = "delete"
      BY <2>4 DEF Deleted, Finish, Busy, Show
    <3>2. \A x \in Runs : runs[x] # None /\ old[x] = None => x = r
      BY <1>1 DEF Shown, Lists
    <3> QED
      BY <1>1, <1>4, <2>1, <3>1, <3>2 DEF Shown
  <2> QED
    BY <2>2, <2>3, <2>4
<1>7. refining' \in Maybe(Runs)
  BY <1>1 DEF Shown, Launched, Renamed, VersionChanged, Refined, Deleted, Show, Unmarked, Maybe
<1> QED
  BY <1>2, <1>3, <1>5, <1>6, <1>7, ShowsStep

--------------------------------------------------------------------------------
(* The properties. *)

LEMMA PageStep ==
    ASSUME PageInv, Next
    PROVE  PageInv' /\ Stays
<1>1. CASE Service
  BY <1>1, ServiceStep DEF Service
<1>2. ASSUME NEW p \in Polls, Listing(p) PROVE PageInv' /\ Stays
  BY <1>2, PollStep, ListStep DEF Listing
<1>3. ASSUME NEW r \in Runs, Linking(r) PROVE PageInv' /\ Stays
  BY <1>3, LinkStep, RepairStep DEF Linking
<1>4. ASSUME NEW c \in Calls, Finishing(c) PROVE PageInv' /\ Stays
  BY <1>4, ServeStep, FinishStep DEF Finishing
<1>5. CASE User
  BY <1>5, DialogStep, SubmitStep, ListStep, RepairStep DEF User, UseDialog
<1> QED
  BY <1>1, <1>2, <1>3, <1>4, <1>5 DEF Next

THEOREM PageInductive == Spec => []PageInv
<1>1. Init => PageInv
  <2> SUFFICES ASSUME Init PROVE PageInv
    OBVIOUS
  <2>1. srv \in Lists
    <3>1. [status: Opening, rev: {0}] \subseteq Run
      <4>1. Opening \subseteq Active \cup Ended
        BY PageAssumption DEF Active, Ended
      <4>2. \A s \in [status: Opening, rev: {0}] : s \in [status: Active \cup Ended, rev: Nat]
        BY <4>1
      <4> QED
        BY <4>2 DEF Run
    <3>2. srv \in [Runs -> {None} \cup [status: Opening, rev: {0}]]
      BY DEF Init
    <3> QED
      BY <3>1, <3>2 DEF Lists, Maybe
  <2>2. PICK p \in Polls : polls = [q \in Polls |-> [st |-> IF q = p THEN "asked" ELSE "idle",
                                                    rows |-> Nothing]]
    BY DEF Init
  <2>3. polls \in [Polls -> PollStates]
    BY <2>2, Values DEF PollStates
  <2>4. Requests
    BY <2>1, <2>3 DEF Init, Requests, Closed, DialogStates, Maybe
  <2>5. Shown
    BY <2>1, Values DEF Init, Shown, LinkStates, Maybe
  <2>6. AnswersHold
    BY DEF Init, AnswersHold
  <2>7. SelectionListed
    BY Values DEF Init, SelectionListed, Nothing, Visible, Listed, Maybe
  <2> QED
    BY <2>4, <2>5, <2>6, <2>7 DEF PageInv
<1>2. PageInv /\ [Next]_vars => PageInv'
  <2> SUFFICES ASSUME PageInv, UNCHANGED vars PROVE PageInv'
    BY PageStep
  <2> QED
    BY DEF vars, PageInv, Requests, Shown, AnswersHold, SelectionListed, Visible, Listed, Matches
<1> QED
  BY <1>1, <1>2, PTL DEF Spec

\* The list, the selection and the address agree, in whatever order polls, fetches of the
\* linked run and calls are answered (the effects on linkedRunId and visibleRuns).
THEOREM PageStaysCoherent == Spec => []PageCoherent
<1>1. PageInv => PageCoherent
  <2> SUFFICES ASSUME PageInv PROVE PageTypeOK
    BY DEF PageCoherent, PageInv
  <2>1. Requests /\ Shown
    BY DEF PageInv
  <2>2. \A p \in Polls : polls[p].st \in {"idle", "asked", "answered"} /\ polls[p].rows \in Lists
    BY <2>1 DEF Requests, PollStates
  <2>3. \A r \in Runs : links[r].st \in {"never", "asked", "answered", "failed", "done"}
    BY <2>1 DEF Shown, LinkStates
  <2> QED
    BY <2>1, <2>2, <2>3 DEF PageTypeOK, Requests, Shown
<1> QED
  BY <1>1, PageInductive, PTL

\* No older poll takes the run in the address off the list (incomingWithLinked).
THEOREM LinkedRunKept == Spec => LinkedRunStays
<1>1. PageInv /\ [Next]_vars =>
        [\A r \in Runs : linked = r /\ linked' = r /\ runs[r] # None /\ runs'[r] = None
                          => r \in gone]_vars
  BY PageStep DEF Stays
<1> QED
  BY <1>1, PageInductive, PTL DEF Spec, LinkedRunStays

--------------------------------------------------------------------------------
(* The drafts of edited outputs. *)

\* A request to save or delete, as Send makes it.
SaveCall == [st: {"asked"}, kind: {"save", "artifact", "delete"}, page: Pages, run: Runs,
             text: Texts]

AiCall == [st: {"asked"}, page: Pages, run: Runs, from: Texts]

\* A draft that is locked names the request it waits for.
Marked(draft) == draft # None => (draft.busy <=> draft.req # None)

\* What each variable holds.
Rest ==
    /\ mounted \in Pages \cup {None} /\ slot \in Runs \cup {None}
    /\ opened \in Pages /\ (mounted # None => mounted <= opened)
    /\ asking \in BOOLEAN
    /\ saves \in [Saves -> SaveCall \cup {NoSave}]
    /\ doc \in [Runs -> Texts \cup {None}]
    /\ edits \in 0..MaxEdits

Edits ==
    /\ ai \in [Ids -> AiCall \cup {NoAi, Dead}]
    /\ control \in [Pages -> [Runs -> Ids \cup {None}]]
    /\ cancelled \subseteq Ids

Copies ==
    /\ ref \in [Pages -> [Runs -> Draft \cup {None}]]
    /\ stored \in [Runs -> Draft \cup {None}] /\ foreign \in BOOLEAN
    /\ \A j \in Pages, x \in Runs : Marked(ref[j][x])
    /\ \A x \in Runs : Marked(stored[x])

Types == Rest /\ Edits /\ Copies

Asked(id) == ai[id].st = "asked"

\* A request under way is the one its page would abort for its run; what the page on the
\* screen would abort is under way; a page not opened yet has nothing to abort.
Controlled ==
    /\ \A id \in Ids : Asked(id) =>
          ai[id].page <= opened /\ control[ai[id].page][ai[id].run] = id
    /\ \A i \in Pages, r \in Runs, id \in Ids : control[i][r] = id =>
          /\ i <= opened
          /\ ai[id].st # "unused"
          /\ Asked(id) => ai[id].page = i /\ ai[id].run = r
          /\ i = mounted => Asked(id)

WaitedIn(id, r) == stored[r] # None /\ stored[r].req = id

\* A draft alone waits for a request, made before and of its own run.
WaitsOwn ==
    \A r \in Runs, id \in Ids : WaitedIn(id, r) =>
        /\ ai[id].st # "unused"
        /\ Asked(id) => ai[id].run = r
        /\ \A y \in Runs : WaitedIn(id, y) => y = r

\* Only the request of a page that was left can be cancelled and still be under way, and
\* nothing waits for it.
CancelledGone ==
    \A id \in cancelled : /\ ai[id].st # "unused" /\ (Asked(id) => ai[id].page # mounted)
                          /\ \A r \in Runs : ~WaitedIn(id, r)

\* The slot names a run that a request of the page holds, with its draft as it was sent.
Held ==
    mounted # None /\ slot # None =>
        \E s \in Saves :
            /\ Saving(s, {"save", "artifact"}) /\ saves[s].page = mounted /\ saves[s].run = slot
            /\ stored[slot] # None =>
                  /\ saves[s].kind = "save" /\ stored[slot].text = saves[s].text
                  /\ stored[slot].req = None

\* No text is of an AI edit that was cancelled or can still answer.
Unapplied(id) ==
    /\ \A r \in Runs : doc[r] # AiText(id) /\ (stored[r] # None => stored[r].text # AiText(id))
    /\ \A i \in Pages, r \in Runs : ref[i][r] # None => ref[i][r].text # AiText(id)
    /\ \A s \in Saves : saves[s] # NoSave => saves[s].text # AiText(id)

Pending(id) ==
    \/ ai[id].st # "dead" \/ id \in cancelled
    \/ \E r \in Runs : WaitedIn(id, r)

Clean == /\ Controlled /\ WaitsOwn /\ CancelledGone /\ AiLocks /\ Held
         /\ \A id \in Ids : Pending(id) => Unapplied(id)

DraftsInv == Types /\ CopyCoherent /\ (~foreign => Clean)

--------------------------------------------------------------------------------
(* Values. *)

LEMMA Bounds ==
    /\ None \notin Runs /\ None \notin Pages /\ None \notin Ids /\ None \notin Texts
    /\ MaxEdits \in Nat /\ MaxAi \in Nat /\ MaxPages \in Nat
    /\ 1 \in Pages /\ 0 \in Texts /\ \A i \in Pages : i \in Nat
    /\ \A id \in Ids : AiText(id) \in Texts /\ AiText(id) \notin 0..MaxEdits
    /\ \A e \in 0..MaxEdits : e \in Texts
BY DraftsAssumption DEF Pages, Ids, Texts, AiText

LEMMA DraftValues ==
    /\ \A base, text \in Texts : [base |-> base, text |-> text, busy |-> FALSE, req |-> None]
                                  \in Draft
    /\ \A d \in Draft, text \in Texts : [d EXCEPT !.text = text] \in Draft
    /\ \A d \in Draft, id \in Ids : [d EXCEPT !.busy = TRUE, !.req = id] \in Draft
    /\ \A d \in Draft : [d EXCEPT !.busy = FALSE, !.req = None] \in Draft
    /\ \A d \in Draft : d # None
BY NoDraftAssumption DEF Draft

\* Unlocking leaves the text.
LEMMA UnlockedDraft ==
    ASSUME NEW d \in Draft \cup {None}
    PROVE  /\ Unlocked(d) \in Draft \cup {None} /\ Marked(Unlocked(d))
           /\ Unlocked(d) = None <=> d = None
           /\ d # None => Unlocked(d).text = d.text /\ Unlocked(d).req = None
BY DraftValues DEF Unlocked, Marked, Draft

--------------------------------------------------------------------------------
(* Writing a copy. *)

\* The page that writes, and the one on the screen, have the drafts that are stored.
LEMMA WriteStep ==
    ASSUME Types, CopyCoherent, NEW i \in Pages, NEW r \in Runs,
           NEW draft \in Draft \cup {None}, Marked(draft),
           Update(i, With(i, r, draft)), mounted' = mounted
    PROVE  /\ ref' \in [Pages -> [Runs -> Draft \cup {None}]]
           /\ stored' \in [Runs -> Draft \cup {None}] /\ foreign' \in BOOLEAN
           /\ \A j \in Pages, x \in Runs : Marked(ref'[j][x])
           /\ \A x \in Runs : Marked(stored'[x])
           /\ CopyCoherent'
           /\ \A j \in Pages, x \in Runs : ref'[j][x] \in {ref[j][x], stored'[x]}
           /\ ~foreign' => /\ ~foreign /\ i = mounted
                           /\ stored' = [stored EXCEPT ![r] = draft]
<1> DEFINE copy == With(i, r, draft)
<1>1. /\ ref \in [Pages -> [Runs -> Draft \cup {None}]]
      /\ \A j \in Pages, x \in Runs : Marked(ref[j][x])
      /\ mounted \in Pages \cup {None}
  BY DEF Types, Rest, Copies
<1>2. copy \in [Runs -> Draft \cup {None}] /\ \A x \in Runs : Marked(copy[x])
  BY <1>1 DEF With
<1>3. stored' = copy /\ ref' = [j \in Pages |-> IF j \in {i, mounted} THEN copy ELSE ref[j]]
  BY DEF Update
<1>4. foreign' = (foreign \/ i # mounted)
  BY DEF Update
<1>5. CopyCoherent'
  BY <1>1, <1>3 DEF CopyCoherent
<1>6. ~foreign' => /\ ~foreign /\ i = mounted /\ stored' = [stored EXCEPT ![r] = draft]
  BY <1>3, <1>4, Bounds DEF CopyCoherent, With
<1>7. foreign' \in BOOLEAN
  BY <1>4
<1> HIDE DEF copy
<1>8. /\ ref' \in [Pages -> [Runs -> Draft \cup {None}]]
      /\ \A j \in Pages, x \in Runs : Marked(ref'[j][x]) /\ ref'[j][x] \in {ref[j][x], stored'[x]}
  BY <1>1, <1>2, <1>3
<1> QED
  BY <1>2, <1>3, <1>5, <1>6, <1>7, <1>8

\* What the page on the screen has is what is stored.
LEMMA ScreenStored ==
    ASSUME Types, CopyCoherent, mounted # None, NEW r \in Runs
    PROVE  /\ Mine(r) = stored[r] /\ Mine(r) \in Draft \cup {None} /\ Marked(Mine(r))
           /\ mounted \in Pages
BY DEF Types, Rest, Copies, CopyCoherent, Mine

--------------------------------------------------------------------------------
(* Aborting what a run of the page on the screen waits for. *)

LEMMA AbortTypes ==
    ASSUME Types, NEW i \in Pages, NEW r \in Runs,
           ai' = Abort(i, r), control' = Released(i, r), cancelled' = Given(i, r)
    PROVE  /\ ai' \in [Ids -> AiCall \cup {NoAi, Dead}]
           /\ control' \in [Pages -> [Runs -> Ids \cup {None}]]
           /\ cancelled' \subseteq Ids
BY DEF Abort, Released, Given, Types, Edits

\* The run's request dies with its controller, cancelled with what its draft waits for, or
\* answered.
LEMMA AbortStep ==
    ASSUME Types, CopyCoherent, Clean, mounted # None, NEW r \in Runs, NEW d,
           d # None => d.req = None,
           ai' = Abort(mounted, r), control' = Released(mounted, r),
           \/ cancelled' = Given(mounted, r)
           \/ cancelled' = cancelled /\ control[mounted][r] # None,
           stored' = [stored EXCEPT ![r] = d], UNCHANGED <<mounted, opened>>
    PROVE  /\ Controlled' /\ WaitsOwn' /\ CancelledGone' /\ AiLocks'
           /\ \A id \in Ids : Pending(id)' => Pending(id)
<1> DEFINE x == control[mounted][r]
           w == Waits(ref[mounted][r])
<1>1. /\ mounted \in Pages /\ mounted \in Nat /\ x \in Ids \cup {None}
      /\ ai \in [Ids -> AiCall \cup {NoAi, Dead}]
      /\ control \in [Pages -> [Runs -> Ids \cup {None}]]
      /\ stored \in [Runs -> Draft \cup {None}]
      /\ cancelled \subseteq Ids /\ None \notin Ids
  BY Bounds DEF Types, Rest, Edits, Copies
<1>2. w = IF stored[r] = None THEN None ELSE stored[r].req
  BY DEF CopyCoherent, Waits
<1>3. /\ \A id \in Ids : ai'[id] = IF id = x THEN Dead ELSE ai[id]
      /\ \A id \in Ids : id # x => (Asked(id)' <=> Asked(id))
      /\ x # None => ai'[x].st = "dead"
  BY <1>1 DEF Abort, Asked, Dead, NoAi
<1>4. \A i \in Pages, y \in Runs :
         control'[i][y] = IF i = mounted /\ y = r THEN None ELSE control[i][y]
  BY <1>1 DEF Released
<1>5. \/ cancelled' = cancelled \cup ({x, w} \cap Ids)
      \/ cancelled' = cancelled /\ x # None
  BY DEF Given
<1>6. \A y \in Runs : stored'[y] = IF y = r THEN d ELSE stored[y]
  BY <1>1
<1>7. x # None => /\ ai[x].st = "asked" /\ ai[x].page = mounted /\ ai[x].run = r
  BY <1>1 DEF Clean, Controlled, Asked
<1>8. \A id \in Ids : Asked(id) /\ ai[id].page = mounted /\ ai[id].run = r => id = x
  BY DEF Clean, Controlled
<1>9. w \in Ids => ai[w].st # "unused" /\ (Asked(w) => ai[w].run = r)
  BY <1>1, <1>2 DEF Clean, WaitsOwn, WaitedIn
<1>10. x # None => w = x
  BY <1>1, <1>2, <1>7 DEF Clean, CancelledGone, WaitedIn, AiLocks, Asked
<1> HIDE DEF x, w
<1>11. Controlled'
  <2>1. ASSUME NEW id \in Ids, Asked(id)'
        PROVE  ai'[id].page <= opened' /\ control'[ai'[id].page][ai'[id].run] = id
    <3>1. id # x /\ ai'[id] = ai[id] /\ Asked(id)
      BY <1>1, <1>3, <2>1 DEF Asked
    <3>2. ai[id].page <= opened /\ control[ai[id].page][ai[id].run] = id
      BY <3>1 DEF Clean, Controlled
    <3>3. ai[id].page \in Pages /\ ai[id].run \in Runs
      BY <1>1, <3>1 DEF AiCall, NoAi, Dead, Asked
    <3> QED
      BY <1>4, <1>8, <3>1, <3>2, <3>3
  <2>2. ASSUME NEW i \in Pages, NEW y \in Runs, NEW id \in Ids, control'[i][y] = id
        PROVE  /\ i <= opened' /\ ai'[id].st # "unused"
               /\ Asked(id)' => ai'[id].page = i /\ ai'[id].run = y
               /\ i = mounted' => Asked(id)'
    <3>1. control[i][y] = id /\ ~(i = mounted /\ y = r)
      BY <1>1, <1>4, <2>2
    <3>2. /\ i <= opened /\ ai[id].st # "unused"
          /\ Asked(id) => ai[id].page = i /\ ai[id].run = y
          /\ i = mounted => Asked(id)
      BY <3>1 DEF Clean, Controlled
    <3>3. i = mounted => id # x
      BY <1>1, <1>7, <3>1, <3>2
    <3>4. ai'[id].st # "unused" /\ (Asked(id)' => ai'[id] = ai[id] /\ Asked(id))
      BY <1>1, <1>3, <3>1, <3>2 DEF Asked
    <3> QED
      BY <1>3, <3>1, <3>2, <3>3, <3>4
  <2> QED
    BY <2>1, <2>2 DEF Controlled
<1>12. \A id \in Ids : ai'[id].st = "unused" <=> ai[id].st = "unused"
  BY <1>1, <1>3, <1>7
<1>13. \A id \in Ids : Asked(id)' => Asked(id) /\ id # x /\ ai'[id] = ai[id]
  BY <1>1, <1>3 DEF Asked
<1>14. WaitsOwn'
  BY <1>6, <1>12, <1>13, <1>1 DEF Clean, WaitsOwn, WaitedIn
<1>15. CancelledGone'
  <2>1. w \in Ids /\ Asked(w) /\ ai[w].page = mounted => w = x
    BY <1>8, <1>9
  <2>2. x \in Ids => ai[x].st # "unused"
    BY <1>1, <1>7
  <2>3. ASSUME NEW id \in cancelled', NEW y \in Runs, WaitedIn(id, y)' PROVE FALSE
    <3>1. y # r /\ WaitedIn(id, y)
      BY <1>1, <1>5, <1>6, <2>3, Bounds DEF WaitedIn
    <3>2. id = w
      BY <1>1, <1>5, <1>10, <2>1, <2>3, <3>1 DEF Clean, CancelledGone
    <3>3. WaitedIn(id, r) /\ id \in Ids
      BY <1>1, <1>2, <1>5, <3>2 DEF WaitedIn
    <3> QED
      BY <3>1, <3>3 DEF Clean, WaitsOwn
  <2> QED
    BY <1>1, <1>5, <1>9, <1>12, <1>13, <2>1, <2>2, <2>3 DEF Clean, CancelledGone
<1>16. AiLocks'
  <2> SUFFICES ASSUME NEW id \in Ids, ai'[id].st = "asked", id \notin cancelled'
               PROVE  LET e == stored'[ai'[id].run] IN
                        e # None /\ e.req = id /\ e.text = ai'[id].from
    BY DEF AiLocks
  <2>1. /\ Asked(id) /\ id # x /\ ai'[id] = ai[id] /\ id \notin cancelled /\ id # w
        /\ ai[id].run \in Runs
    BY <1>1, <1>5, <1>13, <1>10 DEF Asked, AiCall, NoAi, Dead
  <2>2. LET e == stored[ai[id].run] IN e # None /\ e.req = id /\ e.text = ai[id].from
    BY <2>1 DEF Clean, AiLocks, Asked
  <2>3. ai[id].run # r
    BY <1>2, <2>1, <2>2
  <2> QED
    BY <1>6, <2>1, <2>2, <2>3
<1>17. ASSUME NEW id \in Ids, Pending(id)' PROVE Pending(id)
  BY <1>1, <1>2, <1>3, <1>5, <1>6, <1>7, <1>17, <1>10 DEF Pending, WaitedIn, Dead, NoAi
<1> QED
  BY <1>11, <1>14, <1>15, <1>16, <1>17

--------------------------------------------------------------------------------
(* Steps. *)

\* Cancelling an edit, or the AI edit it waits for: the text stays or goes.
LEMMA CancelStep ==
    ASSUME DraftsInv, NEW r \in Runs, CancelEdit(r) \/ CancelAi(r)
    PROVE  DraftsInv'
<1>1. PICK d \in {None, Unlocked(Mine(r))} : Update(mounted, With(mounted, r, d))
  BY DEF CancelEdit, CancelAi
<1>2. mounted # None
  BY DEF CancelEdit, CancelAi, Editing, Enabled
<1>3. /\ ai' = Abort(mounted, r) /\ control' = Released(mounted, r)
      /\ cancelled' = Given(mounted, r)
      /\ UNCHANGED <<mounted, opened, slot, saves, doc, edits>>
      /\ asking' \in {FALSE, asking}
  BY DEF CancelEdit, CancelAi
<1>4. Types /\ CopyCoherent /\ Rest /\ mounted \in Pages /\ None \notin Ids
  BY <1>2, Bounds DEF DraftsInv, Types, Rest
<1>5. /\ d \in Draft \cup {None} /\ Marked(d) /\ (d # None => d.req = None)
      /\ d # None => stored[r] # None /\ d.text = stored[r].text
  BY <1>1, <1>2, <1>4, ScreenStored, UnlockedDraft DEF Marked
<1>6. /\ Copies' /\ CopyCoherent'
      /\ \A j \in Pages, x \in Runs : ref'[j][x] \in {ref[j][x], stored'[x]}
  BY <1>1, <1>3, <1>4, <1>5, WriteStep DEF Copies
<1>7. Edits'
  BY <1>3, <1>4, AbortTypes DEF Edits
<1>8. Rest'
  BY <1>3, <1>4 DEF Rest
<1>9. ASSUME ~foreign' PROVE Clean'
  <2>1. ~foreign /\ Clean /\ stored' = [stored EXCEPT ![r] = d]
    BY <1>1, <1>3, <1>4, <1>5, <1>9, WriteStep DEF DraftsInv
  <2>2. /\ Controlled' /\ WaitsOwn' /\ CancelledGone' /\ AiLocks'
        /\ \A id \in Ids : Pending(id)' => Pending(id)
    BY <1>2, <1>3, <1>4, <1>5, <2>1, AbortStep
  <2>3. \A y \in Runs : stored'[y] = IF y = r THEN d ELSE stored[y]
    BY <1>4, <2>1 DEF Types, Copies
  <2>4. Held'
    BY <1>3, <1>4, <1>5, <2>1, <2>3 DEF Clean, Held, Saving, Rest
  <2>5. \A id \in Ids : Unapplied(id) => Unapplied(id)'
    BY <1>3, <1>5, <1>6, <2>3 DEF Unapplied
  <2> QED
    BY <2>1, <2>2, <2>4, <2>5 DEF Clean
<1> QED
  BY <1>6, <1>7, <1>8, <1>9 DEF DraftsInv, Types

\* Leaving, reloading and coming back: nothing is written.
LEMMA NavigateStep ==
    ASSUME DraftsInv, Navigate
    PROVE  DraftsInv'
<1>1. Types /\ Rest /\ Edits /\ Copies /\ CopyCoherent /\ (~foreign => Clean)
  BY DEF DraftsInv, Types
<1>2. CASE Open
  <2>1. /\ opened' = opened + 1 /\ opened' \in Pages /\ opened' \in Nat /\ opened \in Nat
        /\ mounted' = opened' /\ opened' # None
        /\ ref' = [ref EXCEPT ![mounted'] = stored] /\ asking' = FALSE /\ slot' = None
        /\ UNCHANGED <<stored, ai, control, saves, doc, edits, cancelled, foreign>>
    BY <1>1, <1>2, Bounds DEF Open, Rest, Pages
  <2>2. Rest' /\ Edits' /\ CopyCoherent'
    <3>1. Rest'
      <4>1. opened' <= opened'
        BY <2>1
      <4> QED
        BY <1>1, <2>1, <4>1 DEF Rest
    <3>2. Edits'
      BY <1>1, <2>1 DEF Edits
    <3>3. CopyCoherent'
      BY <1>1, <2>1 DEF Copies, CopyCoherent
    <3> QED
      BY <3>1, <3>2, <3>3
  <2>3. Copies'
    BY <1>1, <2>1 DEF Copies
  <2>4. ASSUME Clean PROVE Clean'
    <3>1. Controlled' /\ CancelledGone'
      <4>1. \A i \in Pages : i <= opened => i <= opened' /\ i # mounted'
        BY <2>1, Bounds
      <4>2. \A id \in Ids : Asked(id) => ai[id].page \in Pages
        BY <1>1 DEF Asked, Edits, AiCall, NoAi, Dead
      <4>3. Controlled'
        <5>1. \A id \in Ids : Asked(id)' =>
                 ai'[id].page <= opened' /\ control'[ai'[id].page][ai'[id].run] = id
          BY <2>1, <2>4, <4>1, <4>2 DEF Clean, Controlled, Asked
        <5>2. \A i \in Pages, r \in Runs, id \in Ids : control'[i][r] = id =>
                 /\ i <= opened' /\ i # mounted' /\ ai'[id].st # "unused"
                 /\ Asked(id)' => ai'[id].page = i /\ ai'[id].run = r
          BY <2>1, <2>4, <4>1 DEF Clean, Controlled, Asked
        <5> QED
          BY <5>1, <5>2 DEF Controlled
      <4>4. CancelledGone'
        BY <1>1, <2>1, <2>4, <4>1, <4>2 DEF Clean, Controlled, CancelledGone, WaitedIn, Asked, Edits
      <4> QED
        BY <4>3, <4>4
    <3>2. Held'
      BY <2>1 DEF Held
    <3>3. /\ WaitsOwn' /\ AiLocks'
          /\ \A id \in Ids : Pending(id)' <=> Pending(id)
      BY <2>1, <2>4 DEF Clean, WaitsOwn, WaitedIn, AiLocks, Asked, Pending
    <3>4. \A id \in Ids : Unapplied(id) => Unapplied(id)'
      BY <1>1, <2>1 DEF Unapplied, Copies
    <3> QED
      BY <2>4, <3>1, <3>2, <3>3, <3>4 DEF Clean
  <2> QED
    BY <1>1, <2>1, <2>2, <2>3, <2>4 DEF DraftsInv, Types
<1>3. CASE Leave \/ Reload
  <2>1. /\ mounted' = None
        /\ ai' \in {ai, [id \in Ids |-> IF ai[id] = NoAi THEN NoAi ELSE Dead]}
        /\ saves' \in {saves, [s \in Saves |-> NoSave]}
        /\ UNCHANGED <<stored, ref, opened, control, asking, slot, doc, edits, cancelled, foreign>>
    BY <1>3 DEF Leave, Reload, drafts
  <2>2. \A id \in Ids : /\ ai'[id] = ai[id] \/ ai'[id] = Dead
                        /\ ai'[id].st = "unused" <=> ai[id].st = "unused"
                        /\ ai[id].st = "dead" => ai'[id].st = "dead"
    BY <1>1, <2>1 DEF Edits, AiCall, NoAi, Dead
  <2>3. \A s \in Saves : saves'[s] = saves[s] \/ saves'[s] = NoSave
    BY <1>1, <2>1 DEF Rest
  <2>4. Rest' /\ Edits'
    BY <1>1, <2>1 DEF Rest, Edits
  <2>5. Copies' /\ CopyCoherent'
    BY <1>1, <2>1 DEF Copies, CopyCoherent
  <2>6. ASSUME Clean PROVE Clean'
    <3>1. Controlled' /\ CancelledGone' /\ WaitsOwn' /\ AiLocks' /\ Held'
      <4>1. \A id \in Ids : Asked(id)' => Asked(id) /\ ai'[id] = ai[id] /\ ai[id].page \in Pages
        BY <1>1, <2>2 DEF Asked, Edits, AiCall, NoAi, Dead
      <4>2. Controlled'
        BY <2>1, <2>2, <2>6, <4>1, Bounds DEF Clean, Controlled
      <4>3. CancelledGone'
        BY <1>1, <2>1, <2>2, <2>6, <4>1, Bounds DEF Clean, CancelledGone, WaitedIn, Edits
      <4>4. WaitsOwn'
        BY <2>1, <2>2, <2>6, <4>1 DEF Clean, WaitsOwn, WaitedIn
      <4>5. AiLocks'
        BY <2>1, <2>6, <4>1 DEF Clean, AiLocks, Asked
      <4>6. Held'
        BY <2>1 DEF Held
      <4> QED
        BY <4>2, <4>3, <4>4, <4>5, <4>6
    <3>2. \A id \in Ids : (Pending(id)' => Pending(id)) /\ (Unapplied(id) => Unapplied(id)')
      BY <2>1, <2>2, <2>3 DEF Pending, WaitedIn, Unapplied
    <3> QED
      BY <2>6, <3>1, <3>2 DEF Clean
  <2> QED
    BY <1>1, <2>1, <2>4, <2>5, <2>6 DEF DraftsInv, Types
<1>4. CASE ShowOther
  <2>1. /\ asking' = FALSE
        /\ UNCHANGED <<stored, ref, mounted, opened, ai, control, slot, saves, doc, edits,
                      cancelled, foreign>>
    BY <1>4 DEF ShowOther, drafts
  <2>2. Types' /\ CopyCoherent'
    BY <1>1, <2>1 DEF Types, Rest, Edits, Copies, CopyCoherent
  <2>3. Clean' <=> Clean
    BY <2>1 DEF Clean, Controlled, CancelledGone, WaitsOwn, WaitedIn, AiLocks, Held, Saving, Asked, Pending,
                Unapplied
  <2> QED
    BY <1>1, <2>1, <2>2, <2>3 DEF DraftsInv
<1> QED
  BY <1>2, <1>3, <1>4 DEF Navigate

\* Beginning to edit and typing: no AI edit waits for the draft, and none made its text.
LEMMA EditStep ==
    ASSUME DraftsInv, NEW r \in Runs, BeginEdit(r) \/ Type(r)
    PROVE  DraftsInv'
<1>1. PICK d : /\ Update(mounted, With(mounted, r, d))
               /\ \/ /\ Mine(r) = None /\ edits' = edits
                     /\ d = [base |-> doc[r], text |-> doc[r], busy |-> FALSE, req |-> None]
                  \/ /\ Mine(r) # None /\ ~Mine(r).busy /\ edits' = edits + 1 /\ edits < MaxEdits
                     /\ d = [Mine(r) EXCEPT !.text = edits']
  BY DEF BeginEdit, Type, Editing
<1>2. /\ mounted # None /\ doc[r] # None /\ slot # r
      /\ UNCHANGED <<mounted, opened, ai, control, asking, slot, saves, doc, cancelled>>
  BY DEF BeginEdit, Type, Editing, Enabled
<1>3. Types /\ CopyCoherent /\ Rest /\ Edits /\ Copies
  BY DEF DraftsInv, Types
<1>4. /\ Mine(r) = stored[r] /\ Mine(r) \in Draft \cup {None} /\ Marked(Mine(r))
      /\ mounted \in Pages
  BY <1>2, <1>3, ScreenStored
<1>5. Rest' /\ Edits'
  BY <1>1, <1>2, <1>3, Bounds DEF Rest, Edits
<1>6. /\ d \in Draft /\ d # None /\ ~d.busy /\ d.req = None
      /\ d.text = doc[r] \/ d.text = edits'
  <2>1. doc[r] \in Texts /\ edits' \in Texts
    BY <1>2, <1>3, <1>5, Bounds DEF Rest
  <2>2. CASE d = [base |-> doc[r], text |-> doc[r], busy |-> FALSE, req |-> None]
    BY <2>1, <2>2, DraftValues
  <2>3. CASE Mine(r) # None /\ ~Mine(r).busy /\ d = [Mine(r) EXCEPT !.text = edits']
    <3>1. Mine(r) \in Draft /\ d \in Draft
      BY <1>4, <2>1, <2>3, DraftValues
    <3>2. d.busy = Mine(r).busy /\ d.req = Mine(r).req /\ d.text = edits'
      BY <2>3, <3>1 DEF Draft
    <3> QED
      BY <1>4, <2>3, <3>1, <3>2, DraftValues DEF Marked
  <2> QED
    BY <1>1, <2>2, <2>3
<1>7. /\ Copies' /\ CopyCoherent'
      /\ \A j \in Pages, x \in Runs : ref'[j][x] \in {ref[j][x], stored'[x]}
  BY <1>1, <1>2, <1>3, <1>4, <1>6, WriteStep DEF Copies, Marked
<1>8. ASSUME ~foreign' PROVE Clean'
  <2>1. ~foreign /\ Clean /\ stored' = [stored EXCEPT ![r] = d]
    BY <1>1, <1>2, <1>3, <1>4, <1>6, <1>8, WriteStep DEF DraftsInv, Marked
  <2>2. \A y \in Runs : stored'[y] = IF y = r THEN d ELSE stored[y]
    BY <1>3, <2>1 DEF Copies
  <2>3. stored[r] # None => stored[r].req = None
    BY <1>1, <1>4 DEF Marked
  <2>4. Controlled' /\ CancelledGone'
    BY <1>2, <1>3, <1>6, <2>1, <2>2, Bounds DEF Clean, Controlled, CancelledGone, WaitedIn, Asked,
                                                Edits
  <2>5. WaitsOwn'
    BY <1>2, <1>6, <2>1, <2>2, Bounds DEF Clean, WaitsOwn, WaitedIn, Asked
  <2>6. AiLocks'
    BY <1>2, <1>3, <2>1, <2>2, <2>3, Bounds DEF Clean, AiLocks, Edits, AiCall, NoAi, Dead
  <2>7. Held'
    BY <1>2, <1>3, <2>1, <2>2 DEF Clean, Held, Saving, Rest
  <2>8. \A id \in Ids : (Pending(id)' => Pending(id)) /\ (Pending(id) => Unapplied(id)')
    <3>1. \A id \in Ids : Pending(id)' => Pending(id)
      BY <1>2, <1>6, <2>2, Bounds DEF Pending, WaitedIn
    <3>2. \A id \in Ids : Pending(id) => Unapplied(id) /\ d.text # AiText(id)
      BY <1>2, <1>5, <1>6, <2>1, Bounds DEF Clean, Unapplied, Rest
    <3> QED
      BY <1>2, <1>7, <2>2, <3>1, <3>2 DEF Unapplied
  <2> QED
    BY <2>4, <2>5, <2>6, <2>7, <2>8 DEF Clean
<1> QED
  BY <1>5, <1>7, <1>8, <1>3 DEF DraftsInv, Types

\* Asking for an AI edit: an unlocked draft has no request under way to replace.
LEMMA SubmitAiStep ==
    ASSUME DraftsInv, NEW r \in Runs, NEW id \in Ids, SubmitAi(r, id)
    PROVE  DraftsInv'
<1> DEFINE x == control[mounted][r]
           marked == [Mine(r) EXCEPT !.busy = TRUE, !.req = id]
           d == IF x # None THEN Unlocked(marked) ELSE marked
           call == [st |-> "asked", page |-> mounted, run |-> r, from |-> Mine(r).text]
<1>1. /\ mounted # None /\ slot # r /\ Mine(r) # None /\ ~Mine(r).busy
      /\ ai[id].st = "unused"
      /\ ai' = [Abort(mounted, r) EXCEPT ![id] = call]
      /\ control' = [control EXCEPT ![mounted][r] = id]
      /\ cancelled' = cancelled \cup ({x} \cap Ids)
      /\ asking' = TRUE
      /\ Update(mounted, With(mounted, r, d))
      /\ UNCHANGED <<mounted, opened, slot, saves, doc, edits>>
  BY DEF SubmitAi, Editing, Enabled
<1>2. Types /\ CopyCoherent /\ Rest /\ Edits /\ Copies
  BY DEF DraftsInv, Types
<1>3. /\ Mine(r) = stored[r] /\ Mine(r) \in Draft /\ Marked(Mine(r)) /\ mounted \in Pages
  BY <1>1, <1>2, ScreenStored
<1>4. /\ marked \in Draft /\ marked # None /\ marked.busy /\ marked.req = id
      /\ marked.text = Mine(r).text
  <2>1. marked \in Draft /\ marked # None
    BY <1>3, DraftValues
  <2> QED
    BY <1>3, <2>1 DEF Draft
<1>5. /\ d \in Draft \cup {None} /\ Marked(d) /\ (x = None => d = marked)
  BY <1>4, UnlockedDraft, Bounds DEF Marked
<1>6. call \in AiCall /\ call.st = "asked" /\ call.page = mounted /\ call.run = r
      /\ call.from = Mine(r).text
  BY <1>3 DEF AiCall, Draft
<1> HIDE DEF x, marked, d, call
<1>7. /\ Copies' /\ CopyCoherent'
      /\ \A j \in Pages, y \in Runs : ref'[j][y] \in {ref[j][y], stored'[y]}
  BY <1>1, <1>2, <1>3, <1>5, WriteStep DEF Copies
<1>8. Rest'
  BY <1>1, <1>2 DEF Rest
<1>9. Edits'
  BY <1>1, <1>2, <1>3, <1>6 DEF Edits, Abort
<1>10. ASSUME ~foreign' PROVE Clean'
  <2>1. ~foreign /\ Clean /\ stored' = [stored EXCEPT ![r] = d]
    BY <1>1, <1>2, <1>3, <1>5, <1>10, WriteStep DEF DraftsInv
  <2>2. stored[r] # None /\ stored[r].req = None
    BY <1>1, <1>3 DEF Marked
  <2>3. x = None
    BY <1>2, <1>3, <2>1, <2>2, Bounds DEF x, Edits, Clean, Controlled, CancelledGone, WaitedIn, AiLocks,
                                         Asked
  <2>4. /\ \A other \in Ids : ai'[other] = IF other = id THEN call ELSE ai[other]
        /\ \A y \in Runs : stored'[y] = IF y = r THEN marked ELSE stored[y]
        /\ \A i \in Pages, y \in Runs :
              control'[i][y] = IF i = mounted /\ y = r THEN id ELSE control[i][y]
        /\ cancelled' = cancelled
    BY <1>1, <1>2, <1>3, <1>5, <2>1, <2>3, Bounds DEF Abort, Edits, Copies, x
  <2>5. Controlled'
    <3>1. mounted <= opened
      BY <1>1, <1>2 DEF Rest
    <3>2. \A other \in Ids : Asked(other)' =>
             ai'[other].page <= opened' /\ control'[ai'[other].page][ai'[other].run] = other
      <4> SUFFICES ASSUME NEW other \in Ids, Asked(other)'
                   PROVE  /\ ai'[other].page <= opened'
                          /\ control'[ai'[other].page][ai'[other].run] = other
        OBVIOUS
      <4>1. CASE other = id
        BY <1>1, <1>3, <1>6, <2>4, <3>1, <4>1
      <4>2. CASE other # id
        <5>1. /\ ai'[other] = ai[other] /\ Asked(other)
              /\ ai[other].page \in Pages /\ ai[other].run \in Runs
          BY <1>2, <2>4, <4>2 DEF Asked, Edits, AiCall, NoAi, Dead
        <5>2. ai[other].page <= opened /\ control[ai[other].page][ai[other].run] = other
          BY <2>1, <5>1 DEF Clean, Controlled
        <5>3. ~(ai[other].page = mounted /\ ai[other].run = r)
          BY <2>3, <5>2, Bounds DEF x
        <5> QED
          BY <1>1, <2>4, <5>1, <5>2, <5>3
      <4> QED
        BY <4>1, <4>2
    <3>3. \A i \in Pages, y \in Runs, other \in Ids : control'[i][y] = other =>
             /\ i <= opened' /\ ai'[other].st # "unused"
             /\ Asked(other)' => ai'[other].page = i /\ ai'[other].run = y
             /\ i = mounted' => Asked(other)'
      <4> SUFFICES ASSUME NEW i \in Pages, NEW y \in Runs, NEW other \in Ids,
                          control'[i][y] = other
                   PROVE  /\ i <= opened' /\ ai'[other].st # "unused"
                          /\ Asked(other)' => ai'[other].page = i /\ ai'[other].run = y
                          /\ i = mounted' => Asked(other)'
        OBVIOUS
      <4>1. CASE i = mounted /\ y = r
        <5>1. other = id
          BY <2>4, <4>1
        <5>2. ai'[other] = call
          BY <2>4, <5>1
        <5> QED
          BY <1>1, <1>6, <3>1, <4>1, <5>2 DEF Asked
      <4>2. CASE ~(i = mounted /\ y = r)
        <5>1. control[i][y] = other
          BY <2>4, <4>2
        <5>2. other # id /\ ai'[other] = ai[other]
          BY <1>1, <2>1, <2>4, <5>1 DEF Clean, Controlled
        <5> QED
          BY <1>1, <2>1, <5>1, <5>2 DEF Clean, Controlled, Asked
      <4> QED
        BY <4>1, <4>2
    <3> QED
      BY <3>2, <3>3 DEF Controlled
  <2>6. WaitsOwn'
    BY <1>1, <1>4, <1>6, <2>1, <2>4 DEF Clean, WaitsOwn, WaitedIn, Asked
  <2>7. CancelledGone'
    BY <1>1, <1>2, <1>4, <2>1, <2>4 DEF Clean, CancelledGone, WaitedIn, Asked, Edits
  <2>8. AiLocks'
    BY <1>2, <1>3, <1>4, <1>6, <2>1, <2>2, <2>4, Bounds DEF Clean, AiLocks, Edits, AiCall, NoAi, Dead
  <2>9. Held'
    BY <1>1, <1>2, <2>1, <2>4 DEF Clean, Held, Saving, Rest
  <2>10. \A other \in Ids : (Pending(other)' => Pending(other)) /\ (Unapplied(other) => Unapplied(other)')
    <3>1. \A other \in Ids : Pending(other)' => Pending(other)
      BY <1>1, <1>4, <2>4 DEF Pending, WaitedIn
    <3>2. \A other \in Ids : Unapplied(other) => Unapplied(other)'
      BY <1>1, <1>3, <1>4, <1>7, <2>2, <2>4 DEF Unapplied
    <3> QED
      BY <3>1, <3>2
  <2> QED
    BY <2>1, <2>5, <2>6, <2>7, <2>8, <2>9, <2>10 DEF Clean
<1> QED
  BY <1>7, <1>8, <1>9, <1>10 DEF DraftsInv, Types

\* An AI edit is answered, or fails.
LEMMA SettleStep ==
    ASSUME DraftsInv, NEW id \in Ids, AnswerAi(id) \/ FailAi(id)
    PROVE  DraftsInv'
<1> DEFINE i == ai[id].page
           r == ai[id].run
           new == [base |-> Base(i, r), text |-> AiText(id), busy |-> FALSE, req |-> None]
<1>1. /\ Asked(id) /\ ai' = [ai EXCEPT ![id] = Dead]
      /\ control' = IF control[i][r] = id THEN Released(i, r) ELSE control
      /\ asking' = (asking /\ i # mounted)
      /\ UNCHANGED <<mounted, opened, slot, saves, doc, edits, cancelled>>
  BY DEF AnswerAi, FailAi, Settle, Asked
<1>2. \/ Wanted(id) /\ Update(i, With(i, r, new))
      \/ ~Wanted(id) /\ Keep
      \/ Update(i, With(i, r, Unlocked(ref[i][r])))
  BY DEF AnswerAi, FailAi
<1>3. Types /\ CopyCoherent /\ Rest /\ Edits /\ Copies
  BY DEF DraftsInv, Types
<1>4. i \in Pages /\ r \in Runs /\ i # None
  BY <1>1, <1>3, Bounds DEF Asked, Edits, AiCall, NoAi, Dead
<1>5. Edits'
  BY <1>1, <1>3, <1>4 DEF Edits, Released
<1>6. Rest'
  BY <1>1, <1>3 DEF Rest
<1>7. new \in Draft /\ Marked(new) /\ new.req = None /\ new.text = AiText(id)
  <2>1. Base(i, r) \in Texts /\ AiText(id) \in Texts
    BY <1>3, <1>4, Bounds DEF Base, Copies, Draft
  <2> QED
    BY <2>1, DraftValues DEF Marked
<1>8. ref[i][r] \in Draft \cup {None}
  BY <1>3, <1>4 DEF Copies
<1> HIDE DEF i, r, new
<1>9. CASE Keep
  <2>1. Copies' /\ CopyCoherent'
    BY <1>1, <1>3, <1>9 DEF Keep, Copies, CopyCoherent
  <2>2. ASSUME Clean PROVE Clean'
    <3>1. /\ \A other \in Ids : ai'[other] = IF other = id THEN Dead ELSE ai[other]
          /\ UNCHANGED <<stored, ref, mounted, opened, slot, saves, doc, cancelled>>
      BY <1>1, <1>3, <1>9 DEF Keep, Edits
    <3>2. /\ control[i][r] = id
          /\ \A j \in Pages, y \in Runs :
                control'[j][y] = IF j = i /\ y = r THEN None ELSE control[j][y]
      BY <1>1, <1>3, <1>4, <2>2 DEF Clean, Controlled, Released, Edits, i, r
    <3>3. \A other \in Ids : /\ Asked(other)' => other # id /\ Asked(other) /\ ai'[other] = ai[other]
                             /\ ai'[other].st = "unused" <=> ai[other].st = "unused"
      BY <1>1, <3>1 DEF Asked, Dead, NoAi
    <3>4. Controlled'
      <4>1. \A other \in Ids : Asked(other)' =>
               ai'[other].page <= opened' /\ control'[ai'[other].page][ai'[other].run] = other
        <5> SUFFICES ASSUME NEW other \in Ids, Asked(other)'
                     PROVE  /\ ai'[other].page <= opened'
                            /\ control'[ai'[other].page][ai'[other].run] = other
          OBVIOUS
        <5>1. /\ ai'[other] = ai[other] /\ Asked(other) /\ other # id
              /\ ai[other].page \in Pages /\ ai[other].run \in Runs
          BY <1>3, <3>3 DEF Asked, Edits, AiCall, NoAi, Dead
        <5> QED
          BY <2>2, <3>1, <3>2, <5>1 DEF Clean, Controlled
      <4>2. \A j \in Pages, y \in Runs, other \in Ids : control'[j][y] = other =>
               /\ j <= opened' /\ ai'[other].st # "unused"
               /\ Asked(other)' => ai'[other].page = j /\ ai'[other].run = y
               /\ j = mounted' => Asked(other)'
        <5> SUFFICES ASSUME NEW j \in Pages, NEW y \in Runs, NEW other \in Ids,
                            control'[j][y] = other
                     PROVE  /\ j <= opened' /\ ai'[other].st # "unused"
                            /\ Asked(other)' => ai'[other].page = j /\ ai'[other].run = y
                            /\ j = mounted' => Asked(other)'
          OBVIOUS
        <5>1. control[j][y] = other /\ ~(j = i /\ y = r)
          BY <3>2, Bounds
        <5>2. other # id
          BY <1>1, <2>2, <5>1 DEF Clean, Controlled, i, r
        <5> QED
          BY <2>2, <3>1, <3>3, <5>1, <5>2 DEF Clean, Controlled, Asked
      <4> QED
        BY <4>1, <4>2 DEF Controlled
    <3>5. WaitsOwn' /\ CancelledGone' /\ AiLocks' /\ Held'
      BY <1>3, <2>2, <3>1, <3>3 DEF Clean, WaitsOwn, WaitedIn, CancelledGone, AiLocks, Held, Saving, Asked, Edits
    <3>6. \A other \in Ids : (Pending(other)' => Pending(other)) /\ (Unapplied(other) => Unapplied(other)')
      BY <3>1 DEF Pending, WaitedIn, Unapplied, Dead, NoAi
    <3> QED
      BY <2>2, <3>4, <3>5, <3>6 DEF Clean
  <2> QED
    BY <1>5, <1>6, <1>9, <2>1, <2>2 DEF DraftsInv, Types, Keep
<1>10. CASE \E d : /\ Update(i, With(i, r, d))
                   /\ (d = new /\ Wanted(id)) \/ d = Unlocked(ref[i][r])
  <2>1. PICK d : /\ Update(i, With(i, r, d))
                 /\ (d = new /\ Wanted(id)) \/ d = Unlocked(ref[i][r])
    BY <1>10
  <2>2. /\ d \in Draft \cup {None} /\ Marked(d) /\ (d # None => d.req = None)
    BY <1>7, <1>8, <2>1, UnlockedDraft
  <2>3. /\ Copies' /\ CopyCoherent'
        /\ \A j \in Pages, x \in Runs : ref'[j][x] \in {ref[j][x], stored'[x]}
    BY <1>1, <1>3, <1>4, <2>1, <2>2, WriteStep DEF Copies
  <2>4. ASSUME ~foreign' PROVE Clean'
    <3>1. ~foreign /\ Clean /\ i = mounted /\ stored' = [stored EXCEPT ![r] = d]
      BY <1>1, <1>3, <1>4, <2>1, <2>2, <2>4, WriteStep DEF DraftsInv
    <3>2. control[mounted][r] = id /\ id \notin cancelled
      BY <1>1, <3>1 DEF Clean, Controlled, CancelledGone, WaitedIn, i, r
    <3>3. stored[r] # None /\ stored[r].req = id
      BY <1>1, <3>1, <3>2 DEF Clean, AiLocks, Asked, r
    <3>4. /\ ai' = Abort(mounted, r) /\ control' = Released(mounted, r)
          /\ cancelled' = cancelled /\ control[mounted][r] # None
      BY <1>1, <1>3, <3>1, <3>2, Bounds DEF Abort, Edits
    <3>5. /\ Controlled' /\ WaitsOwn' /\ CancelledGone' /\ AiLocks'
          /\ \A other \in Ids : Pending(other)' => Pending(other)
      BY <1>1, <1>3, <1>4, <2>2, <3>1, <3>4, AbortStep
    <3>6. \A y \in Runs : stored'[y] = IF y = r THEN d ELSE stored[y]
      BY <1>3, <3>1 DEF Copies
    <3>7. Held'
      BY <1>1, <1>3, <3>1, <3>3, <3>6, Bounds DEF Clean, Held, Saving, Rest
    <3>8. ~Pending(id)'
      <4>1. \A y \in Runs : stored[y] # None /\ stored[y].req = id => y = r
        BY <1>1, <3>1 DEF Clean, WaitsOwn, WaitedIn, r
      <4>2. ai'[id].st = "dead"
        BY <1>1, <1>3 DEF Edits, Dead
      <4> QED
        BY <1>1, <2>2, <3>2, <3>6, <4>1, <4>2, Bounds DEF Pending, WaitedIn
    <3>9. d # None => d.text = AiText(id) \/ (stored[r] # None /\ d.text = stored[r].text)
      BY <1>3, <1>4, <1>7, <1>8, <2>1, <3>1, UnlockedDraft DEF CopyCoherent
    <3>10. \A other \in Ids : other # id => AiText(other) # AiText(id)
      BY Bounds DEF AiText, Ids
    <3>11. \A other \in Ids : other # id /\ Unapplied(other) => Unapplied(other)'
      <4>1. \A y \in Runs, other \in Ids : other # id /\ Unapplied(other) /\ stored'[y] # None =>
               stored'[y].text # AiText(other)
        BY <1>4, <3>6, <3>9, <3>10 DEF Unapplied
      <4> QED
        BY <1>1, <2>3, <4>1 DEF Unapplied
    <3> QED
      BY <3>1, <3>5, <3>7, <3>8, <3>11 DEF Clean
  <2> QED
    BY <1>5, <1>6, <2>3, <2>4 DEF DraftsInv, Types
<1> QED
  BY <1>2, <1>9, <1>10

\* What a step that only sends or settles a request leaves as it was.
LEMMA SameDrafts ==
    ASSUME DraftsInv, Rest',
           UNCHANGED <<stored, ref, foreign, mounted, opened, ai, control, cancelled>>,
           ~foreign /\ Clean => Held' /\ \A id \in Ids : Pending(id) => Unapplied(id)'
    PROVE  DraftsInv'
<1>1. Types'
  BY DEF DraftsInv, Types, Edits, Copies
<1>2. CopyCoherent'
  BY DEF DraftsInv, CopyCoherent
<1>3. ASSUME ~foreign PROVE Clean'
  BY <1>3 DEF DraftsInv, Clean, Controlled, WaitsOwn, WaitedIn, CancelledGone, AiLocks, Asked,
                Pending
<1> QED
  BY <1>1, <1>2, <1>3 DEF DraftsInv

\* A save or delete is sent: it carries a text that is saved or stored, and a save locks it.
LEMMA SendStep ==
    ASSUME DraftsInv, NEW r \in Runs, NEW s \in Saves,
           Save(s, r) \/ SaveArtifact(s, r) \/ DeleteRun(s, r)
    PROVE  DraftsInv'
<1> DEFINE call == saves'[s]
<1>1. /\ saves[s] = NoSave /\ saves' = [saves EXCEPT ![s] = call]
      /\ call = [st |-> "asked", kind |-> call.kind, page |-> mounted, run |-> r,
                 text |-> call.text]
      /\ \/ /\ call.kind = "save" /\ slot' = r /\ call.text = Mine(r).text
            /\ Mine(r) # None /\ ~Mine(r).busy
         \/ call.kind = "artifact" /\ slot' = r /\ call.text = doc[r] /\ Mine(r) = None
         \/ call.kind = "delete" /\ slot' = slot /\ call.text = 0
      /\ mounted # None /\ doc[r] # None
      /\ UNCHANGED <<stored, ref, foreign, mounted, opened, ai, control, asking, doc, edits,
                     cancelled>>
  <2>1. saves \in [Saves -> SaveCall \cup {NoSave}]
    BY DEF DraftsInv, Types, Rest
  <2>2. CASE Save(s, r)
    BY <2>1, <2>2 DEF Save, Send, Keep, Editing, Enabled
  <2>3. CASE SaveArtifact(s, r)
    BY <2>1, <2>3 DEF SaveArtifact, Send, Keep, Enabled
  <2>4. CASE DeleteRun(s, r)
    BY <2>1, <2>4 DEF DeleteRun, Send, Keep
  <2> QED
    BY <2>2, <2>3, <2>4
<1> HIDE DEF call
<1>2. Types /\ CopyCoherent /\ Rest /\ Edits /\ Copies
  BY DEF DraftsInv, Types
<1>3. /\ Mine(r) = stored[r] /\ Mine(r) \in Draft \cup {None} /\ Marked(Mine(r))
      /\ mounted \in Pages
  BY <1>1, <1>2, ScreenStored
<1>4. call \in SaveCall
  <2>1. call.text \in Texts
    BY <1>1, <1>2, <1>3, Bounds DEF Draft, Rest
  <2> QED
    BY <1>1, <1>3, <2>1 DEF SaveCall
<1>5. Rest'
  BY <1>1, <1>2, <1>4 DEF Rest
<1>6. \A t \in Saves : saves'[t] = IF t = s THEN call ELSE saves[t]
  BY <1>1, <1>2 DEF Rest
<1>7. call # NoSave
  BY <1>1 DEF NoSave
<1>8. ASSUME Clean PROVE Held'
  <2>1. CASE call.kind = "delete"
    BY <1>1, <1>6, <1>8, <2>1 DEF Clean, Held, Saving
  <2>2. CASE call.kind # "delete"
    <3>1. Saving(s, {"save", "artifact"})' /\ saves'[s].page = mounted' /\ saves'[s].run = slot'
      BY <1>1, <1>6, <1>7, <2>2 DEF Saving
    <3>2. stored'[slot'] # None =>
            saves'[s].kind = "save" /\ stored'[slot'].text = saves'[s].text /\ stored'[slot'].req = None
      BY <1>1, <1>3, <1>6, <2>2 DEF Marked
    <3> QED
      BY <3>1, <3>2 DEF Held
  <2> QED
    BY <2>1, <2>2
<1>9. ASSUME NEW id \in Ids, Unapplied(id) PROVE Unapplied(id)'
  <2>1. call.text # AiText(id)
    BY <1>1, <1>3, <1>9, Bounds DEF Unapplied
  <2> QED
    BY <1>1, <1>6, <1>9, <2>1 DEF Unapplied
<1> QED
  BY <1>1, <1>5, <1>8, <1>9, SameDrafts DEF Clean

\* A request fails, or an artifact is saved: the holder of the slot is still under way.
LEMMA FailStep ==
    ASSUME DraftsInv, NEW s \in Saves, ArtifactSaved(s) \/ SaveFails(s) \/ DeleteFails(s)
    PROVE  DraftsInv'
<1>1. /\ saves' = [saves EXCEPT ![s] = NoSave]
      /\ \/ slot' = IF saves[s].page = mounted /\ slot = saves[s].run THEN None ELSE slot
         \/ slot' = slot /\ saves[s].kind = "delete"
      /\ UNCHANGED <<stored, ref, foreign, mounted, opened, ai, control, asking, doc, edits,
                     cancelled>>
  BY DEF ArtifactSaved, SaveFails, DeleteFails, Free, Keep, Saving
<1>2. Rest
  BY DEF DraftsInv, Types
<1>3. Rest'
  BY <1>1, <1>2 DEF Rest
<1>4. \A t \in Saves : saves'[t] = IF t = s THEN NoSave ELSE saves[t]
  BY <1>1, <1>2 DEF Rest
<1>5. Held => Held'
  BY <1>1, <1>4 DEF Held, Saving
<1>6. \A id \in Ids : Unapplied(id) => Unapplied(id)'
  BY <1>1, <1>4 DEF Unapplied
<1> QED
  BY <1>1, <1>3, <1>5, <1>6, SameDrafts DEF Clean

\* The edited output is saved, or the run deleted: its draft goes with what it waits for.
LEMMA ForgetStep ==
    ASSUME DraftsInv, NEW s \in Saves, Saved(s) \/ RunDeleted(s)
    PROVE  DraftsInv'
<1> DEFINE i == saves[s].page
           r == saves[s].run
<1>1. /\ saves[s] # NoSave
      /\ Forget(i, r)
      /\ saves' = [saves EXCEPT ![s] = NoSave]
      /\ \/ /\ slot' = IF i = mounted /\ slot = r THEN None ELSE slot
            /\ doc' = [doc EXCEPT ![r] = saves[s].text]
         \/ slot' = slot /\ saves[s].kind = "delete" /\ doc' = [doc EXCEPT ![r] = None]
      /\ UNCHANGED <<mounted, opened, edits>>
  BY DEF Saved, RunDeleted, Free, Saving
<1>2. Types /\ CopyCoherent /\ Rest /\ Edits /\ Copies
  BY DEF DraftsInv, Types
<1>3. i \in Pages /\ r \in Runs /\ i # None /\ saves[s].text \in Texts
  BY <1>1, <1>2, Bounds DEF Rest, SaveCall
<1> HIDE DEF i, r
<1>4. /\ ai' = Abort(i, r) /\ control' = Released(i, r) /\ cancelled' = Given(i, r)
      /\ asking' = IF control[i][r] # None /\ i = mounted THEN FALSE ELSE asking
      /\ Update(i, With(i, r, None))
  BY <1>1 DEF Forget
<1>5. Edits'
  BY <1>2, <1>3, <1>4, AbortTypes DEF Edits
<1>6. Rest'
  BY <1>1, <1>2, <1>3, <1>4 DEF Rest
<1>7. /\ Copies' /\ CopyCoherent'
      /\ \A j \in Pages, x \in Runs : ref'[j][x] \in {ref[j][x], stored'[x]}
  BY <1>1, <1>2, <1>3, <1>4, WriteStep DEF Copies, Marked
<1>8. ASSUME ~foreign' PROVE Clean'
  <2>1. ~foreign /\ Clean /\ i = mounted /\ stored' = [stored EXCEPT ![r] = None]
    BY <1>1, <1>2, <1>3, <1>4, <1>8, WriteStep DEF DraftsInv, Marked
  <2>2. /\ Controlled' /\ WaitsOwn' /\ CancelledGone' /\ AiLocks'
        /\ \A id \in Ids : Pending(id)' => Pending(id)
    <3>1. /\ mounted # None /\ ai' = Abort(mounted, r) /\ control' = Released(mounted, r)
          /\ cancelled' = Given(mounted, r)
      BY <1>3, <1>4, <2>1
    <3> QED
      BY <1>1, <1>2, <1>3, <2>1, <3>1, AbortStep
  <2>3. /\ \A y \in Runs : stored'[y] = IF y = r THEN None ELSE stored[y]
        /\ \A t \in Saves : saves'[t] = IF t = s THEN NoSave ELSE saves[t]
        /\ \A y \in Runs : doc'[y] = IF y = r THEN doc'[r] ELSE doc[y]
        /\ doc'[r] \in {None, saves[s].text}
    BY <1>1, <1>2, <1>3, <2>1 DEF Copies, Rest
  <2>4. Held'
    <3> SUFFICES ASSUME mounted' # None, slot' # None
                 PROVE  \E t \in Saves :
                          /\ Saving(t, {"save", "artifact"})' /\ saves'[t].page = mounted'
                          /\ saves'[t].run = slot'
                          /\ stored'[slot'] # None =>
                               /\ saves'[t].kind = "save" /\ stored'[slot'].text = saves'[t].text
                               /\ stored'[slot'].req = None
      BY DEF Held
    <3>1. slot' = slot /\ slot \in Runs /\ (slot # r \/ saves[s].kind = "delete")
      BY <1>1, <1>2, <2>1 DEF Rest
    <3>2. PICK t \in Saves :
             /\ Saving(t, {"save", "artifact"}) /\ saves[t].page = mounted /\ saves[t].run = slot
             /\ stored[slot] # None =>
                   /\ saves[t].kind = "save" /\ stored[slot].text = saves[t].text
                   /\ stored[slot].req = None
      BY <1>1, <2>1, <3>1 DEF Clean, Held
    <3>3. t # s
      BY <3>1, <3>2 DEF Saving, r
    <3>4. saves'[t] = saves[t] /\ (stored'[slot] # None => stored'[slot] = stored[slot])
      BY <2>3, <3>1, <3>3
    <3> QED
      BY <1>1, <3>1, <3>2, <3>4 DEF Saving
  <2>5. \A id \in Ids : Unapplied(id) => Unapplied(id)'
    BY <1>1, <1>7, <2>3, Bounds DEF Unapplied
  <2> QED
    BY <2>1, <2>2, <2>4, <2>5 DEF Clean
<1> QED
  BY <1>5, <1>6, <1>7, <1>8 DEF DraftsInv, Types

--------------------------------------------------------------------------------
(* The properties. *)

THEOREM DraftsInductive == DraftsSpec => []DraftsInv
<1>1. DraftsInit => DraftsInv
  <2> SUFFICES ASSUME DraftsInit PROVE DraftsInv
    OBVIOUS
  <2>1. Rest
    <3>1. mounted = 1 /\ opened = 1 /\ mounted <= opened /\ 0 \in 0..MaxEdits
      BY Bounds DEF DraftsInit
    <3> QED
      BY <3>1, Bounds DEF DraftsInit, Rest
  <2>2. Edits
    BY Bounds DEF DraftsInit, Edits, NoDrafts
  <2>3. Copies /\ CopyCoherent
    BY Bounds DEF DraftsInit, Copies, NoDrafts, Marked, CopyCoherent
  <2>4. Clean
    <3>1. \A id \in Ids : ai[id].st = "unused"
      BY DEF DraftsInit, NoAi
    <3>2. Controlled /\ WaitsOwn /\ CancelledGone /\ AiLocks /\ Held
      BY <3>1, Bounds DEF DraftsInit, NoDrafts, Controlled, WaitsOwn, WaitedIn, CancelledGone, AiLocks, Held, Asked
    <3>3. \A id \in Ids : Unapplied(id)
      BY Bounds DEF DraftsInit, NoDrafts, Unapplied
    <3> QED
      BY <3>2, <3>3 DEF Clean
  <2> QED
    BY <2>1, <2>2, <2>3, <2>4 DEF DraftsInv, Types
<1>2. DraftsInv /\ [DraftsNext]_draftsVars => DraftsInv'
  <2> SUFFICES ASSUME DraftsInv, [DraftsNext]_draftsVars PROVE DraftsInv'
    OBVIOUS
  <2>1. CASE Navigate
    BY <2>1, NavigateStep
  <2>2. ASSUME NEW r \in Runs, Edit(r) PROVE DraftsInv'
    BY <2>2, EditStep, CancelStep, SubmitAiStep, SendStep DEF Edit
  <2>3. ASSUME NEW id \in Ids, AnswerAi(id) \/ FailAi(id) PROVE DraftsInv'
    BY <2>3, SettleStep
  <2>4. ASSUME NEW s \in Saves, Settled(s) PROVE DraftsInv'
    BY <2>4, FailStep, ForgetStep DEF Settled
  <2>5. CASE UNCHANGED draftsVars
    BY <2>5 DEF draftsVars, drafts, DraftsInv, Types, Rest, Edits, Copies, CopyCoherent, Clean,
       Controlled, WaitsOwn, WaitedIn, CancelledGone, AiLocks, Held, Saving, Asked, Pending, Unapplied
  <2> QED
    BY <2>1, <2>2, <2>3, <2>4, <2>5 DEF DraftsNext
<1> QED
  BY <1>1, <1>2, PTL DEF DraftsSpec

\* The page on the screen has the drafts that are stored; and until a page that was left
\* writes its copy, no answer overwrites a text typed after asking and no save drops one
\* (outputEditDraftsRef and sessionStorage of WorkflowsPage.tsx).
THEOREM DraftsKept == DraftsSpec => []DraftsSafe
<1>1. DraftsInv => DraftsSafe
  <2> SUFFICES ASSUME DraftsInv PROVE DraftsSafe
    OBVIOUS
  <2>1. Rest /\ Edits /\ Copies /\ CopyCoherent
    BY DEF DraftsInv, Types
  <2>2. DraftsTypeOK
    <3>1. \A i \in Pages : ref[i] \in [Runs -> Draft \cup {None}]
      BY <2>1 DEF Copies
    <3>2. \A id \in Ids : ai[id].st \in {"unused", "asked", "dead"}
      BY <2>1 DEF Edits, AiCall, NoAi, Dead
    <3> QED
      BY <2>1, <3>1, <3>2 DEF DraftsTypeOK, Rest, Copies, Marked
  <2>3. LocksHold
    <3> SUFFICES ASSUME ~foreign PROVE AiLocks /\ SaveLocks
      BY DEF LocksHold
    <3>1. Clean
      BY DEF DraftsInv
    <3>2. ASSUME NEW s \in Saves, Saving(s, {"save"}), saves[s].page = mounted,
                 slot = saves[s].run, Alone(s), stored[slot] # None
          PROVE  stored[slot].text = saves[s].text
      <4>1. mounted # None /\ slot # None
        BY <2>1, <3>2, Bounds DEF Rest, SaveCall, Saving
      <4>2. PICK t \in Saves :
               /\ Saving(t, {"save", "artifact"}) /\ saves[t].page = mounted /\ saves[t].run = slot
               /\ stored[slot].text = saves[t].text
        BY <3>1, <3>2, <4>1 DEF Clean, Held
      <4>3. t = s
        BY <3>2, <4>2 DEF Alone
      <4> QED
        BY <4>2, <4>3
    <3> QED
      BY <3>1, <3>2 DEF Clean, SaveLocks
  <2> QED
    BY <2>1, <2>2, <2>3 DEF DraftsSafe
<1> QED
  BY <1>1, DraftsInductive, PTL

\* An AI edit that was cancelled, replaced or given up with its run is never applied, on this
\* page or after coming back to it (applyOutputEditTurn, WorkflowsPage.tsx).
THEOREM NeverApplied == DraftsSpec => CancelledNeverApplied
<1> DEFINE Step == ~foreign => \A r \in Runs, id \in cancelled :
                     stored'[r] # None /\ stored'[r].text = AiText(id) =>
                       stored[r] # None /\ stored[r].text = AiText(id)
<1>1. DraftsInv /\ [DraftsNext]_draftsVars => [Step]_draftsVars
  <2> SUFFICES ASSUME DraftsInv, DraftsNext, ~foreign, NEW r \in Runs, NEW id \in cancelled,
                      stored'[r] # None
               PROVE  stored'[r].text # AiText(id)
    BY DEF draftsVars, drafts
  <2>1. Clean /\ Rest /\ Copies /\ id \in Ids
    BY DEF DraftsInv, Types, Edits
  <2>2. Unapplied(id)
    BY <2>1 DEF Clean, Pending
  <2>3. CASE stored' = stored
    BY <2>2, <2>3 DEF Unapplied
  <2>4. ASSUME NEW i \in Pages, NEW y \in Runs, NEW d, Update(i, With(i, y, d)),
               d # None => d.text # AiText(id)
        PROVE  stored'[r].text # AiText(id)
    BY <2>1, <2>2, <2>4 DEF Unapplied, Update, With, Copies
  <2> DEFINE Other == stored'[r].text # AiText(id)
  <2>5. \A i \in Pages, y \in Runs : /\ ref[i][y] \in Draft \cup {None}
                                     /\ ref[i][y] # None => ref[i][y].text # AiText(id)
    BY <2>1, <2>2 DEF Copies, Unapplied
  <2>6. CASE Navigate
    BY <2>3, <2>6 DEF Navigate, Open, Leave, Reload, ShowOther, drafts
  <2>7. ASSUME NEW y \in Runs, Edit(y) PROVE Other
    <3>1. CASE BeginEdit(y)
      <4> DEFINE d == [base |-> doc[y], text |-> doc[y], busy |-> FALSE, req |-> None]
      <4>1. Update(mounted, With(mounted, y, d)) /\ mounted \in Pages
        BY <2>1, <3>1 DEF BeginEdit, Enabled, Rest
      <4>2. d.text # AiText(id)
        BY <2>2 DEF Unapplied
      <4> QED
        BY <2>4, <4>1, <4>2
    <3>2. CASE Type(y)
      <4> DEFINE d == [Mine(y) EXCEPT !.text = edits']
      <4>1. Update(mounted, With(mounted, y, d)) /\ mounted \in Pages /\ Mine(y) # None
        BY <2>1, <3>2 DEF Type, Editing, Enabled, Rest
      <4>2. Mine(y) \in Draft
        BY <2>5, <4>1 DEF Mine
      <4>3. d.text = edits' /\ edits' \in 0..MaxEdits
        BY <2>1, <3>2, <4>2, Bounds DEF Type, Draft, Rest
      <4> QED
        BY <2>1, <2>4, <4>1, <4>3, Bounds
    <3>3. CASE CancelEdit(y) \/ CancelAi(y)
      <4>1. PICK d \in {None, Unlocked(Mine(y))} : Update(mounted, With(mounted, y, d))
        BY <3>3 DEF CancelEdit, CancelAi
      <4>2. mounted \in Pages
        BY <2>1, <3>3 DEF CancelEdit, CancelAi, Editing, Enabled, Rest
      <4> QED
        BY <2>4, <2>5, <4>1, <4>2, UnlockedDraft DEF Mine
    <3>4. ASSUME NEW other \in Ids, SubmitAi(y, other) PROVE Other
      <4> DEFINE marked == [Mine(y) EXCEPT !.busy = TRUE, !.req = other]
      <4>1. mounted \in Pages /\ Mine(y) # None
        BY <2>1, <3>4 DEF SubmitAi, Editing, Enabled, Rest
      <4>2. PICK d \in {marked, Unlocked(marked)} : Update(mounted, With(mounted, y, d))
        BY <3>4 DEF SubmitAi
      <4>3. Mine(y) \in Draft /\ Mine(y).text # AiText(id)
        BY <2>5, <4>1 DEF Mine
      <4>4. marked \in Draft /\ marked.text = Mine(y).text
        BY <4>3, DraftValues DEF Draft
      <4>5. d # None => d.text # AiText(id)
        BY <4>2, <4>3, <4>4, UnlockedDraft
      <4> QED
        BY <2>4, <4>1, <4>2, <4>5
    <3>5. CASE \E s \in Saves : Save(s, y) \/ SaveArtifact(s, y) \/ DeleteRun(s, y)
      BY <2>3, <3>5 DEF Save, SaveArtifact, DeleteRun, Keep
    <3> QED
      BY <2>7, <3>1, <3>2, <3>3, <3>4, <3>5 DEF Edit
  <2>8. ASSUME NEW other \in Ids, AnswerAi(other) \/ FailAi(other) PROVE Other
    <3> DEFINE i == ai[other].page
               y == ai[other].run
    <3>1. i \in Pages /\ y \in Runs
      BY <2>8 DEF AnswerAi, FailAi, DraftsInv, Types, Edits, AiCall, NoAi, Dead
    <3>2. CASE Keep
      BY <2>3, <3>2 DEF Keep
    <3>3. CASE FailAi(other)
      <4>1. Update(i, With(i, y, Unlocked(ref[i][y])))
        BY <3>3 DEF FailAi
      <4> QED
        BY <2>4, <2>5, <3>1, <4>1, UnlockedDraft
    <3>4. CASE AnswerAi(other) /\ Wanted(other)
      <4> DEFINE d == [base |-> Base(i, y), text |-> AiText(other), busy |-> FALSE, req |-> None]
      <4>1. Update(i, With(i, y, d))
        BY <3>4 DEF AnswerAi
      <4>2. other # id
        BY <2>1, <3>1, <3>4, Bounds DEF Wanted, Waits, Clean, CancelledGone, WaitedIn
      <4>3. d.text # AiText(id)
        BY <2>1, <4>2, Bounds DEF AiText, Ids
      <4> QED
        BY <2>4, <3>1, <4>1, <4>3
    <3> QED
      BY <2>8, <3>2, <3>3, <3>4 DEF AnswerAi
  <2>9. ASSUME NEW s \in Saves, Settled(s) PROVE Other
    <3>1. CASE Saved(s) \/ RunDeleted(s)
      <4>1. saves[s].page \in Pages /\ saves[s].run \in Runs
        BY <2>1, <3>1 DEF Saved, RunDeleted, Saving, Rest, SaveCall
      <4>2. Update(saves[s].page, With(saves[s].page, saves[s].run, None))
        BY <3>1 DEF Saved, RunDeleted, Forget
      <4> QED
        BY <2>4, <4>1, <4>2
    <3>2. CASE ArtifactSaved(s) \/ SaveFails(s) \/ DeleteFails(s)
      BY <2>3, <3>2 DEF ArtifactSaved, SaveFails, DeleteFails, Keep
    <3> QED
      BY <2>9, <3>1, <3>2 DEF Settled
  <2> QED
    BY <2>3, <2>4, <2>6, <2>7, <2>8, <2>9 DEF DraftsNext
<1> QED
  BY <1>1, DraftsInductive, PTL DEF DraftsSpec, CancelledNeverApplied
================================================================================
