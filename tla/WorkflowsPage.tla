------------------------------ MODULE WorkflowsPage ------------------------------
(***************************************************************************)
(* The runs of features/workflows/WorkflowsPage.tsx: the list it polls,    *)
(* the run its address links to, the selected run, the dialogs that        *)
(* launch, rename and delete a run, and the calls that change one.         *)
(*                                                                         *)
(* Every answer replaces what the page knew: nothing orders a poll and a   *)
(* call, or two polls, that are under way together.  An action that sets   *)
(* the list ends with the effects React runs after it: the fetch of a      *)
(* linked run is cancelled or started, and the selection is repaired.      *)
(* Left out: the search box and the drafts filter, which hide runs as the  *)
(* status filters do; the list's limit of 24, but for Old; toasts, layout. *)
(***************************************************************************)
EXTENDS Naturals, PageRuns

CONSTANTS
    Old,           \* runs that start outside the newest 24, which a poll returns
    Polls,         \* polls that can be under way together
    Calls,         \* calls of the page that can be under way together
    Filters,       \* the filters the user tries, "all" among them
    Opening,       \* bound: statuses of the runs there are when the page opens
    MaxChanges,    \* bound: calls of the page, and changes from elsewhere
    MaxFaults      \* bound: failed requests, and deletions from elsewhere

ASSUME PageAssumption ==
    /\ Old \subseteq Runs
    /\ None \notin Runs
    /\ "all" \in Filters /\ Filters \subseteq {"all", "active", "completed", "failed"}
    /\ Opening \subseteq {"queued", "running", "completed", "failed"}
    /\ MaxChanges \in Nat
    /\ MaxFaults \in Nat

VARIABLES
    srv,        \* the service: a run, or None
    gone,       \* ids whose runs were deleted
    runs,       \* the page's list: its copy of a run, or None
    linked,     \* the run in the address, and linkedRunIdRef after its effect
    selected,   \* selectedRunId
    filter,     \* runFilter
    refining,   \* refiningRunId: the run shown as running although the service has it completed
    polls,      \* loadPage requests
    links,      \* getWorkflowRun requests for a linked run, linkedRunFetchesRef
    calls,      \* requests that change a run
    dialog,     \* the open dialog and its run
    changes,    \* changes so far
    faults      \* failed requests and deletions from elsewhere so far

service == <<srv, gone>>
page == <<runs, linked, selected, filter, refining, links>>
vars == <<srv, gone, runs, linked, selected, filter, refining, polls, links, calls, dialog,
          changes, faults>>

--------------------------------------------------------------------------------
Active == {"queued", "running"}
Ended == {"completed", "failed"}

Run == [status: Active \cup Ended, rev: Nat]       \* rev stands for updated_at
ASSUME NoRunAssumption == None \notin Run

Maybe(S) == S \cup {None}
Lists == [Runs -> Maybe(Run)]
Listed(list) == {r \in Runs : list[r] # None}

Nothing == [r \in Runs |-> None]
Idle == [st |-> "idle"]

\* What a dialog changes: its kind says which of the saving flags holds it open.
Closed == [kind |-> "none", run |-> None, saving |-> FALSE]

Init ==
    /\ srv \in [Runs -> {None} \cup [status: Opening, rev: {0}]]
    /\ \A r \in Old : srv[r] # None => srv[r].status \in Ended
    /\ gone = {}
    /\ runs = Nothing
    /\ linked \in {None} \cup Listed(srv)
    /\ selected = None
    /\ filter = "all"
    /\ refining = None
    /\ \E p \in Polls : polls = [q \in Polls |-> [st |-> IF q = p THEN "asked" ELSE "idle",
                                                  rows |-> Nothing]]
    /\ links = [r \in Runs |-> [st |-> IF r = linked THEN "asked" ELSE "never",
                                live |-> r = linked, row |-> None]]
    /\ calls = [c \in Calls |-> Idle]
    /\ dialog = Closed
    /\ changes = 0
    /\ faults = 0

--------------------------------------------------------------------------------
(* The effects that follow a change of the list, the address or the selection. *)

\* A new list cancels the fetch under way; one fetch is ever made for a run.
FetchLinked(list, link) ==
    links' = [r \in Runs |->
                IF r = link /\ list[r] = None /\ links[r].st = "never"
                THEN [st |-> "asked", live |-> TRUE, row |-> None]
                ELSE [links[r] EXCEPT !.live = FALSE]]

Matches(status, f) == f \in {"all", status} \/ (f = "active" /\ status \in Active)

\* workflowDisplayStatus: a run that is being refined counts as running.
Visible(list, f, refined) ==
    {r \in Listed(list) : Matches(IF r = refined THEN "running" ELSE list[r].status, f)}

\* Mutation of Repair: only an empty selection is repaired.
RepairEmptyOnly(list, link, sel) ==
    LET visible == Visible(list, filter', refining') IN
    IF link # None /\ list[link] # None THEN selected' = link
    ELSE IF sel # None \/ visible = {} THEN selected' = sel
    ELSE selected' \in visible

Repair(list, link, sel) ==
    LET visible == Visible(list, filter', refining') IN
    IF link # None /\ list[link] # None THEN selected' = link
    ELSE IF sel \in visible THEN selected' = sel
    ELSE IF visible = {} THEN selected' = None
    ELSE selected' \in visible

Redraw(list, link, sel) ==
    /\ filter' = filter
    /\ runs' = list
    /\ linked' = link
    /\ FetchLinked(list, link)
    /\ Repair(list, link, sel)

Show(list, link, sel) == refining' = refining /\ Redraw(list, link, sel)

\* The mark of a refinement is set or taken away: only the effect on visibleRuns runs.
Remark(r) ==
    /\ refining' = r
    /\ UNCHANGED <<runs, linked, filter, links>>
    /\ Repair(runs, linked, selected)

--------------------------------------------------------------------------------
(* The service, and other tabs that use it. *)

\* The background job takes a run on.
Execute(r) ==
    /\ srv[r] # None
    /\ \E next \in IF srv[r].status = "queued" THEN {"running"} ELSE Ended :
        /\ srv[r].status \in Active
        /\ srv' = [srv EXCEPT ![r] = [status |-> next, rev |-> @.rev + 1]]
    /\ UNCHANGED <<gone, page, polls, calls, dialog, changes, faults>>

Touched(r) == [srv EXCEPT ![r].rev = @ + 1]
Removed(r) == [srv EXCEPT ![r] = None]

Fault ==
    /\ faults < MaxFaults
    /\ faults' = faults + 1
    /\ UNCHANGED changes

ChangedElsewhere(r) ==
    /\ changes < MaxChanges
    /\ changes' = changes + 1
    /\ srv' = Touched(r)
    /\ UNCHANGED <<gone, faults>>

DeletedElsewhere(r) ==
    /\ Fault
    /\ srv' = Removed(r)
    /\ gone' = gone \cup {r}

Elsewhere(r) ==
    /\ srv[r] # None
    /\ ChangedElsewhere(r) \/ DeletedElsewhere(r)
    /\ UNCHANGED <<page, polls, calls, dialog>>

--------------------------------------------------------------------------------
(* Polling: loadPage, on mount and every 15 seconds. *)

AskList(p) ==
    /\ polls[p].st = "idle"
    /\ polls' = [polls EXCEPT ![p].st = "asked"]
    /\ UNCHANGED <<service, page, calls, dialog, changes, faults>>

\* The newest runs: an old one is among them once it has been changed.
Newest == [r \in Runs |-> IF srv[r] # None /\ r \in Old /\ srv[r].rev = 0
                          THEN None ELSE srv[r]]

AnswerList(p) ==
    /\ polls[p].st = "asked"
    /\ polls' = [polls EXCEPT ![p] = [st |-> "answered", rows |-> Newest]]
    /\ UNCHANGED <<service, page, calls, dialog, changes, faults>>

FailList(p) ==
    /\ polls[p].st = "asked"
    /\ polls' = [polls EXCEPT ![p].st = "idle"]
    /\ Fault
    /\ UNCHANGED <<service, page, calls, dialog>>

\* Mutation of Incoming: the linked run is not kept.
IncomingPlain(rows) == rows

\* Mutation of Incoming: every run is kept.
IncomingAppended(rows) == [r \in Runs |-> IF rows[r] = None THEN runs[r] ELSE rows[r]]

\* Mutation of Incoming: what the page has already is not replaced.
IncomingNewOnly(rows) ==
    [r \in Runs |-> IF runs[r] # None THEN runs[r] ELSE rows[r]]

\* The linked run stays in the list when the answer does not hold it.
Incoming(rows) ==
    IF linked # None /\ rows[linked] = None
    THEN [rows EXCEPT ![linked] = runs[linked]]
    ELSE rows

ShowList(p) ==
    /\ polls[p].st = "answered"
    /\ polls' = [polls EXCEPT ![p] = [st |-> "idle", rows |-> Nothing]]
    /\ Show(Incoming(polls[p].rows), linked, selected)
    /\ UNCHANGED <<service, calls, dialog, changes, faults>>

--------------------------------------------------------------------------------
(* The run the address links to. *)

AnswerLink(r) ==
    /\ links[r].st = "asked"
    /\ links' = [links EXCEPT ![r].st = IF srv[r] = None THEN "failed" ELSE "answered",
                              ![r].row = srv[r]]
    /\ UNCHANGED <<service, runs, linked, selected, filter, refining, polls, calls, dialog, changes, faults>>

FailLink(r) ==
    /\ links[r].st = "asked"
    /\ links' = [links EXCEPT ![r].st = "failed"]
    /\ Fault
    /\ UNCHANGED <<service, runs, linked, selected, filter, refining, polls, calls, dialog>>

\* A cancelled fetch is dropped, whatever it brings; a failed one is reported.
OpenLinked(r) ==
    LET list == [runs EXCEPT ![r] = links[r].row] IN
    /\ links[r].st = "answered" /\ links[r].live
    /\ runs' = list
    /\ UNCHANGED <<linked, filter, refining>>
    /\ links' = [links EXCEPT ![r] = [st |-> "done", live |-> FALSE, row |-> None]]
    /\ Repair(list, linked, r)
    /\ UNCHANGED <<service, polls, calls, dialog, changes, faults>>

DropLinked(r) ==
    /\ links[r].st = "failed" \/ (links[r].st = "answered" /\ ~links[r].live)
    /\ links' = [links EXCEPT ![r] = [st |-> "done", live |-> FALSE, row |-> None]]
    /\ UNCHANGED <<service, runs, linked, selected, filter, refining, polls, calls, dialog, changes, faults>>

SetFilter(f) ==
    /\ dialog = Closed
    /\ f # filter
    /\ filter' = f /\ refining' = refining
    /\ Repair(runs, linked, selected)
    /\ UNCHANGED <<service, runs, linked, links, polls, calls, dialog, changes, faults>>

\* A click on a row, or on the parent of a follow-up: selectRun puts it in the address too.
SelectRun(r) ==
    /\ dialog = Closed
    /\ runs[r] # None
    /\ selected # r \/ linked # r
    /\ Show(runs, r, r)
    /\ UNCHANGED <<service, polls, calls, dialog, changes, faults>>

--------------------------------------------------------------------------------
(* Dialogs and the calls they make. *)

Launching(c) == calls[c] # Idle /\ calls[c].kind = "launch"

\* The catalog opens no launcher while a launch is being submitted.
OpenDialog(kind, r) ==
    /\ dialog = Closed
    /\ \/ kind = "launch" /\ r = None /\ ~\E c \in Calls : Launching(c)
       \/ kind \in {"rename", "delete"} /\ r \in Visible(runs, filter, refining) \cup ({selected} \cap Runs)
    /\ dialog' = [kind |-> kind, run |-> r, saving |-> FALSE]
    /\ UNCHANGED <<service, page, polls, calls, changes, faults>>

\* A dialog that saves stays open, but for the launcher.
CloseDialog ==
    /\ dialog # Closed
    /\ dialog.saving => dialog.kind = "launch"
    /\ dialog' = Closed
    /\ UNCHANGED <<service, page, polls, calls, changes, faults>>

Start(c, kind, r) ==
    /\ calls[c] = Idle
    /\ changes < MaxChanges
    /\ changes' = changes + 1
    /\ calls' = [calls EXCEPT ![c] = [st |-> "asked", kind |-> kind, run |-> r,
                                     sel |-> IF kind = "delete" THEN selected ELSE None,
                                     row |-> None]]

Fresh == {r \in Runs \ (gone \cup Listed(srv) \cup Old) : \A c \in Calls :
            calls[c] # Idle => calls[c].run # r}

Submits(kind) ==
    /\ dialog.kind = kind /\ ~dialog.saving
    /\ dialog' = [dialog EXCEPT !.saving = TRUE]
    /\ UNCHANGED <<service, page, polls, faults>>

SubmitLaunch(c) ==
    /\ Submits("launch")
    /\ \E r \in Fresh : Start(c, "launch", r)

\* A run that has left the list is not renamed or deleted.
SubmitRename(c) ==
    /\ Submits("rename")
    /\ runs[dialog.run] # None
    /\ Start(c, "rename", dialog.run)

SubmitDelete(c) ==
    /\ Submits("delete")
    /\ runs[dialog.run] # None
    /\ Start(c, "delete", dialog.run)

Details(r) == dialog = Closed /\ r = selected /\ r # None /\ runs[r].status = "completed"

\* Selecting, naming and laying out versions: no dialog.
ChangeVersion(c, r) ==
    /\ Details(r)
    /\ Start(c, "version", r)
    /\ UNCHANGED <<service, page, polls, dialog, faults>>

\* A refinement of another run takes the mark over.
Refine(c, r) ==
    /\ Details(r) /\ refining # r
    /\ Start(c, "refine", r)
    /\ Remark(r)
    /\ UNCHANGED <<service, polls, dialog, faults>>

Busy(c, kind, st) == calls[c] # Idle /\ calls[c].kind = kind /\ calls[c].st = st
Dialogs == {"launch", "rename", "delete"}
Kinds == Dialogs \cup {"version", "refine"}

Answered(c) == calls' = [calls EXCEPT ![c].st = "answered", ![c].row = srv'[calls[c].run]]

Serve(c) ==
    LET r == calls[c].run IN
    /\ \/ /\ Busy(c, "launch", "asked")
          /\ srv' = [srv EXCEPT ![r] = [status |-> "queued", rev |-> 0]]
          /\ UNCHANGED gone
       \/ /\ \E kind \in Kinds \ {"launch", "delete"} : Busy(c, kind, "asked")
          /\ srv[r] # None
          /\ srv' = Touched(r)
          /\ UNCHANGED gone
       \/ /\ Busy(c, "delete", "asked")
          /\ srv[r] # None
          /\ srv' = Removed(r)
          /\ gone' = gone \cup {r}
    /\ Answered(c)
    /\ UNCHANGED <<page, polls, dialog, changes, faults>>

\* The run is not there.
Refuse(c) ==
    /\ \E kind \in Kinds \ {"launch"} : Busy(c, kind, "asked") /\ srv[calls[c].run] = None
    /\ calls' = [calls EXCEPT ![c].st = "failed"]
    /\ UNCHANGED <<service, page, polls, dialog, changes, faults>>

\* The request is lost, or its answer is.
LoseCall(c) ==
    /\ \E kind \in Kinds, st \in {"asked", "answered"} : Busy(c, kind, st)
    /\ calls' = [calls EXCEPT ![c].st = "failed"]
    /\ Fault
    /\ UNCHANGED <<service, page, polls, dialog>>

\* The answer replaces the run only where the list still has it.
Replaced(r, row) == IF runs[r] = None THEN runs ELSE [runs EXCEPT ![r] = row]

\* The dialog of the call closes; another one stays.
CloseOf(kind) == dialog' = IF dialog.kind = kind THEN Closed ELSE dialog

Finish(c, kind) ==
    /\ Busy(c, kind, "answered")
    /\ calls' = [calls EXCEPT ![c] = Idle]
    /\ CloseOf(kind)
    /\ UNCHANGED <<service, polls, changes, faults>>

Launched(c) ==
    LET call == calls[c] IN
    /\ Finish(c, "launch")
    /\ Show([runs EXCEPT ![call.run] = call.row], call.run, call.run)

Renamed(c) ==
    LET call == calls[c] IN
    /\ Finish(c, "rename")
    /\ Show(Replaced(call.run, call.row), linked, selected)

VersionChanged(c) ==
    LET call == calls[c] IN
    /\ Finish(c, "version")
    /\ Show(Replaced(call.run, call.row), call.run, call.run)

\* The mark is taken away if it is still this run's.
Unmarked(r) == IF refining = r THEN None ELSE refining

Refined(c) ==
    LET call == calls[c] IN
    /\ Finish(c, "refine")
    /\ refining' = Unmarked(call.run)
    /\ Redraw(Replaced(call.run, call.row), call.run, call.run)

\* The link goes with the run if it was selected when the deletion was submitted.
Deleted(c) ==
    LET call == calls[c]
        mine == call.sel = call.run
    IN
    /\ Finish(c, "delete")
    /\ Show([runs EXCEPT ![call.run] = None],
            IF mine THEN None ELSE linked, IF mine THEN None ELSE selected)

\* A failed call leaves the list as it was, and its dialog open.
CallFailed(c) ==
    /\ \/ \E kind \in Kinds \ {"refine"} : Busy(c, kind, "failed") /\ UNCHANGED page
       \/ Busy(c, "refine", "failed") /\ Remark(Unmarked(calls[c].run))
    /\ calls' = [calls EXCEPT ![c] = Idle]
    /\ dialog' = IF dialog.kind = calls[c].kind THEN [dialog EXCEPT !.saving = FALSE] ELSE dialog
    /\ UNCHANGED <<service, polls, changes, faults>>

--------------------------------------------------------------------------------
Service == \E r \in Runs : Execute(r) \/ Elsewhere(r)

Listing(p) == AskList(p) \/ AnswerList(p) \/ FailList(p) \/ ShowList(p)

Linking(r) == AnswerLink(r) \/ FailLink(r) \/ OpenLinked(r) \/ DropLinked(r)

Finishing(c) ==
    \/ Serve(c) \/ Refuse(c) \/ LoseCall(c)
    \/ Launched(c) \/ Renamed(c) \/ VersionChanged(c) \/ Refined(c)
    \/ Deleted(c) \/ CallFailed(c)

UseDialog ==
    \/ \E kind \in Dialogs, r \in Maybe(Runs) : OpenDialog(kind, r)
    \/ CloseDialog
    \/ \E c \in Calls : SubmitLaunch(c) \/ SubmitRename(c) \/ SubmitDelete(c)

User ==
    \/ UseDialog
    \/ \E r \in Runs : SelectRun(r)
    \/ \E f \in Filters : SetFilter(f)
    \/ \E c \in Calls, r \in Runs : ChangeVersion(c, r) \/ Refine(c, r)

Next ==
    \/ Service
    \/ \E p \in Polls : Listing(p)
    \/ \E r \in Runs : Linking(r)
    \/ \E c \in Calls : Finishing(c)
    \/ User

Spec == Init /\ [][Next]_vars

\* The timer keeps polling, requests are answered and answers are shown, and the
\* background job ends every run.
Progress ==
    /\ \A p \in Polls : WF_vars(Listing(p))
    /\ \A r \in Runs : WF_vars(Linking(r)) /\ WF_vars(Execute(r))
    /\ \A c \in Calls : WF_vars(Finishing(c))

LiveSpec == Spec /\ Progress

--------------------------------------------------------------------------------
(* Properties *)

\* The page's state has its types, and a link fetch that is live is the linked run's.
PageTypeOK ==
    /\ srv \in Lists /\ runs \in Lists
    /\ gone \subseteq Runs
    /\ {linked, selected, refining} \subseteq Maybe(Runs) /\ filter \in Filters
    /\ \A p \in Polls : polls[p].st \in {"idle", "asked", "answered"} /\ polls[p].rows \in Lists
    /\ \A r \in Runs : links[r].st \in {"never", "asked", "answered", "failed", "done"}
    /\ \A r \in Runs : links[r].live => r = linked

\* The details pane shows a run of the list whenever there is one, and the linked run
\* whenever the list has it: no sequence of answers leaves the pane on a run that is gone.
SelectionListed ==
    /\ Visible(runs, filter, refining) # {} => selected # None
    /\ selected # None => runs[selected] # None /\ (selected # linked => selected \in Visible(runs, filter, refining))
    /\ linked # None /\ runs[linked] # None => selected = linked

\* The page's list, its selection and the address agree (WorkflowsPage.tsx: the effects on
\* linkedRunId and visibleRuns), in whatever order the answers come in.
PageCoherent == PageTypeOK /\ SelectionListed

\* The run in the address stays in the list, whatever older polls answer, until it is
\* deleted or another run takes its place in the address.
LinkedRunStays ==
    [][\A r \in Runs : linked = r /\ linked' = r /\ runs[r] # None /\ runs'[r] = None
                        => r \in gone]_vars

\* The list follows the service: when the user leaves it alone, it comes to hold the newest
\* runs as they are, apart from the linked run, which it may keep although it is gone or old.
ListFollowsService ==
    <>[][~User]_vars => <>[](\A r \in Runs : r # linked => runs[r] = Newest[r])

\* A run the page shows unfinished is shown finished in the end, whatever stale answers come
\* in between, unless it is deleted: "The result will appear here automatically".
ResultAppears ==
    \A r \in Runs : (runs[r] # None /\ runs[r].status \in Active)
                    ~> (r \in gone \/ (runs[r] # None /\ runs[r].status \in Ended))
================================================================================
