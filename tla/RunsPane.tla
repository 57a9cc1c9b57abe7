-------------------------------- MODULE RunsPane --------------------------------
(***************************************************************************)
(* What features/workflows/WorkflowsPage.tsx shows of its runs: the list   *)
(* with its search box and filters, the rail it collapses to, the two      *)
(* panels of a phone, the enlarged table, and the message that a run has   *)
(* finished or failed, which compares each list with the one before it.    *)
(* The list itself, the calls and the linked run are in WorkflowsPage; the *)
(* answers come here in any order.                                         *)
(* Left out: the panes' widths, the groups by date, the wording.           *)
(***************************************************************************)
EXTENDS FiniteSets, Naturals

CONSTANTS
    Runs,       \* runs the user starts or has started
    Follows,    \* pairs: the second run is the source the first was built from
    Found,      \* the runs that the text in the search box finds
    Requests,   \* polls that can be under way together
    MaxTouches  \* bound: what the user does

VARIABLES
    shelf,      \* the runs at the service
    inbox,      \* the page's list: statuses, or "absent"
    asking,     \* the polls under way, with their answers
    loadState,  \* loading and runsLoadError
    noted,      \* prevRunStatusRef
    due,        \* runs seen active since the user was last told of their end
    strayed,    \* runs that were dropped from the list, or taken back, by an older answer
    twice,      \* runs whose end was told although it was not due
    chosen,     \* selectedRunId
    address,    \* the run in the address
    searching,  \* there is a text in the search box
    sieve,      \* runFilter
    drafted,    \* runs with an edited output
    revising,   \* refiningRunId
    phone,      \* isMobile
    side,       \* mobilePanel
    rail,       \* runsPaneCollapsed
    enlarged,   \* the run of expandedWorkflowTable
    touches     \* what the user did so far

told == <<noted, due, strayed, twice>>
view == <<chosen, address, searching, sieve, drafted, revising, phone, side, rail, enlarged>>
paneVars == <<shelf, inbox, asking, loadState, told, view, touches>>

--------------------------------------------------------------------------------
Working == {"queued", "running"}
Over == {"completed", "failed"}
Statuses == Working \cup Over
Absent == "absent"
Nobody == "none"
InList(list) == {r \in Runs : list[r] # Absent}
NoRuns == [r \in Runs |-> Absent]

PaneInit ==
    /\ shelf \in [Runs -> {Absent, "running", "completed"}]
    /\ inbox = NoRuns
    /\ \E q \in Requests : asking = [p \in Requests |-> [st |-> IF p = q THEN "asked" ELSE "idle",
                                                         rows |-> NoRuns, loud |-> p = q]]
    /\ loadState = "loading"
    /\ noted = NoRuns
    /\ due = {}
    /\ strayed = {}
    /\ twice = {}
    /\ chosen = Nobody
    /\ address = Nobody
    /\ searching = FALSE
    /\ sieve = "all"
    /\ drafted = {}
    /\ revising = Nobody
    /\ phone \in BOOLEAN
    /\ side = "inbox"
    /\ rail = FALSE
    /\ enlarged = Nobody
    /\ touches = 0

--------------------------------------------------------------------------------
(* What is shown. *)

\* A run that is being refined counts as running.
DisplayStatus(r) == IF r = revising THEN "running" ELSE inbox[r]

Sieves == {"all", "active", "completed", "drafts", "failed"}

PassesSieve(r) ==
    \/ sieve = "all"
    \/ sieve = "drafts" /\ r \in drafted
    \/ sieve = "active" /\ DisplayStatus(r) \in Working
    \/ sieve = DisplayStatus(r)

PassesSearch(r) == searching => r \in Found

Rows == {r \in InList(inbox) : PassesSearch(r) /\ PassesSieve(r)}

ListShown == ~phone \/ side = "inbox"
DetailsShown == ~phone \/ side = "details"
RailShown == rail /\ ~phone
PaneShown == ListShown /\ ~RailShown

\* The body of the list: a skeleton, else an error with Retry, else the rows, else why there
\* are none.
Skeleton == loadState = "loading"
ErrorShown == ~Skeleton /\ loadState = "failed" /\ InList(inbox) = {}
RowsShown == ~Skeleton /\ ~ErrorShown /\ Rows # {}
EmptyShown == ~Skeleton /\ ~ErrorShown /\ Rows = {}

\* The rail shows every run when there is nothing to search or filter.
RailRows == IF Rows # {} \/ searching \/ sieve # "all" THEN Rows ELSE InList(inbox)

RailOffered(r) == RailShown /\ r \in RailRows
RowOffered(r) == PaneShown /\ RowsShown /\ r \in Rows

\* The details are of the chosen run; a follow-up leads to the run it was built from.
Details == DetailsShown /\ chosen # Nobody /\ inbox[chosen] # Absent
SourceOffered(r) == Details /\ <<chosen, r>> \in Follows /\ inbox[r] # Absent
Output == Details /\ inbox[chosen] = "completed"

--------------------------------------------------------------------------------
(* The effects of a change of the list or of the view. *)

\* Mutation of Note: what the page saw first stays.
NoteFirst(list) == noted' = [r \in Runs |-> IF noted[r] = Absent THEN list[r] ELSE noted[r]]

Note(list) == noted' = list

Ended(list) == {r \in Runs : noted[r] \in Working /\ list[r] \in Over}

\* The end of a run is told when the list before had it active.
Tell(list) ==
    /\ Note(list)
    /\ due' = (due \ Ended(list)) \cup {r \in Runs : list[r] \in Working}
    /\ twice' = twice \cup (Ended(list) \ due)
    /\ strayed' = strayed \cup {r \in Runs : inbox[r] \in Statuses /\ list[r] \in {Absent} \cup Working
                                             /\ ~(inbox[r] \in Working /\ list[r] \in Working)}

\* The linked run is chosen when it is listed, else the first row when the choice is not shown.
Choose(sel) ==
    chosen' \in IF address' # Nobody /\ inbox'[address'] # Absent THEN {address'}
               ELSE IF Rows' = {} THEN {Nobody}
               ELSE IF sel \in Rows' THEN {sel} ELSE Rows'

\* A run chosen on a phone for its address brings the details forward, and a table enlarged
\* for another run goes.
Follow(sel, panel) ==
    /\ Choose(sel)
    /\ side' = IF phone' /\ chosen' = address' /\ chosen' # sel THEN "details" ELSE panel
    /\ enlarged' = IF enlarged = chosen' THEN enlarged ELSE Nobody

\* The list is replaced.
List(list, sel, to, panel) ==
    /\ inbox' = list
    /\ address' = to
    /\ Tell(list)
    /\ UNCHANGED <<searching, sieve, drafted, revising, phone, rail>>
    /\ Follow(sel, panel)

--------------------------------------------------------------------------------
(* The service and the polls. *)

Work(r) ==
    /\ \E s \in IF shelf[r] = "queued" THEN {"running"} ELSE Over :
        shelf[r] \in Working /\ shelf' = [shelf EXCEPT ![r] = s]
    /\ UNCHANGED <<inbox, asking, loadState, told, view, touches>>

Ask(p, loud) ==
    /\ asking[p].st = "idle"
    /\ asking' = [asking EXCEPT ![p].st = "asked", ![p].loud = loud]
    /\ loadState' = IF loud THEN "loading" ELSE loadState
    /\ UNCHANGED <<shelf, inbox, told, view, touches>>

AskQuietly(p) == Ask(p, FALSE)

Answer(p) ==
    /\ asking[p].st = "asked"
    /\ asking' = [asking EXCEPT ![p].st = "answered", ![p].rows = shelf]
    /\ UNCHANGED <<shelf, inbox, loadState, told, view, touches>>

\* The linked run stays although the answer does not have it.
Show(p) ==
    LET rows == asking[p].rows
        kept == IF address # Nobody /\ rows[address] = Absent
                THEN [rows EXCEPT ![address] = inbox[address]] ELSE rows
    IN
    /\ asking[p].st = "answered"
    /\ asking' = [asking EXCEPT ![p] = [st |-> "idle", rows |-> NoRuns, loud |-> FALSE]]
    /\ loadState' = IF asking[p].loud \/ loadState = "failed" THEN "loaded" ELSE loadState
    /\ List(kept, chosen, address, side)
    /\ UNCHANGED <<shelf, touches>>

\* A poll in the background fails quietly.
Fail(p) ==
    /\ asking[p].st = "asked"
    /\ asking' = [asking EXCEPT ![p] = [st |-> "idle", rows |-> NoRuns, loud |-> FALSE]]
    /\ loadState' = IF asking[p].loud THEN "failed" ELSE loadState
    /\ UNCHANGED <<shelf, inbox, told, view, touches>>

--------------------------------------------------------------------------------
(* The user. *)

Touch ==
    /\ touches < MaxTouches
    /\ touches' = touches + 1

OnlyView == Touch /\ UNCHANGED <<shelf, inbox, asking, loadState, told>>

\* An enlarged table covers the page.
Free == enlarged = Nobody

Retry(p) ==
    /\ ErrorShown /\ PaneShown /\ Free
    /\ Ask(p, TRUE)

\* New workflow: the run comes into the list, and is chosen.
NewWorkflow(r) ==
    /\ shelf[r] = Absent /\ inbox[r] = Absent
    /\ Free /\ Touch
    /\ shelf' = [shelf EXCEPT ![r] = "queued"]
    /\ List([inbox EXCEPT ![r] = "queued"], r, r, IF phone THEN "details" ELSE side)
    /\ UNCHANGED <<asking, loadState>>

ChooseRun(r) ==
    /\ RowOffered(r) \/ RailOffered(r) \/ SourceOffered(r)
    /\ Free /\ OnlyView
    /\ address' = r
    /\ UNCHANGED <<searching, sieve, drafted, revising, phone, rail>>
    /\ Follow(r, IF phone THEN "details" ELSE side)

Search ==
    /\ PaneShown
    /\ Free /\ OnlyView
    /\ searching' = ~searching
    /\ UNCHANGED <<address, sieve, drafted, revising, phone, rail>>
    /\ Follow(chosen, side)

Sieve(f) ==
    /\ PaneShown /\ f # sieve
    /\ Free /\ OnlyView
    /\ sieve' = f
    /\ UNCHANGED <<address, searching, drafted, revising, phone, rail>>
    /\ Follow(chosen, side)

ClearView ==
    /\ PaneShown /\ EmptyShown
    /\ searching \/ sieve # "all"
    /\ Free /\ OnlyView
    /\ searching' = FALSE
    /\ sieve' = "all"
    /\ UNCHANGED <<address, drafted, revising, phone, rail>>
    /\ Follow(chosen, side)

TurnPanel ==
    /\ phone
    /\ Free /\ OnlyView
    /\ side' = IF side = "inbox" THEN "details" ELSE "inbox"
    /\ UNCHANGED <<chosen, address, searching, sieve, drafted, revising, phone, rail, enlarged>>

Collapse ==
    /\ ~phone
    /\ Free /\ OnlyView
    /\ rail' = ~rail
    /\ UNCHANGED <<chosen, address, searching, sieve, drafted, revising, phone, side, enlarged>>

\* The window becomes narrow or wide.
Resize ==
    /\ OnlyView
    /\ phone' = ~phone
    /\ rail' = (rail /\ ~phone')
    /\ side' = IF phone' THEN side ELSE "inbox"
    /\ UNCHANGED <<chosen, address, searching, sieve, drafted, revising, enlarged>>

\* The details of a finished run: a table is enlarged, an output edited, a revision asked for.
Enlarge ==
    /\ Output
    /\ OnlyView
    /\ enlarged' = IF enlarged = chosen THEN Nobody ELSE chosen
    /\ UNCHANGED <<chosen, address, searching, sieve, drafted, revising, phone, side, rail>>

EditOutput ==
    /\ Output
    /\ Free /\ OnlyView
    /\ drafted' = IF chosen \in drafted THEN drafted \ {chosen} ELSE drafted \cup {chosen}
    /\ UNCHANGED <<address, searching, sieve, revising, phone, rail>>
    /\ Follow(chosen, side)

Refine ==
    /\ Output /\ revising = Nobody
    /\ Free /\ OnlyView
    /\ revising' = chosen
    /\ UNCHANGED <<address, searching, sieve, drafted, phone, rail>>
    /\ Follow(chosen, side)

\* The answer or the failure of the revision; the run is chosen again if it was revised.
Refined ==
    /\ revising # Nobody
    /\ revising' = Nobody
    /\ UNCHANGED <<shelf, inbox, asking, loadState, told, touches>>
    /\ \E to \in {address, revising} :
        /\ address' = to
        /\ UNCHANGED <<searching, sieve, drafted, phone, rail>>
        /\ Follow(IF to = revising THEN revising ELSE chosen,
                  IF to = revising /\ phone THEN "details" ELSE side)

--------------------------------------------------------------------------------
PaneNext ==
    \/ \E r \in Runs : Work(r) \/ NewWorkflow(r) \/ ChooseRun(r)
    \/ \E p \in Requests : AskQuietly(p) \/ Answer(p) \/ Show(p) \/ Fail(p) \/ Retry(p)
    \/ \E f \in Sieves : Sieve(f)
    \/ Search \/ ClearView \/ TurnPanel \/ Collapse \/ Resize
    \/ Enlarge \/ EditOutput \/ Refine \/ Refined

--------------------------------------------------------------------------------
(* Properties *)

\* A run that the user has seen at work is announced when the list shows its end, and once:
\* unless an older answer dropped it from the list in between, or took its end back.
EndsTold ==
    \A r \in Runs \ strayed : ~(r \in due /\ inbox[r] \in Over) /\ r \notin twice

\* An enlarged table is of the run whose details are chosen.
TableOfChosen == enlarged # Nobody => enlarged = chosen
================================================================================
