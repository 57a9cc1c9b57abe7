--------------------------------- MODULE Views ---------------------------------
(***************************************************************************)
(* The views that keep a state of their own beside the data they show: the *)
(* evaluation page, the runs pane, the rows of the files page, the chat,   *)
(* what is dropped from the desktop and the preview of a file.  A          *)
(* behaviour is a visit to one of them.                                    *)
(***************************************************************************)
EXTENDS FiniteSets, Naturals, Sequences, Route

CONSTANTS
    \* the bounds and the data of the views, which their modules explain
    MaxJobs, MaxPolls, Budgets,
    Runs, Follows, Found, Requests, MaxTouches,
    Order, Dirs, FirstPlace, Hits, MaxGestures, MaxReloads,
    Talks, MaxMarks, MaxSources, MaxDeeds,
    Disk, Parts, NameOf, Stamp, Drops, Folder, Row, MaxDrops, MaxMoves, MaxBad,
    Docs, Written, DocName, Queries, Matches, MaxLooks

\* Data of the right kind, and conversations apart from their absence.
ASSUME ViewsAssumption ==
    /\ Found \subseteq Runs /\ Follows \subseteq Runs \X Runs
    /\ "nobody" \notin Talks
    /\ {MaxJobs, MaxMarks, MaxSources, MaxDeeds, MaxDrops, MaxMoves, MaxBad, MaxLooks} \subseteq Nat

\* A disk: its directories hold their entries in portions, and there is an order in which each comes
\* after the directory it is in, since none is within itself.
ASSUME DiskAssumption ==
    /\ IsFiniteSet(Disk) /\ DOMAIN NameOf = Disk
    /\ Drops \subseteq (SUBSET Disk) \ {{}}
    /\ DOMAIN Parts \subseteq Disk
    /\ \A n \in DOMAIN Parts : Parts[n] \in Seq((SUBSET Disk) \ {{}})
    /\ \E rank \in [DOMAIN Parts -> 1..Cardinality(DOMAIN Parts)] :
          \A d \in DOMAIN Parts : \A i \in DOMAIN Parts[d] :
              \A e \in Parts[d][i] \cap DOMAIN Parts : rank[d] < rank[e]
    /\ Folder \in Seq({Folder[i] : i \in DOMAIN Folder})

\* Every row is in a folder or at the root, and is no mark for something else.
ASSUME RowsAssumption ==
    LET rows == {Order[n] : n \in DOMAIN Order} IN
    /\ Order \in Seq(rows)
    /\ Dirs \subseteq rows /\ FirstPlace \in [rows -> Dirs \cup {"root"}]
    /\ {"root", "gone", "none", "background"} \cap rows = {}

\* Some files have a text, in which a query is found so many times.
ASSUME PreviewAssumption ==
    /\ Written \subseteq Docs /\ DOMAIN DocName = Docs
    /\ Matches \in [Docs \X Queries -> Nat]
    /\ "no file" \notin Docs /\ "no query" \notin Queries

VARIABLES
    jobs, saved, job, heardJobs, listed, selected, result, creating, polls, refreshes,
    loads, call, more, acts, faults, failed, broken, muddled, torn,
    shelf, inbox, asking, loadState, noted, due, strayed, twice, chosen, address,
    searching, sieve, drafted, revising, phone, side, rail, enlarged, touches,
    lies, here, quest, treeKey, opened, ticked, anchor, picked, haunted, box, carried,
    hush, quiet, menu, move, upset, gestures, reloads,
    titles, rows, sessions, current, draft, sent, naming, leaving, deeds, drifted,
    strokes,
    over, depth, overlay, browser, reads, batches, bad, vanished, moves,
    there, seen, viewer, held, fetches, query, place, tracker, seeking, typedIn,
    swapped, looks

Evals == INSTANCE InternalEvals
Pane == INSTANCE RunsPane
Explore == INSTANCE Explorer
Talk == INSTANCE ChatPane
Desk == INSTANCE OsDrop
Read == INSTANCE Viewer

evalsVars == <<jobs, saved, job, heardJobs, listed, selected, result, creating, polls,
               refreshes, loads, call, more, acts, faults, failed, broken, muddled, torn>>
paneVars == <<shelf, inbox, asking, loadState, noted, due, strayed, twice, chosen,
              address, searching, sieve, drafted, revising, phone, side, rail,
              enlarged, touches>>
exploreVars == <<lies, here, quest, treeKey, opened, ticked, anchor, picked, haunted,
                 box, carried, hush, quiet, menu, move, upset, gestures, reloads>>
talkVars == <<titles, rows, sessions, current, draft, sent, naming, leaving, deeds,
              drifted, strokes>>
deskVars == <<over, depth, overlay, browser, reads, batches, bad, vanished, moves>>
viewVars == <<there, seen, viewer, held, fetches, query, place, tracker, seeking,
              typedIn, swapped, looks>>
viewsVars == <<route, evalsVars, paneVars, exploreVars, talkVars, deskVars, viewVars>>

--------------------------------------------------------------------------------
(* A view that is not mounted has no state. *)

NoEvals ==
    /\ jobs = Off /\ saved = Off /\ job = Off /\ heardJobs = Off /\ listed = Off
    /\ selected = Off /\ result = Off /\ creating = Off /\ polls = Off
    /\ refreshes = Off /\ loads = Off /\ call = Off /\ more = Off /\ acts = Off
    /\ faults = Off /\ failed = Off /\ broken = Off /\ muddled = Off /\ torn = Off

NoPane ==
    /\ shelf = Off /\ inbox = Off /\ asking = Off /\ loadState = Off /\ noted = Off
    /\ due = Off /\ strayed = Off /\ twice = Off /\ chosen = Off /\ address = Off
    /\ searching = Off /\ sieve = Off /\ drafted = Off /\ revising = Off
    /\ phone = Off /\ side = Off /\ rail = Off /\ enlarged = Off /\ touches = Off

NoExplore ==
    /\ lies = Off /\ here = Off /\ quest = Off /\ treeKey = Off /\ opened = Off
    /\ ticked = Off /\ anchor = Off /\ picked = Off /\ haunted = Off /\ box = Off
    /\ carried = Off /\ hush = Off /\ quiet = Off /\ menu = Off /\ move = Off
    /\ upset = Off /\ gestures = Off /\ reloads = Off

NoTalk ==
    /\ titles = Off /\ rows = Off /\ sessions = Off /\ current = Off /\ draft = Off
    /\ sent = Off /\ naming = Off /\ leaving = Off /\ deeds = Off /\ drifted = Off
    /\ strokes = Off

NoDesk ==
    /\ over = Off /\ depth = Off /\ overlay = Off /\ browser = Off /\ reads = Off
    /\ batches = Off /\ bad = Off /\ vanished = Off /\ moves = Off

NoViewer ==
    /\ there = Off /\ seen = Off /\ viewer = Off /\ held = Off /\ fetches = Off
    /\ query = Off /\ place = Off /\ tracker = Off /\ seeking = Off /\ typedIn = Off
    /\ swapped = Off /\ looks = Off

--------------------------------------------------------------------------------
OnlyTheEvals == UNCHANGED <<route, paneVars, exploreVars, talkVars, deskVars,
                            viewVars>>
OnlyThePane == UNCHANGED <<route, evalsVars, exploreVars, talkVars, deskVars,
                           viewVars>>
OnlyTheRows == UNCHANGED <<route, evalsVars, paneVars, talkVars, deskVars, viewVars>>
OnlyTheTalk == UNCHANGED <<route, evalsVars, paneVars, exploreVars, deskVars,
                           viewVars>>
OnlyTheDesk == UNCHANGED <<route, evalsVars, paneVars, exploreVars, talkVars,
                           viewVars>>
OnlyTheRead == UNCHANGED <<route, evalsVars, paneVars, exploreVars, talkVars,
                           deskVars>>

ViewsInit ==
    /\ route \in Routes
    /\ IF route = "evals" THEN Evals!EvalInit ELSE NoEvals
    /\ IF route = "pane" THEN Pane!PaneInit ELSE NoPane
    /\ IF route = "explorer" THEN Explore!ExplorerInit ELSE NoExplore
    /\ IF route = "chat" THEN Talk!ChatPaneInit ELSE NoTalk
    /\ IF route = "drop" THEN Desk!OsDropInit ELSE NoDesk
    /\ IF route = "viewer" THEN Read!ViewerInit ELSE NoViewer

EvalsStep == route = "evals" /\ Evals!EvalNext /\ OnlyTheEvals
PaneStep == route = "pane" /\ Pane!PaneNext /\ OnlyThePane
RowsStep == route = "explorer" /\ Explore!ExplorerNext /\ OnlyTheRows
TalkStep == route = "chat" /\ Talk!ChatPaneNext /\ OnlyTheTalk
DeskStep == route = "drop" /\ Desk!OsDropNext /\ OnlyTheDesk
ReadStep == route = "viewer" /\ Read!ViewerNext /\ OnlyTheRead

ViewsNext == EvalsStep \/ PaneStep \/ RowsStep \/ TalkStep \/ DeskStep \/ ReadStep

ViewsSpec == ViewsInit /\ [][ViewsNext]_viewsVars

--------------------------------------------------------------------------------
(* What the views promise, each while it is shown. *)

\* InternalEvalsPage: once the loads are in, the result in view is the one selected and that of
\* a job shown as finished is listed, unless loads overtook each other or failed.
EvalsShown == route = "evals" => Evals!ShownIsSelected /\ Evals!ResultListed

\* The runs pane: the end of a run that was seen at work is told, and once.
EndsTold == route = "pane" => Pane!EndsTold

\* FilesPage: the selection is of the folder that is open, and a row's menu acts on that row.
RowsChosen == route = "explorer" => Explore!RowsChosen

\* ChatPage: a mark opens its own source, and a text stays with its conversation.
ChatShown == route = "chat" => Talk!MarkOpensItsSource /\ Talk!DraftStays

\* externalDrop: a drop becomes its files, each in its folder, and the overlay follows the drag.
DropTaken == route = "drop" => Desk!DropWhole /\ Desk!OverlayFollows

\* FilesPage's preview: what the user is shown as the match is one, and what is searched for
\* was typed in this preview.
SearchMarked == route = "viewer" => Read!MatchMarked /\ Read!SearchEnds
================================================================================
