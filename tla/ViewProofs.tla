------------------------------- MODULE ViewProofs -------------------------------
(***************************************************************************)
(* Proofs about the views that keep a state of their own beside the data   *)
(* they show: the runs pane tells the end of a run that was seen at work,  *)
(* the rows chosen on the files page are of the folder that is open, the   *)
(* search in a preview marks what is shown, the evaluation page reviews    *)
(* the result selected, a mark in an answer opens its own source, and what *)
(* is dropped from the desktop becomes its files.                          *)
(* For any runs, requests, rows, results, marks, disks and bounds.         *)
(***************************************************************************)
EXTENDS Views, FiniteSetTheorems, SequenceTheorems, WellFoundedInduction, TLAPS

\* A visit stays on its page, and a step on a page is a step of that page.
LEMMA OnePage ==
    ASSUME [ViewsNext]_viewsVars
    PROVE  /\ route' = route
           /\ route = "pane" => Pane!PaneNext \/ UNCHANGED paneVars
           /\ route = "explorer" => Explore!ExplorerNext \/ UNCHANGED exploreVars
           /\ route = "viewer" => Read!ViewerNext \/ UNCHANGED viewVars
           /\ route = "evals" => Evals!EvalNext \/ UNCHANGED evalsVars
           /\ route = "chat" => Talk!ChatPaneNext \/ UNCHANGED talkVars
           /\ route = "drop" => Desk!OsDropNext \/ UNCHANGED deskVars
<1>1. CASE UNCHANGED viewsVars
  BY <1>1 DEF viewsVars
<1>2. CASE ViewsNext
  BY <1>2 DEF ViewsNext, EvalsStep, PaneStep, RowsStep, TalkStep, DeskStep, ReadStep, OnlyTheEvals,
    OnlyThePane, OnlyTheRows, OnlyTheTalk, OnlyTheDesk, OnlyTheRead
<1> QED
  BY <1>1, <1>2

--------------------------------------------------------------------------------
(* The runs pane. *)

Lists == [Runs -> Pane!Statuses \cup {Pane!Absent}]
MaybeRun == Runs \cup {Pane!Nobody}

\* Lists hold statuses, and what names a run names one or none.
PaneTypes ==
    /\ shelf \in Lists /\ inbox \in Lists
    /\ asking \in [Requests -> [st : {"idle", "asked", "answered"}, rows : Lists, loud : BOOLEAN]]
    /\ chosen \in MaybeRun /\ address \in MaybeRun /\ revising \in MaybeRun

\* The page compares a list with the one it showed before, and is to tell the end of just the
\* runs it shows at work, but for those that an older answer has touched.
PaneTold ==
    /\ noted = inbox
    /\ \A r \in Runs \ strayed : r \notin twice /\ (r \in due <=> inbox[r] \in Pane!Working)

PaneInv == PaneTypes /\ PaneTold

LEMMA TellStep ==
    ASSUME PaneInv, NEW new \in Lists, inbox' = new, Pane!Tell(new)
    PROVE  PaneTold'
<1>1. noted' = inbox'
  BY DEF Pane!Tell, Pane!Note
<1>2. ASSUME NEW r \in Runs, r \notin strayed'
      PROVE  r \notin twice' /\ (r \in due' <=> inbox'[r] \in Pane!Working)
  <2>1. r \notin strayed
    BY <1>2 DEF Pane!Tell
  <2>2. r \notin twice /\ (r \in due <=> inbox[r] \in Pane!Working) /\ noted[r] = inbox[r]
    BY <2>1 DEF PaneInv, PaneTold
  <2>3. /\ ~(/\ inbox[r] \in Pane!Statuses /\ new[r] \in {Pane!Absent} \cup Pane!Working
             /\ ~(inbox[r] \in Pane!Working /\ new[r] \in Pane!Working))
    BY <1>2 DEF Pane!Tell
  <2>4. inbox[r] \in Pane!Statuses \cup {Pane!Absent} /\ new[r] \in Pane!Statuses \cup {Pane!Absent}
    BY DEF PaneInv, PaneTypes, Lists
  <2> QED
    BY <2>2, <2>3, <2>4 DEF Pane!Tell, Pane!Ended, Pane!Statuses, Pane!Working, Pane!Over, Pane!Absent
<1> QED
  BY <1>1, <1>2 DEF PaneTold


LEMMA FollowTypes ==
    ASSUME NEW sel \in MaybeRun, NEW turned, address' \in MaybeRun, Pane!Follow(sel, turned)
    PROVE  chosen' \in MaybeRun
<1>1. Pane!Rows' \subseteq Runs
  BY DEF Pane!Rows, Pane!InList
<1> QED
  BY <1>1 DEF Pane!Follow, Pane!Choose, MaybeRun

\* The list is replaced by another.
LEMMA ListStep ==
    ASSUME PaneInv, NEW new \in Lists, NEW sel \in MaybeRun, NEW to \in MaybeRun, NEW turned,
           Pane!List(new, sel, to, turned), shelf' \in Lists,
           asking' \in [Requests -> [st : {"idle", "asked", "answered"}, rows : Lists, loud : BOOLEAN]]
    PROVE  PaneInv'
<1>1. inbox' = new /\ address' = to /\ revising' = revising /\ Pane!Tell(new)
  BY DEF Pane!List
<1>2. chosen' \in MaybeRun
  BY <1>1, FollowTypes DEF Pane!List
<1>3. PaneTypes'
  BY <1>1, <1>2 DEF PaneInv, PaneTypes
<1> QED
  BY <1>1, <1>3, TellStep DEF PaneInv

\* What only changes the view.
LEMMA LookStep ==
    ASSUME PaneInv, UNCHANGED <<shelf, inbox, asking, Pane!told>>,
           chosen' \in MaybeRun, address' \in MaybeRun, revising' \in MaybeRun
    PROVE  PaneInv'
BY DEF PaneInv, PaneTypes, PaneTold, Pane!told

\* The service and the polls.
LEMMA PollStep ==
    ASSUME PaneInv,
           \/ \E r \in Runs : Pane!Work(r)
           \/ \E p \in Requests : Pane!AskQuietly(p) \/ Pane!Answer(p) \/ Pane!Show(p)
                                  \/ Pane!Fail(p) \/ Pane!Retry(p)
    PROVE  PaneInv'
<1> USE DEF PaneInv, PaneTypes
<1> DEFINE Calls == [Requests -> [st : {"idle", "asked", "answered"}, rows : Lists, loud : BOOLEAN]]
<1>0. ASSUME UNCHANGED <<inbox, Pane!told, Pane!view>>, shelf' \in Lists, asking' \in Calls
      PROVE  PaneInv'
  BY <1>0 DEF PaneTold, Pane!told, Pane!view
<1>1. ASSUME NEW r \in Runs, Pane!Work(r)
      PROVE  PaneInv'
  <2>1. shelf' \in Lists /\ asking' \in Calls
    BY <1>1 DEF Pane!Work, Lists, Pane!Over, Pane!Working, Pane!Statuses
  <2> QED
    BY <1>0, <1>1, <2>1 DEF Pane!Work
<1>2. ASSUME NEW p \in Requests, NEW loud \in BOOLEAN, Pane!Ask(p, loud)
      PROVE  PaneInv'
  <2>1. shelf' \in Lists /\ asking' \in Calls
    BY <1>2 DEF Pane!Ask
  <2> QED
    BY <1>0, <1>2, <2>1 DEF Pane!Ask
<1>3. ASSUME NEW p \in Requests, Pane!Answer(p)
      PROVE  PaneInv'
  <2>1. shelf' \in Lists /\ asking' \in Calls
    BY <1>3 DEF Pane!Answer
  <2> QED
    BY <1>0, <1>3, <2>1 DEF Pane!Answer
<1>4. Pane!NoRuns \in Lists
  BY DEF Pane!NoRuns, Lists
<1>5. ASSUME NEW p \in Requests, Pane!Fail(p)
      PROVE  PaneInv'
  <2>1. shelf' \in Lists /\ asking' \in Calls
    BY <1>4, <1>5 DEF Pane!Fail
  <2> QED
    BY <1>0, <1>5, <2>1 DEF Pane!Fail
<1>6. ASSUME NEW p \in Requests, Pane!Show(p)
      PROVE  PaneInv'
  <2> DEFINE answer == asking[p].rows
             kept == IF address # Pane!Nobody /\ answer[address] = Pane!Absent
                     THEN [answer EXCEPT ![address] = inbox[address]] ELSE answer
  <2>1. shelf' \in Lists /\ asking' \in Calls
    BY <1>4, <1>6 DEF Pane!Show
  <2>2. answer \in Lists
    OBVIOUS
  <2>3. kept \in Lists
    BY <2>2 DEF Lists, MaybeRun
  <2>4. Pane!List(kept, chosen, address, side)
    BY <1>6 DEF Pane!Show
  <2> HIDE DEF kept
  <2> QED
    BY <2>1, <2>3, <2>4, ListStep
<1> QED
  BY <1>1, <1>2, <1>3, <1>5, <1>6 DEF Pane!AskQuietly, Pane!Retry

\* What the user does, and the end of a revision.
LEMMA UserStep ==
    ASSUME PaneInv,
           \/ \E r \in Runs : Pane!NewWorkflow(r) \/ Pane!ChooseRun(r)
           \/ \E f \in Pane!Sieves : Pane!Sieve(f)
           \/ Pane!Search \/ Pane!ClearView \/ Pane!TurnPanel \/ Pane!Collapse \/ Pane!Resize
           \/ Pane!Enlarge \/ Pane!EditOutput \/ Pane!Refine \/ Pane!Refined
    PROVE  PaneInv'
<1> USE DEF PaneInv, PaneTypes
<1>1. ASSUME NEW r \in Runs, Pane!NewWorkflow(r)
      PROVE  PaneInv'
  <2> DEFINE new == [inbox EXCEPT ![r] = "queued"]
             turned == IF phone THEN "details" ELSE side
  <2>1. new \in Lists /\ shelf' \in Lists
    BY <1>1 DEF Pane!NewWorkflow, Lists, Pane!Statuses, Pane!Working
  <2>2. Pane!List(new, r, r, turned) /\ UNCHANGED asking /\ r \in MaybeRun
    BY <1>1 DEF Pane!NewWorkflow, MaybeRun
  <2> HIDE DEF new, turned
  <2> QED
    BY <2>1, <2>2, ListStep
<1>2. ASSUME NEW r \in Runs, Pane!ChooseRun(r)
      PROVE  PaneInv'
  <2>1. address' = r /\ revising' = revising /\ r \in MaybeRun
    BY <1>2 DEF Pane!ChooseRun, MaybeRun
  <2>2. chosen' \in MaybeRun
    BY <1>2, <2>1, FollowTypes DEF Pane!ChooseRun
  <2> QED
    BY <1>2, <2>1, <2>2, LookStep DEF Pane!ChooseRun, Pane!OnlyView
<1>3. ASSUME (\E f \in Pane!Sieves : Pane!Sieve(f)) \/ Pane!Search \/ Pane!ClearView \/ Pane!EditOutput
      PROVE  PaneInv'
  <2>1. address' = address /\ revising' = revising /\ Pane!OnlyView /\ Pane!Follow(chosen, side)
    BY <1>3 DEF Pane!Sieve, Pane!Search, Pane!ClearView, Pane!EditOutput
  <2>2. chosen' \in MaybeRun
    BY <2>1, FollowTypes
  <2> QED
    BY <2>1, <2>2, LookStep DEF Pane!OnlyView
<1>4. ASSUME Pane!TurnPanel \/ Pane!Collapse \/ Pane!Resize \/ Pane!Enlarge
      PROVE  PaneInv'
  BY <1>4, LookStep DEF Pane!TurnPanel, Pane!Collapse, Pane!Resize, Pane!Enlarge, Pane!OnlyView
<1>5. CASE Pane!Refine
  <2>1. address' = address /\ revising' = chosen /\ Pane!OnlyView /\ Pane!Follow(chosen, side)
    BY <1>5 DEF Pane!Refine
  <2>2. chosen' \in MaybeRun
    BY <2>1, FollowTypes
  <2> QED
    BY <2>1, <2>2, LookStep DEF Pane!OnlyView
<1>6. CASE Pane!Refined
  <2>1. revising' = Pane!Nobody /\ revising' \in MaybeRun /\ UNCHANGED <<shelf, inbox, asking, Pane!told>>
    BY <1>6 DEF Pane!Refined, MaybeRun
  <2>2. PICK to \in {address, revising} :
          address' = to /\ Pane!Follow(IF to = revising THEN revising ELSE chosen,
                                       IF to = revising /\ phone THEN "details" ELSE side)
    BY <1>6 DEF Pane!Refined
  <2>3. chosen' \in MaybeRun /\ address' \in MaybeRun
    BY <2>2, FollowTypes
  <2> QED
    BY <2>1, <2>3, LookStep
<1> QED
  BY <1>1, <1>2, <1>3, <1>4, <1>5, <1>6

LEMMA PaneStart == Pane!PaneInit => PaneInv
BY DEF Pane!PaneInit, PaneInv, PaneTypes, PaneTold, Lists, MaybeRun, Pane!NoRuns, Pane!Statuses,
  Pane!Working, Pane!Over, Pane!Absent, Pane!Nobody

THEOREM PaneInductive == ViewsSpec => [](route = "pane" => PaneInv)
<1>1. ViewsInit => (route = "pane" => PaneInv)
  BY PaneStart DEF ViewsInit
<1>2. ASSUME route = "pane" => PaneInv, [ViewsNext]_viewsVars
      PROVE  (route = "pane" => PaneInv)'
  <2> SUFFICES ASSUME route = "pane"
               PROVE  PaneInv'
    BY <1>2, OnePage
  <2>1. CASE UNCHANGED paneVars
    BY <1>2, <2>1 DEF paneVars, PaneInv, PaneTypes, PaneTold
  <2>2. CASE Pane!PaneNext
    BY <1>2, <2>2, PollStep, UserStep DEF Pane!PaneNext
  <2> QED
    BY <1>2, <2>1, <2>2, OnePage
<1> QED
  BY <1>1, <1>2, PTL DEF ViewsSpec

\* WorkflowsPage: the end of a run the user saw at work is told, and once, whatever the order in
\* which the polls are answered, unless an older answer has touched the run.
THEOREM EndsAreTold == ViewsSpec => []EndsTold
<1>1. (route = "pane" => PaneInv) => EndsTold
  BY DEF PaneInv, PaneTold, EndsTold, Pane!EndsTold, Pane!Over, Pane!Working
<1> QED
  BY <1>1, PaneInductive, PTL

--------------------------------------------------------------------------------
(* The rows of the files page. *)

Spots == Explore!Rows \cup {Explore!Root, Explore!Gone}
Folders == Dirs \cup {Explore!Root}

BoxStates == [st : {"none", "down", "drag"}, union : BOOLEAN, base : SUBSET Explore!Rows,
              last : SUBSET (Explore!Rows \cup {Explore!None}), left : BOOLEAN]

MoveStates == [kind : {"folders", "files"}, ids : SUBSET Explore!Rows, left : BOOLEAN,
               lies : [Explore!Rows -> Spots], here : Folders, ticked : SUBSET Explore!Rows,
               key : Folders, renamed : BOOLEAN]

RowTypes ==
    /\ lies \in [Explore!Rows -> Spots] /\ here \in Folders /\ treeKey \in Folders
    /\ ticked \subseteq Explore!Rows
    /\ box \in BoxStates
    /\ move = Explore!NoMove \/ move \in MoveStates

\* A drag-box, a drag and an open menu exclude each other, and a drag carries folders or files.
OneGesture ==
    /\ menu # Explore!None \/ carried # {} => box = Explore!NoBox
    /\ carried # {} => menu = Explore!None
    /\ carried \subseteq Dirs \/ carried \subseteq Explore!Documents

\* What a box or a refused move of files will bring back was chosen here too, unless the folder
\* has been left since.
BroughtBack ==
    /\ haunted \/ box.left \/ box.base \subseteq picked
    /\ move.kind = "files" => haunted \/ move.left \/ move.ticked \subseteq picked

RowsInv == RowTypes /\ OneGesture /\ BroughtBack /\ Explore!RowsChosen

LEMMA RowFacts ==
    /\ Dirs \subseteq Explore!Rows /\ Explore!Shown \subseteq Explore!Rows
    /\ {Explore!Root, Explore!Gone, Explore!None, Explore!Background} \cap Explore!Rows = {}
    /\ Explore!NoBox \in BoxStates /\ Explore!NoMove.kind = Explore!None
    /\ FirstPlace \in [Explore!Rows -> Spots]
<1>1. Explore!Rows = {Order[n] : n \in DOMAIN Order}
  BY DEF Explore!Rows, Explore!ToSet
<1> QED
  BY <1>1, RowsAssumption DEF Explore!Shown, Explore!Root, Explore!Gone, Explore!None,
    Explore!Background, Explore!NoBox, Explore!NoMove, BoxStates, Spots

\* A click chooses rows that are shown, the row itself among them but when it takes it away.
LEMMA TicksRows ==
    ASSUME NEW i \in Explore!Rows, NEW mods, ticked \subseteq Explore!Rows, lies \in [Explore!Rows -> Spots]
    PROVE  /\ Explore!Ticks(i, mods) \subseteq Explore!Rows
           /\ i \in Explore!Shown /\ i \notin ticked => i \in Explore!Ticks(i, mods)
<1> DEFINE at(j) == CHOOSE n \in 1 .. Len(Order) : Order[n] = j
<1>1. ASSUME NEW j \in Explore!Rows
      PROVE  at(j) \in Nat
  <2>1. DOMAIN Order = 1 .. Len(Order) /\ Len(Order) \in Nat
    BY RowsAssumption
  <2>2. \E n \in 1 .. Len(Order) : Order[n] = j
    BY <2>1 DEF Explore!Rows, Explore!ToSet
  <2>3. at(j) \in 1 .. Len(Order)
    BY <2>2
  <2> HIDE DEF at
  <2> QED
    BY <2>1, <2>3
<1>2. ASSUME i \in Explore!Shown, NEW a \in Explore!Shown
      PROVE  i \in Explore!Between(a, i)
  <2>1. at(a) \in Nat /\ at(i) \in Nat
    BY <1>1, <1>2, RowFacts
  <2> HIDE DEF at
  <2>2. \/ at(a) =< at(i) /\ at(i) =< at(i)
        \/ at(i) =< at(i) /\ at(i) =< at(a)
    BY <2>1
  <2> USE DEF at
  <2> QED
    BY <1>2, <2>2, Zenon DEF Explore!Between
<1>3. \A a, b : Explore!Between(a, b) \subseteq Explore!Rows
  BY RowFacts DEF Explore!Between
<1> HIDE DEF at
<1> QED
  BY <1>2, <1>3 DEF Explore!Ticks

\* A click chooses rows of the folder that is open.
LEMMA SelectStep ==
    ASSUME RowTypes, Explore!ChosenHere, NEW i \in Explore!Rows, NEW mods, Explore!SelectByKey(i, mods)
    PROVE  /\ ticked' \subseteq Explore!Rows /\ Explore!ChosenHere' /\ haunted' = haunted
           /\ picked \subseteq picked'
           /\ i \in Explore!Shown /\ i \notin ticked => i \in ticked'
<1>1. /\ Explore!Ticks(i, mods) \subseteq Explore!Rows
      /\ i \in Explore!Shown /\ i \notin ticked => i \in Explore!Ticks(i, mods)
  BY TicksRows DEF RowTypes
<1> QED
  BY <1>1 DEF Explore!SelectByKey, Explore!ChosenHere

\* A step that chooses rows, or none, and leaves boxes and moves alone, keeps what they bring back.
LEMMA KeepStep ==
    ASSUME RowsInv, UNCHANGED <<Explore!seen, move, haunted>>, box' \in {box, Explore!NoBox},
           ticked' \subseteq Explore!Rows, picked \subseteq picked'
    PROVE  RowTypes' /\ BroughtBack'
<1>1. RowTypes'
  BY RowFacts DEF RowsInv, RowTypes, Explore!seen
<1>2. Explore!NoBox.base = {}
  BY DEF Explore!NoBox
<1>3. BroughtBack'
  BY <1>2 DEF RowsInv, BroughtBack
<1> QED
  BY <1>1, <1>3

\* Clicks and menus.
LEMMA ClickStep ==
    ASSUME RowsInv,
           \/ \E i \in Explore!Rows, mods \in Explore!Mods : Explore!ClickRow(i, mods) \/ Explore!OpenMenu(i, mods)
           \/ \E i \in Explore!Rows : Explore!DragRow(i)
           \/ Explore!OpenBackgroundMenu \/ Explore!ClickBackground
    PROVE  RowsInv'
<1> USE DEF RowsInv, Explore!RowsChosen
<1>1. ASSUME NEW i \in Explore!Rows, NEW mods, Explore!ClickRow(i, mods)
      PROVE  RowsInv'
  <2>1. ticked' \subseteq Explore!Rows /\ Explore!ChosenHere' /\ haunted' = haunted /\ picked \subseteq picked'
    BY <1>1, SelectStep DEF Explore!ClickRow
  <2>2. RowTypes' /\ BroughtBack'
    BY <1>1, <2>1, KeepStep DEF Explore!ClickRow
  <2>3. OneGesture' /\ Explore!MenuOnChosen'
    BY <1>1, RowFacts DEF Explore!ClickRow, Explore!Free, OneGesture, Explore!MenuOnChosen
  <2> QED
    BY <2>1, <2>2, <2>3
<1>2. ASSUME NEW i \in Explore!Rows, NEW mods, Explore!OpenMenu(i, mods)
      PROVE  RowsInv'
  <2>1. i \in Explore!Shown
    BY <1>2 DEF Explore!OpenMenu, Explore!RowOffered, Explore!FolderRowOffered, Explore!FileRowOffered
  <2>2. /\ ticked' \subseteq Explore!Rows /\ Explore!ChosenHere' /\ haunted' = haunted
        /\ picked \subseteq picked' /\ Explore!MenuOnChosen'
    <3>1. CASE Explore!MenuSelects(i, mods)
      <4>1. CASE i \in ticked
        BY <1>2, <3>1, <4>1 DEF Explore!OpenMenu, Explore!MenuSelects, Explore!marks, RowTypes,
          Explore!ChosenHere, Explore!MenuOnChosen
      <4>2. CASE i \notin ticked
        BY <1>2, <2>1, <3>1, <4>2, SelectStep DEF Explore!OpenMenu, Explore!MenuSelects, Explore!MenuOnChosen
      <4> QED
        BY <4>1, <4>2
    <3>2. CASE hush /\ i \in Dirs
      BY <1>2, <3>2 DEF Explore!OpenMenu, Explore!marks, RowTypes, Explore!ChosenHere, Explore!MenuOnChosen
    <3> QED
      BY <1>2, <3>1, <3>2 DEF Explore!OpenMenu
  <2>3. RowTypes' /\ BroughtBack'
    BY <1>2, <2>2, KeepStep DEF Explore!OpenMenu, Explore!EndBox
  <2>4. OneGesture'
    BY <1>2 DEF Explore!OpenMenu, Explore!EndBox, OneGesture
  <2> QED
    BY <2>2, <2>3, <2>4
<1>3. ASSUME NEW i \in Explore!Rows, Explore!DragRow(i)
      PROVE  RowsInv'
  <2>1. ticked' \subseteq Explore!Rows /\ Explore!ChosenHere' /\ haunted' = haunted /\ picked \subseteq picked'
    <3>1. CASE i \in ticked
      BY <1>3, <3>1 DEF Explore!DragRow, Explore!marks, RowTypes, Explore!ChosenHere
    <3>2. CASE i \notin ticked
      BY <1>3, <3>2, SelectStep DEF Explore!DragRow
    <3> QED
      BY <3>1, <3>2
  <2>2. RowTypes' /\ BroughtBack'
    BY <1>3, <2>1, KeepStep DEF Explore!DragRow
  <2>3. carried' \subseteq Dirs \/ carried' \subseteq Explore!Documents
    BY <1>3 DEF Explore!DragRow, Explore!Carries, Explore!Documents
  <2>4. OneGesture' /\ Explore!MenuOnChosen'
    BY <1>3, <2>3, RowFacts DEF Explore!DragRow, Explore!Free, OneGesture, Explore!MenuOnChosen
  <2> QED
    BY <2>1, <2>2, <2>4
<1>4. CASE Explore!OpenBackgroundMenu \/ Explore!ClickBackground
  <2>1. ticked' \subseteq Explore!Rows /\ Explore!ChosenHere' /\ haunted' = haunted /\ picked \subseteq picked'
    BY <1>4 DEF Explore!OpenBackgroundMenu, Explore!ClickBackground, Explore!ClearSelection, Explore!marks,
      RowTypes, Explore!ChosenHere
  <2>2. RowTypes' /\ BroughtBack'
    BY <1>4, <2>1, KeepStep DEF Explore!OpenBackgroundMenu, Explore!ClickBackground, Explore!EndBox
  <2>3. OneGesture' /\ Explore!MenuOnChosen'
    BY <1>4, RowFacts DEF Explore!OpenBackgroundMenu, Explore!ClickBackground, Explore!EndBox, Explore!Free,
      OneGesture, Explore!MenuOnChosen
  <2> QED
    BY <2>1, <2>2, <2>3
<1> QED
  BY <1>1, <1>2, <1>3, <1>4

\* What leaves the choice as it is.
LEMMA IdleRows ==
    ASSUME RowsInv,
           \/ Explore!CloseMenu \/ Explore!Settle \/ Explore!SearchRows \/ Explore!DropNowhere
           \/ \E d \in Folders : Explore!ToggleTreeFolder(d) \/ Explore!DragTreeFolder(d)
    PROVE  RowsInv'
<1>1. /\ UNCHANGED <<lies, here, treeKey, ticked, picked, haunted, box, move>>
      /\ carried' = {} \/ carried' = carried
                           \/ (\E d \in Dirs : carried' = {d} /\ Explore!Free /\ box = Explore!NoBox)
      /\ (menu' = menu /\ upset' = upset) \/ menu' = Explore!None
  BY DEF Explore!CloseMenu, Explore!Settle, Explore!SearchRows, Explore!DropNowhere, Explore!ToggleTreeFolder,
    Explore!DragTreeFolder, Explore!TreeRowOffered, Explore!TreeShown, Explore!seen, Explore!marks
<1>2. RowTypes' /\ BroughtBack' /\ Explore!ChosenHere'
  BY <1>1 DEF RowsInv, RowTypes, BroughtBack, Explore!RowsChosen, Explore!ChosenHere
<1>3. OneGesture' /\ Explore!MenuOnChosen'
  BY <1>1, RowFacts DEF RowsInv, OneGesture, Explore!RowsChosen, Explore!MenuOnChosen, Explore!Free
<1> QED
  BY <1>2, <1>3 DEF RowsInv, Explore!RowsChosen

\* The drag-box, which no menu and no drag is open under.
LEMMA BoxStep ==
    ASSUME RowsInv,
           \/ \E union \in BOOLEAN : Explore!PressBox(union)
           \/ \E hit \in SUBSET Explore!Rows : Explore!GrowBox(hit)
           \/ Explore!StartBox \/ Explore!ReleaseBox \/ Explore!LoseBox
    PROVE  RowsInv'
<1> USE DEF RowsInv, Explore!RowsChosen
<1>1. ASSUME UNCHANGED <<Explore!seen, move, carried, menu, upset>>, menu = Explore!None, carried = {},
             box' \in BoxStates, ticked' \subseteq Explore!Rows, Explore!ChosenHere', BroughtBack'
      PROVE  RowsInv'
  BY <1>1, RowFacts DEF Explore!seen, RowTypes, OneGesture, Explore!MenuOnChosen
<1>2. box # Explore!NoBox => menu = Explore!None /\ carried = {}
  BY DEF OneGesture
<1>3. ASSUME NEW union \in BOOLEAN, Explore!PressBox(union)
      PROVE  RowsInv'
  <2>1. box' \in BoxStates /\ box'.base = ticked
    BY <1>3 DEF Explore!PressBox, BoxStates, RowTypes, Explore!Unset
  <2>2. Explore!ChosenHere' /\ BroughtBack' /\ ticked' = ticked
    BY <1>3, <2>1 DEF Explore!PressBox, Explore!marks, Explore!ChosenHere, BroughtBack
  <2> QED
    BY <1>1, <1>3, <2>1, <2>2 DEF Explore!PressBox, Explore!Free, RowTypes
<1>4. CASE Explore!StartBox
  <2>1. box # Explore!NoBox /\ box' \in BoxStates /\ box'.base = box.base /\ box'.left = box.left
    BY <1>4 DEF Explore!StartBox, BoxStates, RowTypes, Explore!NoBox
  <2>2. Explore!ChosenHere' /\ BroughtBack' /\ ticked' \subseteq Explore!Rows
    BY <1>4, <2>1 DEF Explore!StartBox, Explore!ChosenHere, BroughtBack, RowTypes
  <2> QED
    BY <1>1, <1>2, <1>4, <2>1, <2>2 DEF Explore!StartBox
<1>5. ASSUME NEW hit \in SUBSET Explore!Rows, Explore!GrowBox(hit)
      PROVE  RowsInv'
  <2> DEFINE boxed == hit \cup (IF box.union THEN box.base ELSE {})
  <2>1. boxed \subseteq Explore!Rows
    BY DEF RowTypes, BoxStates
  <2>2. box # Explore!NoBox /\ box' \in BoxStates /\ box'.base = box.base /\ box'.left = box.left
    BY <1>5, <2>1 DEF Explore!GrowBox, BoxStates, RowTypes, Explore!NoBox
  <2>3. /\ ticked' = boxed /\ picked' = picked \cup hit
        /\ haunted' = (haunted \/ (box.union /\ box.left))
    BY <1>5 DEF Explore!GrowBox
  <2>4. Explore!ChosenHere'
    BY <2>3 DEF Explore!ChosenHere, BroughtBack
  <2>5. BroughtBack'
    BY <1>5, <2>2, <2>3 DEF Explore!GrowBox, BroughtBack
  <2> QED
    BY <1>1, <1>2, <1>5, <2>1, <2>2, <2>3, <2>4, <2>5 DEF Explore!GrowBox
<1>6. CASE Explore!ReleaseBox \/ Explore!LoseBox
  <2>1. box # Explore!NoBox /\ box' = Explore!NoBox /\ box' \in BoxStates /\ box'.base = {}
    <3>1. Explore!NoBox.st = "none" /\ Explore!NoBox.base = {}
      BY DEF Explore!NoBox
    <3> QED
      BY <1>6, <3>1, RowFacts DEF Explore!ReleaseBox, Explore!LoseBox, Explore!EndBox
  <2>2. Explore!ChosenHere' /\ ticked' \subseteq Explore!Rows /\ UNCHANGED <<haunted, picked, move>>
    BY <1>6 DEF Explore!ReleaseBox, Explore!LoseBox, Explore!ClearSelection, Explore!marks, Explore!ChosenHere,
      RowTypes
  <2>3. BroughtBack'
    BY <2>1, <2>2 DEF BroughtBack
  <2> QED
    BY <1>1, <1>2, <1>6, <2>1, <2>2, <2>3 DEF Explore!ReleaseBox, Explore!LoseBox
<1> QED
  BY <1>3, <1>4, <1>5, <1>6

--------------------------------------------------------------------------------
(* Other folders, moves and answers. *)

\* A folder that is left takes its choice along, and marks the box that is open over it.
LEMMA LeaveStep ==
    ASSUME RowsInv, NEW to \in Folders, NEW renamed \in BOOLEAN, Explore!Leave(to, renamed)
    PROVE  /\ here' \in Folders /\ ticked' \subseteq Explore!Rows
           /\ IF to = here /\ ~renamed THEN UNCHANGED <<ticked, picked>> ELSE ticked' = {} /\ picked' = {}
BY DEF Explore!Leave, RowsInv, RowTypes

LEMMA LeftBox ==
    ASSUME RowsInv, NEW to, NEW renamed \in BOOLEAN, haunted' = haunted,
           IF to = here /\ ~renamed THEN picked' = picked ELSE picked' = {},
           box' = IF box = Explore!NoBox THEN Explore!NoBox ELSE Explore!Left(to, renamed, box)
    PROVE  /\ box' \in BoxStates /\ (box = Explore!NoBox => box' = Explore!NoBox)
           /\ haunted' \/ box'.left \/ box'.base \subseteq picked'
<1>1. CASE box = Explore!NoBox
  <2>1. Explore!NoBox.base = {}
    BY DEF Explore!NoBox
  <2> QED
    BY <1>1, <2>1, RowFacts
<1>2. CASE box # Explore!NoBox
  <2>1. box' = [box EXCEPT !.left = box.left \/ to # here \/ renamed]
    BY <1>2 DEF Explore!Left
  <2>2. box \in BoxStates
    BY DEF RowsInv, RowTypes
  <2>3. box' \in BoxStates /\ box'.base = box.base /\ box'.left = (box.left \/ to # here \/ renamed)
    BY <2>1, <2>2 DEF BoxStates
  <2> QED
    BY <1>2, <2>3 DEF RowsInv, BroughtBack
<1> QED
  BY <1>1, <1>2

LEMMA LeftMove ==
    ASSUME RowsInv, NEW to, haunted' = haunted, IF to = here THEN picked' = picked ELSE picked' = {},
           move' = IF move = Explore!NoMove THEN Explore!NoMove ELSE Explore!Left(to, FALSE, move)
    PROVE  /\ move' = Explore!NoMove \/ move' \in MoveStates
           /\ move'.kind = "files" => haunted' \/ move'.left \/ move'.ticked \subseteq picked'
<1>1. CASE move = Explore!NoMove
  BY <1>1, RowFacts DEF Explore!None
<1>2. CASE move # Explore!NoMove
  <2>1. move' = [move EXCEPT !.left = move.left \/ to # here \/ FALSE]
    BY <1>2 DEF Explore!Left
  <2>2. move \in MoveStates
    BY <1>2 DEF RowsInv, RowTypes
  <2>3. move' \in MoveStates /\ move'.ticked = move.ticked /\ move'.left = (move.left \/ to # here)
        /\ move'.kind = move.kind
    BY <2>1, <2>2 DEF MoveStates
  <2> QED
    BY <1>2, <2>3 DEF RowsInv, BroughtBack
<1> QED
  BY <1>1, <1>2

LEMMA GoStep ==
    ASSUME RowsInv, NEW to \in Folders, Explore!Go(to), carried = {}, treeKey' \in Folders
    PROVE  RowsInv'
<1>1. /\ Explore!Leave(to, FALSE) /\ menu' = Explore!None /\ UNCHANGED <<haunted, lies, carried>>
      /\ box' = IF box = Explore!NoBox THEN Explore!NoBox ELSE Explore!Left(to, FALSE, box)
      /\ move' = IF move = Explore!NoMove THEN Explore!NoMove ELSE Explore!Left(to, FALSE, move)
  BY DEF Explore!Go
<1>2. /\ here' \in Folders /\ ticked' \subseteq Explore!Rows
      /\ IF to = here THEN UNCHANGED <<ticked, picked>> ELSE ticked' = {} /\ picked' = {}
  BY <1>1, LeaveStep
<1>3. box' \in BoxStates /\ (haunted' \/ box'.left \/ box'.base \subseteq picked')
  BY <1>1, <1>2, LeftBox
<1>4. /\ move' = Explore!NoMove \/ move' \in MoveStates
      /\ move'.kind = "files" => haunted' \/ move'.left \/ move'.ticked \subseteq picked'
  BY <1>1, <1>2, LeftMove
<1>5. RowTypes' /\ BroughtBack'
  BY <1>1, <1>2, <1>3, <1>4 DEF RowsInv, RowTypes, BroughtBack
<1>6. Explore!ChosenHere' /\ Explore!MenuOnChosen'
  BY <1>1, <1>2, RowFacts DEF RowsInv, Explore!RowsChosen, Explore!ChosenHere, Explore!MenuOnChosen
<1>7. OneGesture'
  BY <1>1 DEF OneGesture
<1> QED
  BY <1>5, <1>6, <1>7 DEF RowsInv, Explore!RowsChosen

LEMMA FolderStep ==
    ASSUME RowsInv, NEW d \in Folders,
           Explore!OpenFolder(d) \/ Explore!OpenTreeFolder(d) \/ Explore!OpenTreeMenu(d)
    PROVE  RowsInv'
<1>1. carried = {} /\ Explore!Go(d)
  BY DEF Explore!OpenFolder, Explore!OpenTreeFolder, Explore!OpenTreeMenu, Explore!Free
<1>2. treeKey' \in Folders
  BY DEF Explore!OpenFolder, Explore!OpenTreeFolder, Explore!OpenTreeMenu, RowsInv, RowTypes
<1> QED
  BY <1>1, <1>2, GoStep


\* Rows are dropped on a folder: a move of files leaves the choice, one of folders drops it when
\* the folder that is open goes with them.
LEMMA DropStep ==
    ASSUME RowsInv, NEW dest \in Folders, Explore!Drop(dest)
    PROVE  RowsInv'
<1> DEFINE ids == Explore!Movable(carried, dest)
           renamed == here \in Explore!Under(lies, ids \cap Dirs)
<1>1. /\ menu = Explore!None /\ box = Explore!NoBox /\ carried' = {}
      /\ UNCHANGED <<treeKey, box, menu, upset>>
  BY DEF RowsInv, OneGesture, Explore!Drop
<1>2. OneGesture' /\ Explore!MenuOnChosen'
  BY <1>1, RowFacts DEF OneGesture, Explore!MenuOnChosen
<1>3. CASE UNCHANGED <<lies, here, Explore!marks, move>>
  BY <1>1, <1>2, <1>3 DEF RowsInv, RowTypes, BroughtBack, Explore!RowsChosen, Explore!ChosenHere, Explore!marks
<1>4. CASE move = Explore!NoMove /\ Explore!Begin(ids, dest)
  <2>1. ids \subseteq carried /\ ids \subseteq Explore!Rows
    BY RowFacts DEF Explore!Movable, RowsInv, OneGesture, Explore!Documents
  <2>2. renamed \in BOOLEAN
    OBVIOUS
  <2>3. ~(ids \subseteq Dirs) => ~renamed
    <3>1. ASSUME ~(ids \subseteq Dirs)
          PROVE  ids \cap Dirs = {}
      BY <2>1, <3>1 DEF RowsInv, OneGesture, Explore!Documents
    <3>2. Explore!Under(lies, {}) = {}
      BY DEF Explore!Under
    <3> QED
      BY <3>1, <3>2
  <2> HIDE DEF ids
  <2>4. /\ lies' = [i \in Explore!Rows |-> IF i \in ids THEN dest ELSE lies[i]]
        /\ Explore!Leave(here, renamed) /\ haunted' = haunted
        /\ move' = [kind |-> IF ids \subseteq Dirs THEN "folders" ELSE "files", ids |-> ids,
                    left |-> FALSE, lies |-> lies, here |-> here, ticked |-> ticked, key |-> treeKey,
                    renamed |-> renamed]
    BY <1>4 DEF Explore!Begin
  <2> HIDE DEF renamed
  <2>5. /\ here' \in Folders /\ ticked' \subseteq Explore!Rows
        /\ IF ~renamed THEN UNCHANGED <<ticked, picked>> ELSE ticked' = {} /\ picked' = {}
    <3>1. here \in Folders
      BY DEF RowsInv, RowTypes
    <3> QED
      BY <2>2, <2>4, <3>1, LeaveStep
  <2>6. lies' \in [Explore!Rows -> Spots]
    BY <2>4, RowFacts DEF RowsInv, RowTypes, Spots, Folders
  <2>7. move' \in MoveStates
    BY <2>1, <2>2, <2>4 DEF MoveStates, RowsInv, RowTypes
  <2>8. RowTypes'
    BY <1>1, <2>5, <2>6, <2>7 DEF RowsInv, RowTypes
  <2>9. BroughtBack' /\ Explore!ChosenHere'
    <3>1. Explore!NoBox.base = {}
      BY DEF Explore!NoBox
    <3>2. Explore!ChosenHere'
      BY <2>4, <2>5 DEF RowsInv, Explore!RowsChosen, Explore!ChosenHere
    <3>3. move'.kind = "files" => move'.ticked \subseteq picked' \/ haunted'
      BY <2>3, <2>4, <2>5 DEF RowsInv, Explore!RowsChosen, Explore!ChosenHere
    <3> QED
      BY <1>1, <3>1, <3>2, <3>3 DEF BroughtBack
  <2> QED
    BY <1>2, <2>8, <2>9 DEF RowsInv, Explore!RowsChosen
<1> QED
  BY <1>3, <1>4 DEF Explore!Drop

LEMMA ListingsTypes ==
    ASSUME NEW spots \in [Explore!Rows -> Spots], NEW new \in Explore!Listings(spots), NEW d \in Folders
    PROVE  new \in [Explore!Rows -> Spots] /\ Explore!Kept(new, d) \in Folders
BY DEF Explore!Listings, Explore!Kept, Spots, Folders

\* The menu of a row that is no longer shown closes, and one that stays is told of a selection
\* that went.
LEMMA MenuStep ==
    ASSUME RowsInv, menu' = IF Explore!Stays(menu) THEN menu ELSE Explore!None,
           UNCHANGED carried, box = Explore!NoBox => box' = Explore!NoBox,
           NEW lost \in BOOLEAN, upset' = (menu' # Explore!None /\ (upset \/ (Explore!Below /\ lost))),
           ~lost => ticked' = ticked
    PROVE  OneGesture' /\ Explore!MenuOnChosen'
BY RowFacts DEF RowsInv, OneGesture, Explore!RowsChosen, Explore!MenuOnChosen, Explore!Below

LEMMA ReloadStep ==
    ASSUME RowsInv, Explore!Reload
    PROVE  RowsInv'
<1>1. /\ move = Explore!NoMove /\ UNCHANGED <<haunted, treeKey, carried, move>>
      /\ lies' \in Explore!Listings(lies) /\ Explore!Leave(Explore!Kept(lies', here), FALSE)
      /\ box' = IF box = Explore!NoBox THEN Explore!NoBox ELSE Explore!Left(here', FALSE, box)
      /\ menu' = IF Explore!Stays(menu) THEN menu ELSE Explore!None
      /\ upset' = (menu' # Explore!None /\ (upset \/ (Explore!Below /\ here' # here)))
  BY DEF Explore!Reload
<1>2. lies' \in [Explore!Rows -> Spots] /\ Explore!Kept(lies', here) \in Folders
  BY <1>1, ListingsTypes DEF RowsInv, RowTypes
<1>3. /\ here' \in Folders /\ ticked' \subseteq Explore!Rows
      /\ IF here' = here THEN UNCHANGED <<ticked, picked>> ELSE ticked' = {} /\ picked' = {}
  <2>1. here' = Explore!Kept(lies', here)
    BY <1>1 DEF Explore!Leave
  <2> QED
    BY <1>1, <1>2, <2>1, LeaveStep
<1>4. box' \in BoxStates /\ (haunted' \/ box'.left \/ box'.base \subseteq picked')
  BY <1>1, <1>3, LeftBox
<1>5. RowTypes' /\ BroughtBack'
  BY <1>1, <1>2, <1>3, <1>4, RowFacts DEF RowsInv, RowTypes, BroughtBack, Explore!None
<1>6. Explore!ChosenHere'
  BY <1>1, <1>3 DEF RowsInv, Explore!RowsChosen, Explore!ChosenHere
<1>7. OneGesture' /\ Explore!MenuOnChosen'
  BY <1>1, <1>3, MenuStep
<1> QED
  BY <1>5, <1>6, <1>7 DEF RowsInv, Explore!RowsChosen

LEMMA MovedStep ==
    ASSUME RowsInv, Explore!Moved
    PROVE  RowsInv'
<1>1. /\ move # Explore!NoMove /\ move' = Explore!NoMove /\ UNCHANGED <<haunted, treeKey, carried>>
      /\ ticked' = {} /\ picked' = IF here' = here THEN picked ELSE {}
      /\ box' = IF box = Explore!NoBox THEN Explore!NoBox ELSE Explore!Left(here', FALSE, box)
      /\ menu' = IF Explore!Stays(menu) THEN menu ELSE Explore!None
      /\ upset' = (menu' # Explore!None /\ (upset \/ (Explore!Below /\ TRUE)))
  BY DEF Explore!Moved
<1>2. move \in MoveStates
  BY <1>1 DEF RowsInv, RowTypes
<1>3. lies' \in [Explore!Rows -> Spots]
  <2>1. PICK back \in Explore!Refused :
          lies' \in Explore!Listings([i \in Explore!Rows |-> IF i \in back THEN move.lies[i] ELSE lies[i]])
    BY DEF Explore!Moved
  <2>2. [i \in Explore!Rows |-> IF i \in back THEN move.lies[i] ELSE lies[i]] \in [Explore!Rows -> Spots]
    BY <1>2 DEF MoveStates, RowsInv, RowTypes
  <2>3. here \in Folders
    BY DEF RowsInv, RowTypes
  <2> QED
    BY <2>1, <2>2, <2>3, ListingsTypes
<1>4. here' \in Folders
  BY DEF Explore!Moved, RowsInv, RowTypes, Folders
<1>5. box' \in BoxStates /\ (haunted' \/ box'.left \/ box'.base \subseteq picked')
  BY <1>1, LeftBox
<1>6. RowTypes' /\ BroughtBack'
  BY <1>1, <1>3, <1>4, <1>5, RowFacts DEF RowsInv, RowTypes, BroughtBack, Explore!None
<1>7. OneGesture' /\ Explore!MenuOnChosen'
  BY <1>1, MenuStep
<1> QED
  BY <1>1, <1>6, <1>7 DEF RowsInv, Explore!RowsChosen, Explore!ChosenHere

LEMMA UnmovedStep ==
    ASSUME RowsInv, Explore!Unmoved
    PROVE  RowsInv'
<1>1. /\ move # Explore!NoMove /\ move' = Explore!NoMove /\ lies' = move.lies /\ UNCHANGED carried
      /\ menu' = IF Explore!Stays(menu) THEN menu ELSE Explore!None
      /\ upset' = (menu' # Explore!None /\ (upset \/ (Explore!Below /\ TRUE)))
  BY DEF Explore!Unmoved
<1>2. move \in MoveStates
  BY <1>1 DEF RowsInv, RowTypes
<1>3. CASE move.kind = "files"
  <2>1. ticked' = move.ticked /\ haunted' = (haunted \/ move.left) /\ UNCHANGED <<here, picked, treeKey, box>>
    BY <1>3 DEF Explore!Unmoved
  <2>2. RowTypes' /\ BroughtBack'
    BY <1>1, <1>2, <2>1, RowFacts DEF RowsInv, RowTypes, BroughtBack, MoveStates, Explore!None
  <2>3. Explore!ChosenHere'
    BY <1>3, <2>1 DEF RowsInv, BroughtBack, Explore!ChosenHere
  <2>4. OneGesture' /\ Explore!MenuOnChosen'
    BY <1>1, <2>1, MenuStep
  <2> QED
    BY <2>2, <2>3, <2>4 DEF RowsInv, Explore!RowsChosen
<1>4. CASE move.kind # "files"
  <2>1. /\ Explore!Leave(move.here, move.renamed) /\ treeKey' = move.key /\ haunted' = haunted
        /\ box' = IF box = Explore!NoBox THEN Explore!NoBox
                                         ELSE Explore!Left(move.here, move.renamed, box)
    BY <1>4 DEF Explore!Unmoved
  <2>2. move.here \in Folders /\ move.renamed \in BOOLEAN /\ move.lies \in [Explore!Rows -> Spots]
        /\ move.key \in Folders
    BY <1>2 DEF MoveStates
  <2>3. /\ here' \in Folders /\ ticked' \subseteq Explore!Rows
        /\ IF move.here = here /\ ~move.renamed THEN UNCHANGED <<ticked, picked>> ELSE ticked' = {} /\ picked' = {}
    BY <2>1, <2>2, LeaveStep
  <2>4. /\ box' \in BoxStates /\ (box = Explore!NoBox => box' = Explore!NoBox)
        /\ haunted' \/ box'.left \/ box'.base \subseteq picked'
    BY <2>1, <2>2, <2>3, LeftBox
  <2>5. RowTypes' /\ BroughtBack'
    BY <1>1, <2>1, <2>2, <2>3, <2>4, RowFacts DEF RowsInv, RowTypes, BroughtBack, Explore!None
  <2>6. Explore!ChosenHere'
    BY <2>1, <2>3 DEF RowsInv, Explore!RowsChosen, Explore!ChosenHere
  <2>7. OneGesture' /\ Explore!MenuOnChosen'
    BY <1>1, <2>4, MenuStep
  <2> QED
    BY <2>5, <2>6, <2>7 DEF RowsInv, Explore!RowsChosen
<1> QED
  BY <1>3, <1>4

LEMMA RowsStart == Explore!ExplorerInit => RowsInv
<1> SUFFICES ASSUME Explore!ExplorerInit
             PROVE  RowsInv
  OBVIOUS
<1>1. RowTypes /\ BroughtBack
  BY RowFacts DEF Explore!ExplorerInit, RowTypes, BroughtBack, Folders, Explore!NoBox, Explore!None
<1>2. OneGesture /\ Explore!RowsChosen
  BY RowFacts DEF Explore!ExplorerInit, OneGesture, Explore!RowsChosen, Explore!ChosenHere,
    Explore!MenuOnChosen
<1> QED
  BY <1>1, <1>2 DEF RowsInv

THEOREM RowsInductive == ViewsSpec => [](route = "explorer" => RowsInv)
<1>1. ViewsInit => (route = "explorer" => RowsInv)
  BY RowsStart DEF ViewsInit
<1>2. ASSUME route = "explorer" => RowsInv, [ViewsNext]_viewsVars
      PROVE  (route = "explorer" => RowsInv)'
  <2> SUFFICES ASSUME route = "explorer"
               PROVE  RowsInv'
    BY <1>2, OnePage
  <2>1. CASE UNCHANGED exploreVars
    BY <1>2, <2>1 DEF exploreVars, RowsInv, RowTypes, OneGesture, BroughtBack, Explore!RowsChosen,
      Explore!ChosenHere, Explore!MenuOnChosen
  <2>2. CASE Explore!ExplorerNext
    BY <1>2, <2>2, ClickStep, IdleRows, BoxStep, FolderStep, DropStep, ReloadStep, MovedStep, UnmovedStep
       DEF Explore!ExplorerNext, Folders
  <2> QED
    BY <1>2, <2>1, <2>2, OnePage
<1> QED
  BY <1>1, <1>2, PTL DEF ViewsSpec

\* FilesPage: whatever a drag-box, a move or a reload does meanwhile, no row stays chosen that was
\* not chosen in the folder that is open, and the menu of a row acts on that row.
THEOREM RowsAreChosen == ViewsSpec => []RowsChosen
<1>1. (route = "explorer" => RowsInv) => RowsChosen
  BY DEF RowsInv, RowsChosen
<1> QED
  BY <1>1, RowsInductive, PTL

--------------------------------------------------------------------------------
(* The preview of a file. *)

MaybeDoc == Docs \cup {Read!NoDoc}
MaybeQuery == Queries \cup {Read!NoQuery}
Searches == [upload : Docs, step : {"asked", "answered"}, found : SUBSET Docs]

ViewerTypes ==
    /\ there \subseteq Docs /\ seen \subseteq Docs
    /\ viewer \in MaybeDoc /\ query \in MaybeQuery /\ place \in Nat
    /\ seeking \subseteq Searches

ViewerInv == ViewerTypes /\ Read!MatchMarked /\ Read!SearchEnds

LEMMA CountIsNat ==
    ASSUME NEW v \in MaybeDoc, NEW h, NEW q \in MaybeQuery
    PROVE  Read!Count(v, h, q) \in Nat /\ Read!Count(v, h, Read!NoQuery) = 0
<1>1. Written \subseteq Docs /\ \A d \in Docs, k \in Queries : Matches[d, k] \in Nat
  BY PreviewAssumption
<1> QED
  BY <1>1 DEF Read!Count, Read!Searchable, MaybeQuery

\* The place is that of a match when there is one.
LEMMA MarkedIsPlace ==
    ASSUME ViewerTypes
    PROVE  Read!MatchMarked <=> Read!MatchCount > 0 => place < Read!MatchCount
<1>1. Read!MatchCount \in Nat /\ place \in Nat
  BY CountIsNat DEF ViewerTypes, Read!MatchCount
<1> QED
  BY <1>1 DEF Read!MatchMarked, Read!Marked

LEMMA ShowsStep ==
    ASSUME ViewerInv, NEW v \in MaybeDoc, NEW h, NEW q \in MaybeQuery, Read!Shows(v, h, q)
    PROVE  /\ place' \in Nat /\ viewer' \in MaybeDoc /\ query' \in MaybeQuery
           /\ Read!MatchMarked'
<1> DEFINE new == Read!Count(v, h, q)
           old == Read!Count(viewer, held, query)
<1>1. new \in Nat /\ old \in Nat /\ place \in Nat
  BY CountIsNat DEF ViewerInv, ViewerTypes
<1>2. old > 0 => place < old
  BY MarkedIsPlace DEF ViewerInv, Read!MatchCount
<1>3. /\ viewer' = v /\ held' = h /\ query' = q
      /\ place' = IF new # old /\ place >= new THEN IF new > 0 THEN new - 1 ELSE 0
                  ELSE IF <<v, q>> # <<viewer, query>> THEN 0 ELSE place
  BY Zenon DEF Read!Shows, Read!Placed
<1>4. Read!MatchCount' = new
  BY <1>3 DEF Read!MatchCount, Read!Count, Read!Searchable
<1> HIDE DEF new, old
<1>5. place' \in Nat /\ (new > 0 => place' < new)
  BY <1>1, <1>2, <1>3
<1>6. Read!MatchMarked'
  BY <1>1, <1>4, <1>5 DEF Read!MatchMarked, Read!Marked
<1> QED
  BY <1>3, <1>5, <1>6


\* A file that is opened is searched for nothing that was typed in another.
LEMMA SearchShown ==
    ASSUME ViewerInv, NEW v \in Docs, Read!Opens(v),
           \/ viewer = Read!NoDoc /\ UNCHANGED <<typedIn, swapped>>
           \/ Read!ShowsUpload(v)
    PROVE  Read!SearchEnds' /\ viewer' = v /\ query' = query
<1>1. viewer' = v /\ query' = query
  BY DEF Read!Opens, Read!Shows
<1>2. v # Read!NoDoc
  BY PreviewAssumption DEF Read!NoDoc
<1>3. CASE viewer = Read!NoDoc
  BY <1>1, <1>3 DEF ViewerInv, Read!SearchEnds
<1>4. CASE viewer # Read!NoDoc
  BY <1>1, <1>2, <1>4 DEF Read!SearchEnds, Read!ShowsUpload
<1> QED
  BY <1>1, <1>3, <1>4

LEMMA OpensStep ==
    ASSUME ViewerInv, NEW v \in Docs, Read!Opens(v),
           \/ viewer = Read!NoDoc /\ UNCHANGED <<typedIn, swapped>>
           \/ Read!ShowsUpload(v),
           there' \subseteq Docs, seen' \subseteq Docs, seeking' \subseteq Searches
    PROVE  ViewerInv'
<1>1. v \in MaybeDoc /\ query \in MaybeQuery /\ Read!Shows(v, held, query)
  BY DEF MaybeDoc, Read!Opens, ViewerInv, ViewerTypes
<1>2. place' \in Nat /\ viewer' \in MaybeDoc /\ query' \in MaybeQuery /\ Read!MatchMarked'
  BY <1>1, ShowsStep
<1>3. Read!SearchEnds'
  BY SearchShown
<1> QED
  BY <1>2, <1>3 DEF ViewerInv, ViewerTypes

\* What leaves the preview alone.
LEMMA BesideStep ==
    ASSUME ViewerInv, UNCHANGED <<viewer, held, query, place, typedIn, swapped>>,
           there' \subseteq Docs, seen' \subseteq Docs, seeking' \subseteq Searches
    PROVE  ViewerInv'
<1>1. Read!MatchCount' = Read!MatchCount
  BY DEF Read!MatchCount, Read!Count, Read!Searchable
<1> QED
  BY <1>1 DEF ViewerInv, ViewerTypes, Read!MatchMarked, Read!Marked, Read!SearchEnds

\* The place goes round the matches.
LEMMA RoundStep ==
    ASSUME ViewerInv, Read!NextMatch \/ Read!PrevMatch
    PROVE  ViewerInv'
<1> DEFINE count == Read!MatchCount
<1>1. count \in Nat /\ place \in Nat /\ count > 0
  BY CountIsNat DEF ViewerInv, ViewerTypes, Read!NextMatch, Read!PrevMatch, Read!GoTo, Read!MatchCount
<1>2. UNCHANGED <<there, seen, viewer, held, query, seeking, typedIn, swapped>>
  BY DEF Read!NextMatch, Read!PrevMatch, Read!GoTo
<1>3. Read!MatchCount' = count
  BY <1>2 DEF Read!MatchCount, Read!Count, Read!Searchable
<1>4. place' = (place + 1) % count \/ place' = (place + count - 1) % count
  BY DEF Read!NextMatch, Read!PrevMatch, Read!GoTo
<1> HIDE DEF count
<1>5. place' \in Nat /\ place' < count
  BY <1>1, <1>4
<1>6. Read!MatchMarked'
  BY <1>1, <1>3, <1>5 DEF Read!MatchMarked, Read!Marked
<1> QED
  BY <1>2, <1>5, <1>6 DEF ViewerInv, ViewerTypes, Read!SearchEnds

LEMMA ViewerStep ==
    ASSUME ViewerInv, Read!ViewerNext
    PROVE  ViewerInv'
<1>1. ASSUME NEW v \in Docs, Read!DeletedFromService(v) \/ Read!FetchFails(v)
      PROVE  ViewerInv'
  BY <1>1, BesideStep DEF ViewerInv, ViewerTypes, Read!DeletedFromService, Read!FetchFails
<1>2. CASE Read!Relist \/ Read!TurnPanel
  BY <1>2, BesideStep DEF ViewerInv, ViewerTypes, Read!Relist, Read!TurnPanel
<1>3. ASSUME NEW v \in Docs, Read!Fetched(v)
      PROVE  ViewerInv'
  <2>1. viewer \in MaybeDoc /\ query \in MaybeQuery /\ Read!Shows(viewer, held \cup {v}, query)
    BY <1>3 DEF Read!Fetched, ViewerInv, ViewerTypes
  <2>2. place' \in Nat /\ viewer' \in MaybeDoc /\ query' \in MaybeQuery /\ Read!MatchMarked'
    BY <2>1, ShowsStep
  <2> QED
    BY <1>3, <2>2 DEF Read!Fetched, Read!Shows, ViewerInv, ViewerTypes, Read!SearchEnds
<1>4. ASSUME NEW v \in Docs, Read!Open(v)
      PROVE  ViewerInv'
  <2>1. Read!Opens(v) /\ viewer = Read!NoDoc /\ UNCHANGED <<there, seen, seeking, typedIn, swapped>>
    BY <1>4 DEF Read!Open
  <2>2. there' \subseteq Docs /\ seen' \subseteq Docs /\ seeking' \subseteq Searches
    BY <2>1 DEF ViewerInv, ViewerTypes
  <2> QED
    BY <2>1, <2>2, OpensStep
<1>5. CASE Read!Close \/ Read!Clear
  <2>1. query' = Read!NoQuery /\ place' = 0 /\ viewer' \in MaybeDoc /\ UNCHANGED <<there, seen, seeking>>
    BY <1>5 DEF Read!Close, Read!Clear, ViewerInv, ViewerTypes, MaybeDoc
  <2>2. Read!MatchCount' = 0
    BY <2>1 DEF Read!MatchCount, Read!Count
  <2> QED
    BY <2>1, <2>2 DEF ViewerInv, ViewerTypes, MaybeQuery, Read!MatchMarked, Read!SearchEnds
<1>6. ASSUME NEW q \in Queries, Read!Type(q)
      PROVE  ViewerInv'
  <2>1. viewer \in Docs /\ viewer # Read!NoDoc /\ viewer' = viewer /\ typedIn' = viewer
    BY <1>6, PreviewAssumption DEF Read!Type, Read!Shows, Read!InputOffered, ViewerInv, ViewerTypes, Read!NoDoc
  <2>2. viewer \in MaybeDoc /\ q \in MaybeQuery /\ Read!Shows(viewer, held, q)
    BY <1>6, <2>1 DEF Read!Type, MaybeDoc, MaybeQuery
  <2>3. place' \in Nat /\ viewer' \in MaybeDoc /\ query' \in MaybeQuery /\ Read!MatchMarked'
    BY <2>2, ShowsStep
  <2> QED
    BY <1>6, <2>1, <2>3 DEF Read!Type, ViewerInv, ViewerTypes, Read!SearchEnds
<1>7. ASSUME NEW u \in Docs, Read!OpenUpload(u)
      PROVE  ViewerInv'
  <2>1. UNCHANGED <<there, seen>> /\ there' \subseteq Docs /\ seen' \subseteq Docs
    BY <1>7 DEF Read!OpenUpload, ViewerInv, ViewerTypes
  <2>2. CASE Read!Finds(seen, u) = {}
    <3>1. /\ UNCHANGED <<viewer, held, query, place, typedIn, swapped>>
          /\ seeking' = seeking \cup {[upload |-> u, step |-> "asked", found |-> {}]}
      BY <1>7, <2>2 DEF Read!OpenUpload
    <3>2. seeking' \subseteq Searches
      BY <3>1 DEF ViewerInv, ViewerTypes, Searches
    <3> QED
      BY <2>1, <3>1, <3>2, BesideStep
  <2>3. CASE Read!Finds(seen, u) # {}
    <3>1. PICK v \in Read!Finds(seen, u) : Read!ShowsUpload(v) /\ UNCHANGED seeking
      BY <1>7, <2>3 DEF Read!OpenUpload
    <3>2. v \in Docs /\ Read!Opens(v)
      BY <2>1, <3>1 DEF Read!Finds, Read!ShowsUpload
    <3>3. seeking' \subseteq Searches
      BY <3>1 DEF ViewerInv, ViewerTypes
    <3> QED
      BY <2>1, <3>1, <3>2, <3>3, OpensStep
  <2> QED
    BY <2>2, <2>3
<1>8. ASSUME NEW s \in seeking, Read!ServeListing(s) \/ Read!ListingFails(s)
      PROVE  ViewerInv'
  <2>1. UNCHANGED <<there, seen, viewer, held, query, place, typedIn, swapped>>
    BY <1>8 DEF Read!ServeListing, Read!ListingFails
  <2>2. seeking' \subseteq Searches /\ there' \subseteq Docs /\ seen' \subseteq Docs
    BY <1>8, <2>1 DEF ViewerInv, ViewerTypes, Searches, Read!ServeListing, Read!ListingFails
  <2> QED
    BY <2>1, <2>2, BesideStep
<1>9. ASSUME NEW s \in seeking, Read!UploadListed(s)
      PROVE  ViewerInv'
  <2>1. UNCHANGED there /\ seen' = s.found /\ seeking' = seeking \ {s}
    BY <1>9 DEF Read!UploadListed
  <2>2. there' \subseteq Docs /\ seen' \subseteq Docs /\ seeking' \subseteq Searches
    BY <2>1 DEF ViewerInv, ViewerTypes, Searches
  <2>3. CASE Read!Finds(s.found, s.upload) = {}
    BY <1>9, <2>2, <2>3, BesideStep DEF Read!UploadListed
  <2>4. CASE Read!Finds(s.found, s.upload) # {}
    <3>1. PICK v \in Read!Finds(s.found, s.upload) : Read!ShowsUpload(v)
      BY <1>9, <2>4 DEF Read!UploadListed
    <3>2. v \in Docs /\ Read!Opens(v)
      BY <2>1, <2>2, <3>1 DEF Read!Finds, Read!ShowsUpload
    <3> QED
      BY <2>2, <3>1, <3>2, OpensStep
  <2> QED
    BY <2>3, <2>4
<1> QED
  BY <1>1, <1>2, <1>3, <1>4, <1>5, <1>6, <1>7, <1>8, <1>9, RoundStep DEF Read!ViewerNext

THEOREM ViewerInductive == ViewsSpec => [](route = "viewer" => ViewerInv)
<1>1. ViewsInit => (route = "viewer" => ViewerInv)
  <2>1. Read!ViewerInit => ViewerInv
    BY DEF Read!ViewerInit, ViewerInv, ViewerTypes, MaybeDoc, MaybeQuery, Read!MatchMarked, Read!MatchCount,
      Read!Count, Read!SearchEnds
  <2> QED
    BY <2>1 DEF ViewsInit
<1>2. ASSUME route = "viewer" => ViewerInv, [ViewsNext]_viewsVars
      PROVE  (route = "viewer" => ViewerInv)'
  <2> SUFFICES ASSUME route = "viewer"
               PROVE  ViewerInv'
    BY <1>2, OnePage
  <2>1. CASE UNCHANGED viewVars
    BY <1>2, <2>1, BesideStep DEF viewVars, ViewerInv, ViewerTypes
  <2>2. CASE Read!ViewerNext
    BY <1>2, <2>2, ViewerStep
  <2> QED
    BY <1>2, <2>1, <2>2, OnePage
<1> QED
  BY <1>1, <1>2, PTL DEF ViewsSpec

\* FilesPage's preview: a match is marked whenever there is one, however late the text comes and
\* whatever file an upload opens over another, and a search ends with its preview.
THEOREM SearchesMarked == ViewsSpec => []SearchMarked
<1>1. (route = "viewer" => ViewerInv) => SearchMarked
  BY DEF ViewerInv, SearchMarked
<1> QED
  BY <1>1, ViewerInductive, PTL

--------------------------------------------------------------------------------
(* The evaluation page. *)

Standings == {Evals!None, "queued", "completed", "failed", "spoiled", "lost", "stranded"} \cup Evals!AtWork

\* A job that is shown, polled or created is one of the service's.
EvalTypes ==
    /\ jobs \in [Evals!Ids -> Standings]
    /\ job.status \in Evals!Active \cup {"completed"} => job.id \in Evals!Ids
    /\ \A c \in creating : c = [by |-> c.by, id |-> c.id] /\ c.id \in Evals!Ids \cup {0}
    /\ \A p \in polls : p = [id |-> p.id, status |-> p.status] /\ p.id \in Evals!Ids
    /\ \A f \in refreshes :
         f = [want |-> f.want, by |-> f.by, left |-> f.left, results |-> f.results, jobs |-> f.jobs]

\* What has been heard of as completed is completed; while nothing failed, what a list shows as
\* such has its result listed, and of the job shown the result is listed or being asked for.
HeardOf ==
    /\ job.status = "completed" => jobs[job.id] = "completed"
    /\ \A p \in polls : p.status = "completed" => jobs[p.id] = "completed"
    /\ \A f \in refreshes : \A i \in Evals!Ids : f.jobs[i] = "completed" => jobs[i] = "completed"
    /\ \A i \in Evals!Ids :
         heardJobs[i] = "completed" => jobs[i] = "completed" /\ (i \in listed \/ torn)
    /\ job.status = "completed" =>
         \/ torn \/ failed \/ job.id \in listed
         \/ \E f \in refreshes : "results" \in f.left \/ job.id \in f.results

\* One load at a time, of the result selected, or the result selected is shown.
Undisturbed ==
    \/ muddled
    \/ loads = {} /\ result = selected
    \/ refreshes = {} /\ \E l \in loads : loads = {l} /\ l.of = selected

EvalInv == EvalTypes /\ HeardOf /\ Undisturbed

\* Of some jobs one is the latest.
LEMMA LatestJob ==
    ASSUME NEW S, S \subseteq Evals!Ids, S # {}
    PROVE  (CHOOSE i \in S : \A k \in S : k <= i) \in S
<1> DEFINE before == OpToRel(<, Nat)
           T == {MaxJobs - i : i \in S}
<1>0. MaxJobs \in Nat
  BY ViewsAssumption, Zenon
<1>1. \A i \in S : i \in Nat /\ MaxJobs - i \in Nat
  BY <1>0 DEF Evals!Ids
<1>2. T \subseteq Nat /\ T # {}
  BY <1>1
<1>3. PICK t \in T : \A u \in T : <<u, t>> \notin before
  <2> HIDE DEF T, before
  <2> QED
    BY <1>2, WFMin, NatLessThanWellFounded DEF before
<1>4. \A u \in T : ~(u < t)
  BY <1>2, <1>3 DEF OpToRel
<1>5. PICK i \in S : t = MaxJobs - i
  OBVIOUS
<1>6. \A k \in S : k <= i
  BY <1>0, <1>1, <1>4, <1>5
<1> QED
  BY <1>6

\* The job that is followed is one of those heard of.
LEMMA FollowStep ==
    ASSUME EvalInv, NEW told, NEW new, new = Evals!Follow(told)
    PROVE  new = job \/ (new.id \in Evals!Ids /\ new.status = told[new.id])
<1> DEFINE known == {i \in Evals!Ids : told[i] # Evals!None}
           atWork == {i \in known : told[i] \in Evals!Active}
           latest(s) == CHOOSE i \in s : \A k \in s : k <= i
           next == IF job.id \in known THEN job.id
                   ELSE IF atWork # {} THEN latest(atWork) ELSE latest(known)
<1>1. new = IF known = {} THEN job ELSE [id |-> next, status |-> told[next]]
  BY DEF Evals!Follow
<1>2. known # {} => next \in known
  <2>1. known # {} => latest(known) \in known
    BY LatestJob
  <2>2. atWork # {} => latest(atWork) \in atWork
    BY LatestJob
  <2> HIDE DEF latest
  <2> QED
    BY <2>1, <2>2
<1> HIDE DEF next
<1> QED
  BY <1>1, <1>2

\* What leaves the page as it is keeps what it knows, as long as a completed job stays so.
LEMMA ServiceStep ==
    ASSUME EvalInv, jobs' \in [Evals!Ids -> Standings],
           \A i \in Evals!Ids : jobs[i] = "completed" => jobs'[i] = "completed",
           UNCHANGED <<job, heardJobs, listed, polls, refreshes, loads, selected, result, muddled, torn>>,
           failed => failed',
           \A c \in creating' : c = [by |-> c.by, id |-> c.id] /\ c.id \in Evals!Ids \cup {0}
    PROVE  EvalInv'
<1>1. EvalTypes' /\ Undisturbed'
  BY DEF EvalInv, EvalTypes, Undisturbed
<1>2. HeardOf'
  BY DEF EvalInv, EvalTypes, HeardOf, Evals!Active
<1> QED
  BY <1>1, <1>2 DEF EvalInv

\* The service's jobs, and calls of which nothing is heard yet.
LEMMA JobStep ==
    ASSUME EvalInv,
           \/ Evals!Jobs \/ Evals!Restart
           \/ \E by \in {"form", "agent"} : Evals!Create(by)
           \/ \E c \in creating : Evals!ServeCreate(c) \/ Evals!CreateFails(c)
           \/ Evals!Call
           \/ \E c \in call : Evals!ServeCall(c) \/ Evals!CallFails(c)
    PROVE  EvalInv'
<1> USE DEF EvalInv, EvalTypes
<1>1. ASSUME NEW i \in Evals!Ids, Evals!JobStarts(i) \/ Evals!JobExports(i) \/ Evals!JobEnds(i)
      PROVE  EvalInv'
  <2>1. jobs' \in [Evals!Ids -> Standings]
        /\ \A k \in Evals!Ids : jobs[k] = "completed" => jobs'[k] = "completed"
    BY <1>1 DEF Evals!JobStarts, Evals!JobExports, Evals!JobEnds, Evals!AtWork, Standings
  <2> QED
    BY <1>1, <2>1, ServiceStep DEF Evals!JobStarts, Evals!JobExports, Evals!JobEnds, Evals!shown,
      Evals!fetching, Evals!bounds
<1>2. CASE Evals!Restart
  <2>1. jobs' \in [Evals!Ids -> Standings]
        /\ \A k \in Evals!Ids : jobs[k] = "completed" => jobs'[k] = "completed"
    BY <1>2 DEF Evals!Restart, Evals!Dropped, Evals!Active, Evals!AtWork, Standings
  <2> QED
    BY <1>2, <2>1, ServiceStep DEF Evals!Restart, Evals!Fault, Evals!Missed, Evals!shown, Evals!fetching
<1>3. ASSUME NEW by, Evals!Create(by)
      PROVE  EvalInv'
  <2>1. \A c \in creating' : c = [by |-> c.by, id |-> c.id] /\ c.id \in Evals!Ids \cup {0}
    BY <1>3 DEF Evals!Create
  <2> QED
    BY <1>3, <2>1, ServiceStep DEF Evals!Create, Evals!server, Evals!shown, Evals!fetching
<1>4. ASSUME NEW c \in creating, Evals!ServeCreate(c)
      PROVE  EvalInv'
  <2>1. PICK i \in Evals!Ids : /\ jobs[i] = Evals!None /\ jobs' = [jobs EXCEPT ![i] = "queued"]
                               /\ creating' = (creating \ {c}) \cup {[c EXCEPT !.id = i]}
    BY <1>4 DEF Evals!ServeCreate
  <2>2. jobs' \in [Evals!Ids -> Standings]
        /\ \A k \in Evals!Ids : jobs[k] = "completed" => jobs'[k] = "completed"
    BY <2>1 DEF Standings, Evals!None
  <2>3. \A d \in creating' : d = [by |-> d.by, id |-> d.id] /\ d.id \in Evals!Ids \cup {0}
    BY <2>1
  <2> QED
    BY <1>4, <2>2, <2>3, ServiceStep DEF Evals!ServeCreate, Evals!shown, Evals!fetching, Evals!bounds
<1>5. ASSUME NEW c \in creating, Evals!CreateFails(c)
      PROVE  EvalInv'
  BY <1>5, ServiceStep DEF Evals!CreateFails, Evals!Fault, Evals!Missed, Evals!server, Evals!shown, Evals!fetching
<1>6. CASE Evals!Call
  BY <1>6, ServiceStep DEF Evals!Call, Evals!Act, Evals!server, Evals!shown, Evals!fetching
<1>7. ASSUME NEW c \in call, Evals!ServeCall(c) \/ Evals!CallFails(c)
      PROVE  EvalInv'
  BY <1>7, ServiceStep DEF Evals!ServeCall, Evals!CallFails, Evals!Fault, Evals!Missed, Evals!server,
    Evals!shown, Evals!fetching, Evals!bounds
<1> QED
  BY <1>1, <1>2, <1>3, <1>4, <1>5, <1>6, <1>7 DEF Evals!Jobs

\* The job shown changes to another that was created, or that is in the list of jobs.
LEMMA ShownJobStep ==
    ASSUME EvalInv,
           \/ \E c \in creating : Evals!Created(c)
           \/ \E i \in Evals!Ids : Evals!PickJob(i)
    PROVE  EvalInv'
<1> USE DEF EvalInv
<1>1. UNCHANGED <<jobs, heardJobs, listed, polls, refreshes, loads, selected, result, muddled, torn, failed>>
  BY DEF Evals!Created, Evals!PickJob, Evals!Act, Evals!server, Evals!fetching, Evals!bounds
<1>2. creating' \subseteq creating
  BY DEF Evals!Created, Evals!PickJob
<1>3. CASE \E c \in creating : Evals!Created(c)
  <2>1. job'.id \in Evals!Ids /\ job'.status = "queued"
    BY <1>3 DEF EvalTypes, Evals!Created
  <2> QED
    BY <1>1, <1>2, <2>1 DEF EvalTypes, HeardOf, Undisturbed
<1>4. ASSUME NEW i \in Evals!Ids, Evals!PickJob(i)
      PROVE  EvalInv'
  <2>1. job'.id = i /\ job'.status = heardJobs[i]
    BY <1>4 DEF Evals!PickJob
  <2> QED
    BY <1>1, <1>2, <2>1 DEF EvalTypes, HeardOf, Undisturbed
<1> QED
  BY <1>3, <1>4

\* The polls of the job shown.
LEMMA PollJobStep ==
    ASSUME EvalInv,
           \/ Evals!Poll
           \/ \E p \in polls : Evals!ServePoll(p) \/ Evals!PollFails(p)
    PROVE  EvalInv'
<1> USE DEF EvalInv
<1>1. /\ UNCHANGED <<jobs, job, heardJobs, listed, creating, refreshes, loads, selected, result, muddled, torn>>
      /\ failed => failed'
  BY DEF Evals!Poll, Evals!ServePoll, Evals!PollFails, Evals!Fault, Evals!Missed, Evals!server, Evals!shown,
    Evals!fetching, Evals!bounds
<1>2. \A p \in polls' :
        /\ p = [id |-> p.id, status |-> p.status] /\ p.id \in Evals!Ids
        /\ p.status = "completed" => jobs[p.id] = "completed"
  <2>1. CASE Evals!Poll
    BY <2>1 DEF Evals!Poll, Evals!JobIsActive, EvalTypes, HeardOf
  <2>2. ASSUME NEW p \in polls, Evals!ServePoll(p)
        PROVE  <1>2
    BY <2>2 DEF Evals!ServePoll, Evals!Status, EvalTypes, HeardOf
  <2>3. ASSUME NEW p \in polls, Evals!PollFails(p)
        PROVE  <1>2
    BY <2>3 DEF Evals!PollFails, EvalTypes, HeardOf
  <2> QED
    BY <2>1, <2>2, <2>3
<1> QED
  BY <1>1, <1>2 DEF EvalTypes, HeardOf, Undisturbed

\* A load is asked for, comes or is lost.
LEMMA LoadStep ==
    ASSUME EvalInv,
           \/ \E r \in Evals!Ids : Evals!SelectResult(r)
           \/ \E l \in loads : Evals!Loaded(l) \/ Evals!LoadFails(l)
    PROVE  EvalInv'
<1> USE DEF EvalInv
<1>1. /\ UNCHANGED <<jobs, job, heardJobs, listed, creating, polls, refreshes, torn>>
      /\ failed => failed'
  BY DEF Evals!SelectResult, Evals!Loaded, Evals!LoadFails, Evals!Missed, Evals!Act, Evals!server, Evals!shown,
    Evals!bounds
<1>2. EvalTypes' /\ HeardOf'
  BY <1>1 DEF EvalTypes, HeardOf
<1>3. ASSUME NEW r, Evals!SelectResult(r)
      PROVE  Undisturbed'
  <2> DEFINE l == [of |-> r, by |-> "user"]
  <2>1. loads' = loads \cup {l} /\ selected' = r /\ refreshes' = refreshes
        /\ muddled' = (loads # {} \/ refreshes # {})
    BY <1>3 DEF Evals!SelectResult, Evals!Load, Evals!Overlap
  <2>2. l.of = r
    OBVIOUS
  <2> HIDE DEF l
  <2> QED
    BY <2>1, <2>2 DEF Undisturbed
<1>4. ASSUME NEW l \in loads, Evals!Loaded(l)
      PROVE  Undisturbed'
  BY <1>4 DEF Evals!Loaded, Undisturbed
<1>5. ASSUME NEW l, Evals!LoadFails(l)
      PROVE  Undisturbed'
  BY <1>5 DEF Evals!LoadFails, Undisturbed
<1> QED
  BY <1>2, <1>3, <1>4, <1>5

\* A refresh begins, while nothing else is under way unless the loads are muddled.
LEMMA BeginRefresh ==
    ASSUME EvalInv, NEW want, NEW by, Evals!Refresh(want, by), Evals!Muddle,
           UNCHANGED <<loads, selected, result>>
    PROVE  /\ Undisturbed'
           /\ \A f \in refreshes' :
                /\ f = [want |-> f.want, by |-> f.by, left |-> f.left, results |-> f.results, jobs |-> f.jobs]
                /\ \A i \in Evals!Ids : f.jobs[i] = "completed" => jobs[i] = "completed"
           /\ refreshes \subseteq refreshes'
           /\ \E f \in refreshes' : "results" \in f.left
<1> DEFINE new == [want |-> want, by |-> by, left |-> {"results", "jobs"}, results |-> {}, jobs |-> Evals!Nobody]
<1>1. refreshes' = refreshes \cup {new}
  BY DEF Evals!Refresh
<1>2. \A i \in Evals!Ids : new.jobs[i] # "completed"
  BY DEF Evals!Nobody, Evals!None
<1>3. new = [want |-> new.want, by |-> new.by, left |-> new.left, results |-> new.results, jobs |-> new.jobs]
      /\ "results" \in new.left
  OBVIOUS
<1>4. Undisturbed'
  BY DEF EvalInv, Undisturbed, Evals!Muddle, Evals!Overlap
<1> HIDE DEF new
<1> QED
  BY <1>1, <1>2, <1>3, <1>4 DEF EvalInv, EvalTypes, HeardOf

\* The lists are asked for, and answered one after the other.
LEMMA RefreshStep ==
    ASSUME EvalInv,
           \/ Evals!RefreshClicked
           \/ \E c \in call : Evals!CallAnswered(c)
           \/ \E f \in refreshes : Evals!ServeResults(f) \/ Evals!ServeJobs(f) \/ Evals!RefreshFails(f)
    PROVE  EvalInv'
<1> USE DEF EvalInv
<1>1. /\ UNCHANGED <<jobs, job, heardJobs, listed, creating, polls, loads, selected, result, torn>>
      /\ failed => failed'
  <2> USE DEF Evals!server, Evals!shown, Evals!bounds
  <2>1. CASE Evals!RefreshClicked
    BY <2>1 DEF Evals!RefreshClicked, Evals!Act
  <2>2. CASE \E c \in call : Evals!CallAnswered(c)
    BY <2>2 DEF Evals!CallAnswered
  <2>3. CASE \E f \in refreshes : Evals!ServeResults(f) \/ Evals!ServeJobs(f)
    <3>1. ASSUME NEW f, Evals!ServeResults(f)
          PROVE  <1>1
      BY <3>1 DEF Evals!ServeResults
    <3>2. ASSUME NEW f, Evals!ServeJobs(f)
          PROVE  <1>1
      BY <3>2 DEF Evals!ServeJobs
    <3> QED
      BY <2>3, <3>1, <3>2
  <2>4. CASE \E f \in refreshes : Evals!RefreshFails(f)
    BY <2>4 DEF Evals!RefreshFails, Evals!Missed
  <2> QED
    BY <2>1, <2>2, <2>3, <2>4
<1>2. ASSUME NEW want, NEW by, Evals!Refresh(want, by), Evals!Muddle
      PROVE  EvalInv'
  BY <1>1, <1>2, BeginRefresh DEF EvalTypes, HeardOf
<1>3. ASSUME NEW f \in refreshes, Evals!ServeResults(f) \/ Evals!ServeJobs(f)
      PROVE  EvalInv'
  <2> DEFINE withResults == [f EXCEPT !.left = @ \ {"results"}, !.results = Evals!Left]
             withJobs == [f EXCEPT !.left = @ \ {"jobs"}, !.jobs = [i \in Evals!Ids |-> Evals!Status(i)]]
  <2>1. f = [want |-> f.want, by |-> f.by, left |-> f.left, results |-> f.results, jobs |-> f.jobs]
    BY DEF EvalTypes
  <2>2. /\ withResults = [want |-> f.want, by |-> f.by, left |-> f.left \ {"results"}, results |-> Evals!Left,
                          jobs |-> f.jobs]
        /\ withJobs = [want |-> f.want, by |-> f.by, left |-> f.left \ {"jobs"}, results |-> f.results,
                       jobs |-> [i \in Evals!Ids |-> Evals!Status(i)]]
    <3> DEFINE one == [f EXCEPT !.left = f.left \ {"results"}]
               two == [f EXCEPT !.left = f.left \ {"jobs"}]
    <3>1. /\ one = [want |-> f.want, by |-> f.by, left |-> f.left \ {"results"}, results |-> f.results, jobs |-> f.jobs]
          /\ two = [want |-> f.want, by |-> f.by, left |-> f.left \ {"jobs"}, results |-> f.results, jobs |-> f.jobs]
      BY <2>1
    <3>2. /\ withResults = [one EXCEPT !.results = Evals!Left]
          /\ withJobs = [two EXCEPT !.jobs = [i \in Evals!Ids |-> Evals!Status(i)]]
      OBVIOUS
    <3> HIDE DEF one, two
    <3>3. /\ [one EXCEPT !.results = Evals!Left]
               = [want |-> one.want, by |-> one.by, left |-> one.left, results |-> Evals!Left, jobs |-> one.jobs]
          /\ [two EXCEPT !.jobs = [i \in Evals!Ids |-> Evals!Status(i)]]
               = [want |-> two.want, by |-> two.by, left |-> two.left, results |-> two.results,
                  jobs |-> [i \in Evals!Ids |-> Evals!Status(i)]]
      BY <3>1
    <3>4. /\ one.want = f.want /\ one.by = f.by /\ one.left = f.left \ {"results"} /\ one.jobs = f.jobs
          /\ two.want = f.want /\ two.by = f.by /\ two.left = f.left \ {"jobs"} /\ two.results = f.results
      BY <3>1
    <3> HIDE DEF withResults, withJobs
    <3> QED
      BY <3>2, <3>3, <3>4
  <2>3. PICK g \in {withResults, withJobs} : refreshes' = (refreshes \ {f}) \cup {g}
    BY <1>3 DEF Evals!ServeResults, Evals!ServeJobs
  <2>4. g = [want |-> g.want, by |-> g.by, left |-> g.left, results |-> g.results, jobs |-> g.jobs]
    BY <2>2, <2>3
  <2>5. \A i \in Evals!Ids : g.jobs[i] = "completed" => jobs[i] = "completed"
    BY <2>2, <2>3 DEF Evals!Status, HeardOf
  <2>6. \A i \in Evals!Ids : jobs[i] = "completed" /\ ("results" \in f.left \/ i \in f.results)
                             => "results" \in g.left \/ i \in g.results
    BY <2>2, <2>3 DEF Evals!Left
  <2>7. refreshes # {} /\ muddled' = muddled
    BY <1>3 DEF Evals!ServeResults, Evals!ServeJobs
  <2> HIDE DEF withResults, withJobs
  <2>8. EvalTypes'
    BY <1>1, <2>3, <2>4 DEF EvalTypes
  <2>9. HeardOf'
    BY <1>1, <2>3, <2>5, <2>6 DEF EvalTypes, HeardOf
  <2>10. Undisturbed'
    BY <1>1, <2>7 DEF Undisturbed
  <2> QED
    BY <2>8, <2>9, <2>10
<1>4. ASSUME NEW f, Evals!RefreshFails(f)
      PROVE  EvalInv'
  <2>1. refreshes' \subseteq refreshes /\ failed' /\ muddled' = muddled
    BY <1>4 DEF Evals!RefreshFails, Evals!Missed
  <2> QED
    BY <1>1, <2>1 DEF EvalTypes, HeardOf, Undisturbed
<1> QED
  BY <1>2, <1>3, <1>4 DEF Evals!RefreshClicked, Evals!CallAnswered

\* The answer of a poll: a job that has completed has the results asked for.
LEMMA PolledStep ==
    ASSUME EvalInv, NEW p \in polls, Evals!Polled(p)
    PROVE  EvalInv'
<1> USE DEF EvalInv
<1>1. /\ UNCHANGED <<jobs, heardJobs, listed, creating, loads, selected, result, torn, failed>>
      /\ polls' \subseteq polls /\ job'.id = p.id /\ job'.status = p.status
  BY DEF Evals!Polled, Evals!server, Evals!bounds
<1>2. p.id \in Evals!Ids /\ (p.status = "completed" => jobs[p.id] = "completed")
  BY DEF EvalTypes, HeardOf
<1>3. CASE p.status = "completed"
  <2>1. Evals!Refresh(p.id, "poll") /\ Evals!Muddle
    BY <1>3 DEF Evals!Polled, Evals!AfterPoll
  <2> QED
    BY <1>1, <1>2, <2>1, BeginRefresh DEF EvalTypes, HeardOf
<1>4. CASE p.status # "completed"
  <2>1. UNCHANGED <<refreshes, muddled>>
    BY <1>4 DEF Evals!Polled, Evals!AfterPoll
  <2> QED
    BY <1>1, <1>2, <1>4, <2>1 DEF EvalTypes, HeardOf, Undisturbed
<1> QED
  BY <1>3, <1>4

\* The lists are shown, the job is followed and a result is loaded.
LEMMA RefreshedStep ==
    ASSUME EvalInv, NEW f \in refreshes, Evals!Refreshed(f)
    PROVE  EvalInv'
<1> USE DEF EvalInv
<1>1. /\ UNCHANGED <<jobs, creating, polls, result, failed>> /\ refreshes' = refreshes \ {f}
      /\ listed' = f.results /\ heardJobs' = f.jobs /\ job' = Evals!Follow(f.jobs)
  BY DEF Evals!Refreshed, Evals!server, Evals!bounds
<1>2. /\ torn \/ (job'.status = "completed" /\ job'.id \notin f.results) => torn'
      /\ \A i \in Evals!Ids : f.jobs[i] = "completed" /\ i \notin f.results => torn'
  BY DEF Evals!Refreshed
<1>3. job' = job \/ (job'.id \in Evals!Ids /\ job'.status = f.jobs[job'.id])
  BY <1>1, FollowStep
<1>4. EvalTypes'
  BY <1>1, <1>3 DEF EvalTypes
<1>5. HeardOf'
  BY <1>1, <1>2, <1>3 DEF EvalTypes, HeardOf
<1>6. Undisturbed'
  <2> DEFINE l == [of |-> Evals!Wanted(f), by |-> f.by]
  <2>1. loads' = loads \cup {l} /\ selected' = Evals!Wanted(f)
        /\ muddled' = (loads # {} \/ refreshes # {f})
    BY DEF Evals!Refreshed, Evals!Load, Evals!Selects
  <2>2. l.of = Evals!Wanted(f)
    OBVIOUS
  <2> HIDE DEF l
  <2> QED
    BY <1>1, <2>1, <2>2 DEF Undisturbed
<1> QED
  BY <1>4, <1>5, <1>6

\* Every step on the evaluation page keeps the invariant.
LEMMA EvalStep ==
    ASSUME EvalInv, Evals!EvalNext
    PROVE  EvalInv'
BY JobStep, ShownJobStep, PollJobStep, LoadStep, RefreshStep, PolledStep, RefreshedStep
   DEF Evals!EvalNext, Evals!Jobs, Evals!Answers, Evals!Failures, Evals!UserActs

\* What is said of the evaluation page holds at every visit of it.
THEOREM EvalInductive == ViewsSpec => [](route = "evals" => EvalInv)
<1>1. ViewsInit => (route = "evals" => EvalInv)
  <2> SUFFICES ASSUME Evals!EvalInit PROVE EvalInv
    BY DEF ViewsInit
  <2>1. EvalTypes
    <3>1. jobs \in [Evals!Ids -> Standings]
      BY DEF Evals!EvalInit, Standings, Evals!Nobody, Evals!None
    <3>2. job.status \notin Evals!Active \cup {"completed"} /\ creating = {} /\ polls = {}
      BY DEF Evals!EvalInit, Evals!NoJob, Evals!None, Evals!Active
    <3>3. \A f \in refreshes :
            f = [want |-> f.want, by |-> f.by, left |-> f.left, results |-> f.results, jobs |-> f.jobs]
      BY DEF Evals!EvalInit
    <3> QED
      BY <3>1, <3>2, <3>3 DEF EvalTypes
  <2>2. HeardOf
    BY DEF Evals!EvalInit, HeardOf, Evals!Nobody, Evals!None, Evals!NoJob
  <2>3. Undisturbed
    BY DEF Evals!EvalInit, Undisturbed
  <2> QED
    BY <2>1, <2>2, <2>3 DEF EvalInv
<1>2. ASSUME route = "evals" => EvalInv, [ViewsNext]_viewsVars
      PROVE  (route = "evals" => EvalInv)'
  <2> SUFFICES ASSUME route = "evals"
               PROVE  EvalInv'
    BY <1>2, OnePage
  <2>1. CASE UNCHANGED evalsVars
    BY <1>2, <2>1 DEF evalsVars, EvalInv, EvalTypes, HeardOf, Undisturbed
  <2>2. CASE Evals!EvalNext
    BY <1>2, <2>2, EvalStep
  <2> QED
    BY <1>2, <2>1, <2>2, OnePage
<1> QED
  BY <1>1, <1>2, PTL DEF ViewsSpec

\* InternalEvalsPage: whatever order the polls, refreshes and loads answer in, the review is
\* written about the result selected and a job shown as completed has its result listed.
THEOREM EvalsAreShown == ViewsSpec => []EvalsShown
<1>1. (route = "evals" => EvalInv) => EvalsShown
  BY DEF EvalInv, Undisturbed, HeardOf, EvalsShown, Evals!ShownIsSelected, Evals!ResultListed
<1> QED
  BY <1>1, EvalInductive, PTL

--------------------------------------------------------------------------------
(* The conversation. *)

\* Rows whose marks open their own sources or none.
MarkedRows ==
    {r \in [role : {"user", "assistant", "system"}, says : {"text", "limit"}, marks : SUBSET Nat, cites : Seq(Nat)] :
        \A n \in r.marks : Talk!Opens(r, n) \in {0, n}}

TalkTypes ==
    /\ Talk!Listed \subseteq Talks
    /\ rows \in [Talks -> Seq(MarkedRows)]
    /\ drifted \in BOOLEAN

TalkShown == TalkTypes /\ Talk!DraftStays

\* The sources that an answer keeps are in the order of their numbers: none is missing, and
\* there are no more of them than were found.
LEMMA CitedPlaces ==
    ASSUME NEW text, NEW n \in Nat
    PROVE  /\ Talk!Cited(text, n) \in Seq(Nat)
           /\ Len(Talk!Cited(text, n)) <= n
           /\ \A m \in Talk!Numbers(text) \cap 1..n : \E i \in 1..Len(Talk!Cited(text, n)) : Talk!Cited(text, n)[i] = m
<1> DEFINE kept == Talk!Numbers(text) \cap 1..n
           rank(m) == Cardinality(kept \cap 1..m)
           cited == [i \in 1..Cardinality(kept) |-> CHOOSE m \in kept : rank(m) = i]
<1>1. Talk!Cited(text, n) = cited
  BY DEF Talk!Cited, Talk!Cardinality, Cardinality
<1>2. /\ IsFiniteSet(1..n) /\ Cardinality(1..n) = n
      /\ IsFiniteSet(kept) /\ Cardinality(kept) \in Nat /\ Cardinality(kept) <= n
  <2>1. IsFiniteSet(1..n) /\ Cardinality(1..n) = n
    BY FS_Interval
  <2>2. kept \subseteq 1..n
    OBVIOUS
  <2> HIDE DEF kept
  <2> QED
    BY <2>1, <2>2, FS_Subset, FS_CardinalityType
<1>3. kept \subseteq 1..n /\ 1..n \subseteq Nat
  OBVIOUS
<1> HIDE DEF kept
<1>4. \A m \in kept : rank(m) \in 1..Cardinality(kept)
  <2> SUFFICES ASSUME NEW m \in kept
               PROVE  rank(m) \in 1..Cardinality(kept)
    OBVIOUS
  <2>1. kept \cap 1..m \subseteq kept /\ m \in kept \cap 1..m
    BY <1>3
  <2>2. /\ IsFiniteSet(kept \cap 1..m) /\ Cardinality(kept \cap 1..m) <= Cardinality(kept)
        /\ Cardinality(kept \cap 1..m) \in Nat
    BY <1>2, <2>1, FS_Subset, FS_CardinalityType
  <2>3. Cardinality(kept \cap 1..m) # 0
    BY <2>1, <2>2, FS_EmptySet
  <2> QED
    BY <1>2, <2>2, <2>3
<1>5. \A m, k \in kept : m < k => rank(m) < rank(k)
  <2> SUFFICES ASSUME NEW m \in kept, NEW k \in kept, m < k
               PROVE  rank(m) < rank(k)
    OBVIOUS
  <2>1. /\ kept \cap 1..m \subseteq kept \cap 1..k /\ k \in kept \cap 1..k /\ k \notin kept \cap 1..m
        /\ kept \cap 1..k \subseteq kept
    BY <1>3
  <2>2. IsFiniteSet(kept \cap 1..k)
    BY <1>2, <2>1, FS_Subset
  <2>3. /\ Cardinality(kept \cap 1..m) <= Cardinality(kept \cap 1..k)
        /\ Cardinality(kept \cap 1..m) = Cardinality(kept \cap 1..k) => kept \cap 1..m = kept \cap 1..k
        /\ IsFiniteSet(kept \cap 1..m)
    BY <2>1, <2>2, FS_Subset
  <2>4. Cardinality(kept \cap 1..m) \in Nat /\ Cardinality(kept \cap 1..k) \in Nat
    BY <2>2, <2>3, FS_CardinalityType
  <2>5. Cardinality(kept \cap 1..m) # Cardinality(kept \cap 1..k)
    BY <2>1, <2>3
  <2> QED
    BY <2>3, <2>4, <2>5
<1> HIDE DEF rank
<1>6. \A m, k \in kept : rank(m) = rank(k) => m = k
  <2> SUFFICES ASSUME NEW m \in kept, NEW k \in kept, m # k
               PROVE  rank(m) # rank(k)
    OBVIOUS
  <2>1. m \in Nat /\ k \in Nat /\ rank(m) \in Nat /\ rank(k) \in Nat
    BY <1>2, <1>3, <1>4
  <2>2. m < k \/ k < m
    BY <2>1
  <2>3. rank(m) < rank(k) \/ rank(k) < rank(m)
    BY <1>5, <2>2
  <2> QED
    BY <2>1, <2>3
<1>7. \A m \in kept : (CHOOSE k \in kept : rank(k) = rank(m)) = m
  BY <1>6
<1>8. \A m \in kept : cited[rank(m)] = m
  BY <1>4, <1>7
<1>9. \A i \in 1..Cardinality(kept) : (CHOOSE m \in kept : rank(m) = i) \in Nat
  <2> DEFINE where == [m \in kept |-> rank(m)]
  <2>1. where \in Injection(kept, 1..Cardinality(kept))
    BY <1>4, <1>6 DEF Injection, IsInjective
  <2>2. /\ IsFiniteSet(1..Cardinality(kept)) /\ Cardinality(1..Cardinality(kept)) = Cardinality(kept)
    BY <1>2, FS_Interval
  <2>3. where \in Surjection(kept, 1..Cardinality(kept))
    BY <2>1, <2>2, FS_Injection
  <2>4. \A i \in 1..Cardinality(kept) : \E m \in kept : rank(m) = i
    BY <2>3 DEF Surjection
  <2> QED
    BY <1>3, <2>4
<1>10. cited \in Seq(Nat) /\ Len(cited) = Cardinality(kept)
  BY <1>2, <1>9
<1> QED
  BY <1>1, <1>2, <1>4, <1>8, <1>10 DEF kept

\* What is appended to the rows of a conversation is such a row.
LEMMA RowAppended ==
    ASSUME rows \in [Talks -> Seq(MarkedRows)], NEW c \in Talks, NEW row \in MarkedRows, Talk!AppendRow(c, row)
    PROVE  rows' \in [Talks -> Seq(MarkedRows)]
<1>1. rows[c] \in Seq(MarkedRows)
  OBVIOUS
<1>2. Append(rows[c], row) \in Seq(MarkedRows)
  BY <1>1
<1> QED
  BY <1>2 DEF Talk!AppendRow

\* Marks of an answer whose sources are cited, and rows that have no marks.
LEMMA RowsMarked ==
    /\ \A says \in {"text", "limit"}, role \in {"user", "system"} : Talk!ShownRow(role, says, {}, <<>>) \in MarkedRows
    /\ \A text \in Talk!Texts, n \in 0..MaxSources :
         Talk!ShownRow("assistant", "text", Talk!Linked(text), Talk!Cited(text, n)) \in MarkedRows
<1>1. \A says \in {"text", "limit"}, role \in {"user", "system"} : Talk!ShownRow(role, says, {}, <<>>) \in MarkedRows
  BY DEF Talk!ShownRow, MarkedRows
<1>2. ASSUME NEW text \in Talk!Texts, NEW n \in 0..MaxSources
      PROVE  Talk!ShownRow("assistant", "text", Talk!Linked(text), Talk!Cited(text, n)) \in MarkedRows
  <2> DEFINE cites == Talk!Cited(text, n)
             row == Talk!ShownRow("assistant", "text", Talk!Linked(text), cites)
  <2>1. n \in Nat /\ MaxSources \in Nat
    BY ViewsAssumption
  <2>2. /\ cites \in Seq(Nat) /\ Len(cites) <= n
        /\ \A m \in Talk!Numbers(text) \cap 1..n : \E i \in 1..Len(cites) : cites[i] = m
    BY <2>1, CitedPlaces
  <2>3. Talk!Linked(text) \subseteq Talk!Numbers(text) /\ Talk!Linked(text) \subseteq Nat
    BY <2>1 DEF Talk!Linked, Talk!Numbers, Talk!Texts
  <2> HIDE DEF cites
  <2>4. row.marks = Talk!Linked(text) /\ row.cites = cites
    BY DEF Talk!ShownRow
  <2>5. ASSUME NEW m \in Talk!Linked(text)
        PROVE  Talk!Source(m, cites) \in {0, m}
    <3>1. m \in Nat /\ m \in Talk!Numbers(text)
      BY <2>3
    <3>2. CASE m = 0 \/ Talk!Contains(cites, m)
      BY <3>2 DEF Talk!Source
    <3>3. CASE m # 0 /\ ~Talk!Contains(cites, m)
      <4>1. m \notin 1..n
        BY <2>2, <3>1, <3>3 DEF Talk!Contains
      <4>2. m \notin DOMAIN cites
        BY <2>1, <2>2, <3>1, <4>1
      <4> QED
        BY <3>3, <4>2 DEF Talk!Source
    <3> QED
      BY <3>2, <3>3
  <2>6. \A m \in row.marks : Talk!Opens(row, m) \in {0, m}
    BY <2>4, <2>5 DEF Talk!Opens
  <2>7. row \in [role : {"user", "assistant", "system"}, says : {"text", "limit"}, marks : SUBSET Nat, cites : Seq(Nat)]
    BY <2>2, <2>3 DEF Talk!ShownRow
  <2> HIDE DEF row
  <2>8. row \in MarkedRows
    BY <2>6, <2>7 DEF MarkedRows
  <2> QED
    BY <2>8 DEF row, cites
<1> QED
  BY <1>1, <1>2

\* The list callback lets no draft drift unnoticed.
LEMMA ListensKeeps ==
    ASSUME Talk!DraftStays, drifted \in BOOLEAN, NEW S, Talk!Listens(S), draft' = draft
    PROVE  Talk!DraftStays' /\ drifted' \in BOOLEAN
BY DEF Talk!DraftStays, Talk!Listens

\* The composer.
LEMMA ComposeStep ==
    ASSUME TalkShown, Talk!Composing
    PROVE  TalkShown'
<1> USE DEF TalkShown, TalkTypes
<1>1. CASE Talk!Type \/ Talk!Submit
  BY <1>1 DEF Talk!Type, Talk!Submit, Talk!DraftStays, Talk!Listed, Talk!Blank
<1>2. CASE Talk!Asked
  <2>1. /\ sent.talk \in Talks /\ Talk!AppendRow(sent.talk, Talk!ShownRow("user", "text", {}, <<>>))
        /\ UNCHANGED <<titles, current, draft, drifted>>
    BY <1>2 DEF Talk!Asked
  <2>2. rows' \in [Talks -> Seq(MarkedRows)]
    BY <2>1, RowAppended, RowsMarked
  <2> QED
    BY <2>1, <2>2 DEF Talk!DraftStays, Talk!Listed
<1>3. CASE Talk!Titled
  <2>1. Talk!DraftStays' /\ drifted' \in BOOLEAN
    BY <1>3, ListensKeeps DEF Talk!Titled
  <2>2. Talk!Listed' = Talk!Listed /\ rows' = rows
    BY <1>3 DEF Talk!Titled, Talk!Listed
  <2> QED
    BY <2>1, <2>2
<1>4. ASSUME NEW c \in Talks, Talk!SubmitCreated(c)
      PROVE  TalkShown'
  <2>1. rows' \in [Talks -> Seq(MarkedRows)] /\ Talk!Listed' \subseteq Talks
    BY <1>4 DEF Talk!SubmitCreated, Talk!Listed
  <2>2. Talk!DraftStays' /\ drifted' \in BOOLEAN
    BY <1>4 DEF Talk!SubmitCreated, Talk!DraftStays
  <2> QED
    BY <2>1, <2>2
<1>5. ASSUME NEW text \in Talk!Texts, NEW n \in 0..MaxSources, Talk!Answer(text, n)
      PROVE  TalkShown'
  <2>1. /\ sent.talk \in Talks
        /\ Talk!AppendRow(sent.talk, Talk!ShownRow("assistant", "text", Talk!Linked(text), Talk!Cited(text, n)))
        /\ UNCHANGED <<titles, current, draft, drifted>>
    BY <1>5 DEF Talk!Answer
  <2>2. rows' \in [Talks -> Seq(MarkedRows)]
    BY <2>1, RowAppended, RowsMarked
  <2> QED
    BY <2>1, <2>2 DEF Talk!DraftStays, Talk!Listed
<1>6. ASSUME NEW says \in {"limit", "text"}, Talk!Fail(says)
      PROVE  TalkShown'
  <2>1. UNCHANGED <<titles, current, draft, drifted>>
    BY <1>6 DEF Talk!Fail
  <2>2. rows' \in [Talks -> Seq(MarkedRows)]
    <3>1. CASE UNCHANGED rows
      BY <3>1
    <3>2. CASE sent.talk \in Talks /\ Talk!AppendRow(sent.talk, Talk!ShownRow("system", says, {}, <<>>))
      BY <3>2, RowAppended, RowsMarked
    <3> QED
      BY <1>6, <3>1, <3>2 DEF Talk!Fail
  <2> QED
    BY <2>1, <2>2 DEF Talk!DraftStays, Talk!Listed
<1> QED
  BY <1>1, <1>2, <1>3, <1>4, <1>5, <1>6 DEF Talk!Composing

\* The sidebar, and other tabs.
LEMMA SidebarStep ==
    ASSUME TalkShown,
           \/ Talk!Sidebar \/ Talk!Refresh
           \/ \E c \in Talks : Talk!Elsewhere(c)
    PROVE  TalkShown'
<1> USE DEF TalkShown, TalkTypes
<1>1. CASE Talk!Refresh
  <2>1. Talk!DraftStays' /\ drifted' \in BOOLEAN
    BY <1>1, ListensKeeps DEF Talk!Refresh
  <2> QED
    BY <1>1, <2>1 DEF Talk!Refresh, Talk!Listed
<1>2. ASSUME NEW c \in Talks, Talk!Elsewhere(c)
      PROVE  TalkShown'
  BY <1>2 DEF Talk!Elsewhere, Talk!Listed, Talk!DraftStays
<1>3. ASSUME NEW c \in Talks, Talk!Switch(c) \/ Talk!OpenRename(c) \/ Talk!OpenDelete(c)
      PROVE  TalkShown'
  BY <1>3 DEF Talk!Switch, Talk!OpenRename, Talk!OpenDelete, Talk!Listed, Talk!DraftStays, Talk!Blank
<1>4. CASE Talk!NewChat \/ Talk!TypeTitle \/ Talk!Cancel \/ Talk!SaveTitle \/ Talk!ConfirmDelete
  BY <1>4 DEF Talk!NewChat, Talk!TypeTitle, Talk!Cancel, Talk!SaveTitle, Talk!ConfirmDelete, Talk!Starts,
    Talk!Listed, Talk!DraftStays
<1>5. ASSUME NEW d \in deeds, Talk!Renamed(d) \/ Talk!Deleted(d)
      PROVE  TalkShown'
  <2>1. Talk!DraftStays' /\ drifted' \in BOOLEAN
    BY <1>5, ListensKeeps DEF Talk!Renamed, Talk!Deleted
  <2>2. Talk!Listed' \subseteq Talk!Listed /\ rows' = rows
    BY <1>5 DEF Talk!Renamed, Talk!Deleted, Talk!Listed
  <2> QED
    BY <2>1, <2>2
<1>6. ASSUME NEW d \in deeds, NEW c \in Talks, Talk!Created(d, c)
      PROVE  TalkShown'
  <2>1. rows' \in [Talks -> Seq(MarkedRows)] /\ Talk!Listed' \subseteq Talks
    BY <1>6 DEF Talk!Created, Talk!Listed
  <2>2. Talk!DraftStays' /\ drifted' \in BOOLEAN
    BY <1>6 DEF Talk!Created, Talk!DraftStays, Talk!Blank
  <2> QED
    BY <2>1, <2>2
<1>7. ASSUME NEW d \in deeds, Talk!Dropped(d)
      PROVE  TalkShown'
  BY <1>7 DEF Talk!Dropped, Talk!Listed, Talk!DraftStays
<1> QED
  BY <1>1, <1>2, <1>3, <1>4, <1>5, <1>6, <1>7 DEF Talk!Sidebar

\* What is said of the conversations holds at every visit of the chat.
THEOREM ConversationInductive == ViewsSpec => [](route = "chat" => TalkShown)
<1>1. ViewsInit => (route = "chat" => TalkShown)
  <2> SUFFICES ASSUME ViewsInit, route = "chat"
               PROVE  TalkShown
    OBVIOUS
  <2>1. Talk!ChatPaneInit
    BY DEF ViewsInit
  <2>2. Talk!Listed \subseteq Talks
    BY <2>1 DEF Talk!ChatPaneInit, Talk!Listed
  <2>3. rows \in [Talks -> Seq(MarkedRows)]
    BY <2>1 DEF Talk!ChatPaneInit
  <2>4. Talk!DraftStays /\ drifted \in BOOLEAN
    BY <2>1 DEF Talk!ChatPaneInit, Talk!DraftStays, Talk!Blank
  <2> QED
    BY <2>2, <2>3, <2>4 DEF TalkShown, TalkTypes
<1>2. (route = "chat" => TalkShown) /\ [ViewsNext]_viewsVars => (route = "chat" => TalkShown)'
  <2> SUFFICES ASSUME [ViewsNext]_viewsVars, route = "chat", TalkShown
               PROVE  TalkShown'
    BY OnePage
  <2>1. CASE Talk!ChatPaneNext
    BY <2>1, ComposeStep, SidebarStep DEF Talk!ChatPaneNext
  <2>2. CASE UNCHANGED talkVars
    BY <2>2 DEF talkVars, TalkShown, TalkTypes, Talk!Listed, Talk!DraftStays
  <2> QED
    BY <2>1, <2>2, OnePage
<1> QED
  BY <1>1, <1>2, PTL DEF ViewsSpec

\* ChatPage: a mark of an answer opens its source or none, though the sources that are not marked
\* are dropped, and a draft stays with the conversation it was typed for.
THEOREM MarksOpen == ViewsSpec => []ChatShown
<1>1. (route = "chat" => TalkShown) => ChatShown
  <2> SUFFICES ASSUME route = "chat", TalkShown
               PROVE  Talk!MarkOpensItsSource /\ Talk!DraftStays
    BY DEF ChatShown
  <2>1. ASSUME NEW c \in Talks, NEW i \in DOMAIN rows[c]
        PROVE  rows[c][i] \in MarkedRows
    BY <2>1 DEF TalkShown, TalkTypes
  <2>2. \A r \in MarkedRows : \A n \in r.marks : Talk!Opens(r, n) \in {0, n}
    BY DEF MarkedRows
  <2>3. Talk!MarkOpensItsSource
    BY <2>1, <2>2 DEF Talk!MarkOpensItsSource
  <2> QED
    BY <2>3 DEF TalkShown
<1> QED
  BY <1>1, ConversationInductive, PTL

--------------------------------------------------------------------------------
(* What is dropped from the desktop.  The disk is of any size and depth: its walk, down one       *)
(* directory after the other, finds what the trails from the dropped items lead to.               *)

Words == {NameOf[n] : n \in Disk} \cup {Row} \cup {Folder[i] : i \in DOMAIN Folder}
DirSeqs == Seq(DOMAIN Parts)
Nodes == [node : Disk, dir : Seq(Words)]

\* A set of naturals that has 0 and the successor of each of its members has all of them.
LEMMA NatSets ==
    ASSUME NEW T, T \subseteq Nat, 0 \in T, \A n \in T : n + 1 \in T
    PROVE  T = Nat
<1> SUFFICES ASSUME Nat \ T # {} PROVE FALSE
  OBVIOUS
<1>1. PICK m \in Nat \ T : \A n \in Nat \ T : ~(<<n, m>> \in OpToRel(<, Nat))
  BY NatLessThanWellFounded, WFMin
<1>2. m - 1 \in Nat /\ m - 1 < m
  OBVIOUS
<1>3. m - 1 \in T
  BY <1>1, <1>2 DEF OpToRel
<1> QED
  BY <1>2, <1>3

\* The walk's layers, as Desk!Below has them.
Layers(n) ==
    LET below[k \in 0..Desk!Deepest] ==
          IF k = 0 THEN {[node |-> n, dir |-> Desk!Root]} ELSE Desk!Held(below[k - 1])
    IN below

LEMMA Sizes ==
    /\ Desk!Deepest \in Nat /\ Cardinality(DOMAIN Parts) \in Nat
    /\ Cardinality(DOMAIN Parts) <= Desk!Deepest
<1>1. IsFiniteSet(Disk) /\ DOMAIN Parts \subseteq Disk
  BY DiskAssumption
<1>2. IsFiniteSet(DOMAIN Parts) /\ Cardinality(DOMAIN Parts) <= Cardinality(Disk)
  BY <1>1, FS_Subset
<1>3. Cardinality(Disk) \in Nat /\ Cardinality(DOMAIN Parts) \in Nat
  BY <1>1, <1>2, FS_CardinalityType
<1> QED
  <2>1. Desk!Deepest = Cardinality(Disk)
    BY DEF Desk!Deepest, Desk!Cardinality, Cardinality
  <2> QED
    BY <1>2, <1>3, <2>1

LEMMA WalkExists ==
    ASSUME NEW A, NEW m \in Nat
    PROVE  \E g : g = [k \in 0..m |-> IF k = 0 THEN A ELSE Desk!Held(g[k - 1])]
<1> DEFINE T == {n \in Nat : \E g : g = [k \in 0..n |-> IF k = 0 THEN A ELSE Desk!Held(g[k - 1])]}
<1>1. 0 \in T
  <2> DEFINE g == [k \in 0..0 |-> A]
  <2>1. g = [k \in 0..0 |-> IF k = 0 THEN A ELSE Desk!Held(g[k - 1])]
    OBVIOUS
  <2> QED
    BY <2>1
<1>2. ASSUME NEW n \in T PROVE n + 1 \in T
  <2>1. PICK g : g = [k \in 0..n |-> IF k = 0 THEN A ELSE Desk!Held(g[k - 1])]
    OBVIOUS
  <2> DEFINE h == [k \in 0..n + 1 |-> IF k = n + 1 THEN Desk!Held(g[n]) ELSE g[k]]
  <2>2. n \in Nat /\ h = [k \in 0..n + 1 |-> h[k]]
    OBVIOUS
  <2>3. \A k \in 0..n + 1 : h[k] = IF k = 0 THEN A ELSE Desk!Held(h[k - 1])
    BY <2>1, <2>2
  <2> HIDE DEF h
  <2>4. h = [k \in 0..n + 1 |-> IF k = 0 THEN A ELSE Desk!Held(h[k - 1])]
    BY <2>2, <2>3
  <2>5. \E f : f = [k \in 0..n + 1 |-> IF k = 0 THEN A ELSE Desk!Held(f[k - 1])]
    BY <2>4
  <2>6. n + 1 \in Nat
    BY <2>2
  <2> QED
    BY <2>5, <2>6, Zenon
<1>3. T = Nat
  <2> HIDE DEF T
  <2>1. T \subseteq Nat
    BY DEF T
  <2> QED
    BY <1>1, <1>2, <2>1, NatSets
<1>4. m \in T
  BY <1>3
<1> QED
  BY <1>4

LEMMA LayerSteps ==
    ASSUME NEW n
    PROVE  /\ Desk!Below(n) = UNION {Layers(n)[k] : k \in 0..Desk!Deepest}
           /\ Layers(n)[0] = {[node |-> n, dir |-> Desk!Root]}
           /\ \A k \in 1..Desk!Deepest : Layers(n)[k] = Desk!Held(Layers(n)[k - 1])
<1> DEFINE below[k \in 0..Desk!Deepest] ==
               IF k = 0 THEN {[node |-> n, dir |-> Desk!Root]} ELSE Desk!Held(below[k - 1])
<1>1. \E g : g = [k \in 0..Desk!Deepest |->
                    IF k = 0 THEN {[node |-> n, dir |-> Desk!Root]} ELSE Desk!Held(g[k - 1])]
  <2>1. Desk!Deepest \in Nat
    BY Sizes
  <2> QED
    BY <2>1, WalkExists
<1>2. below = [k \in 0..Desk!Deepest |->
                    IF k = 0 THEN {[node |-> n, dir |-> Desk!Root]} ELSE Desk!Held(below[k - 1])]
  BY <1>1
<1>3. Layers(n) = below
  BY DEF Layers
<1>4. Desk!Below(n) = UNION {below[k] : k \in 0..Desk!Deepest}
  BY DEF Desk!Below
<1> HIDE DEF below
<1>5. below[0] = {[node |-> n, dir |-> Desk!Root]}
  BY <1>2, Sizes
<1>6. ASSUME NEW k \in 1..Desk!Deepest PROVE below[k] = Desk!Held(below[k - 1])
  <2>1. k \in 0..Desk!Deepest /\ k # 0
    BY Sizes
  <2> QED
    BY <1>2, <2>1
<1> QED
  BY <1>3, <1>4, <1>5, <1>6

\* The directories from a node down to another, the node's own first.
Leads(n, dirs, f) ==
    /\ Append(dirs, f)[1] = n
    /\ \A i \in DOMAIN dirs : Append(dirs, f)[i + 1] \in Desk!Entries(dirs[i])

LEMMA EntriesOnDisk ==
    ASSUME NEW d \in DOMAIN Parts
    PROVE  d \in Disk /\ Desk!Entries(d) \subseteq Disk
<1>1. DOMAIN Parts \subseteq Disk /\ Parts[d] \in Seq((SUBSET Disk) \ {{}})
  BY DiskAssumption
<1> QED
  BY <1>1 DEF Desk!Entries

LEMMA NamesWords ==
    ASSUME NEW dirs \in Seq(Disk)
    PROVE  Desk!NamesOf(dirs) \in Seq(Words) /\ Len(Desk!NamesOf(dirs)) = Len(dirs)
<1>1. \A i \in 1..Len(dirs) : NameOf[dirs[i]] \in Words
  BY DEF Words
<1>2. DOMAIN dirs = 1..Len(dirs) /\ Len(dirs) \in Nat
  OBVIOUS
<1>3. Desk!NamesOf(dirs) = [i \in 1..Len(dirs) |-> NameOf[dirs[i]]]
  BY <1>2 DEF Desk!NamesOf
<1> QED
  BY <1>1, <1>2, <1>3

LEMMA DirsOnDisk == DirSeqs \subseteq Seq(Disk)
BY DiskAssumption, SeqMonotonic DEF DirSeqs

LEMMA LeadsLonger ==
    ASSUME NEW n, NEW dirs \in Seq(Disk), NEW d \in Disk, NEW f \in Disk
    PROVE  /\ Leads(n, Append(dirs, d), f) <=> Leads(n, dirs, d) /\ f \in Desk!Entries(d)
           /\ Desk!NamesOf(Append(dirs, d)) = Append(Desk!NamesOf(dirs), NameOf[d])
<1> DEFINE down == Append(dirs, d)
           way == Append(down, f)
           m == Len(dirs)
<1>1. /\ m \in Nat /\ DOMAIN dirs = 1..m /\ down \in Seq(Disk) /\ Len(down) = m + 1
      /\ DOMAIN down = 1..m + 1 /\ \A i \in 1..m : down[i] = dirs[i]
      /\ down[m + 1] = d
  OBVIOUS
<1>2. way[m + 2] = f /\ \A i \in 1..m + 1 : way[i] = down[i]
  BY <1>1
<1> HIDE DEF down, way, m
<1>3. Leads(n, down, f) <=> Leads(n, dirs, d) /\ f \in Desk!Entries(d)
  <2>1. Leads(n, down, f) <=> way[1] = n /\ \A i \in 1..m + 1 : way[i + 1] \in Desk!Entries(down[i])
    BY <1>1 DEF Leads, way
  <2>2. Leads(n, dirs, d) <=> down[1] = n /\ \A i \in 1..m : down[i + 1] \in Desk!Entries(dirs[i])
    BY <1>1 DEF Leads, down
  <2>3. way[1] = down[1]
    BY <1>1, <1>2
  <2>4. \A i \in 1..m : way[i + 1] = down[i + 1] /\ down[i] = dirs[i]
    BY <1>1, <1>2
  <2>5. way[(m + 1) + 1] = f /\ down[m + 1] = d
    BY <1>1, <1>2
  <2>6. \A i : i \in 1..m + 1 <=> i \in 1..m \/ i = m + 1
    BY <1>1
  <2> QED
    BY <2>1, <2>2, <2>3, <2>4, <2>5, <2>6
<1>4. Desk!NamesOf(down) = Append(Desk!NamesOf(dirs), NameOf[d])
  <2>1. Desk!NamesOf(down) = [i \in 1..m + 1 |-> NameOf[down[i]]]
    BY <1>1 DEF Desk!NamesOf
  <2>2. Desk!NamesOf(down) \in Seq(Words) /\ Len(Desk!NamesOf(down)) = m + 1
    BY <1>1, NamesWords
  <2>3. /\ Desk!NamesOf(dirs) \in Seq(Words) /\ Len(Desk!NamesOf(dirs)) = m
        /\ Desk!NamesOf(dirs) = [i \in 1..m |-> NameOf[dirs[i]]]
    BY <1>1, NamesWords DEF Desk!NamesOf, m
  <2>4. NameOf[d] \in Words
    BY DEF Words
  <2>5. /\ Append(Desk!NamesOf(dirs), NameOf[d]) \in Seq(Words)
        /\ Len(Append(Desk!NamesOf(dirs), NameOf[d])) = m + 1
        /\ \A i \in 1..m : Append(Desk!NamesOf(dirs), NameOf[d])[i] = Desk!NamesOf(dirs)[i]
        /\ Append(Desk!NamesOf(dirs), NameOf[d])[m + 1] = NameOf[d]
    BY <1>1, <2>3, <2>4, AppendProperties
  <2>6. ASSUME NEW i \in 1..m + 1
        PROVE  Desk!NamesOf(down)[i] = Append(Desk!NamesOf(dirs), NameOf[d])[i]
    <3>1. CASE i \in 1..m
      BY <1>1, <2>1, <2>3, <2>5, <3>1
    <3>2. CASE i = m + 1
      BY <1>1, <2>1, <2>5, <3>2
    <3>3. i \in 1..m \/ i = m + 1
      BY <1>1
    <3> QED
      BY <3>1, <3>2, <3>3
  <2> QED
    BY <1>1, <2>2, <2>5, <2>6, SeqEqual
<1> QED
  BY <1>3, <1>4 DEF down

\* What some trails of a length lead to.
TrailEnds(n, k) ==
    {x \in Nodes : \E dirs \in DirSeqs : /\ Len(dirs) = k /\ Leads(n, dirs, x.node)
                                         /\ x.dir = Desk!NamesOf(dirs)}

LEMMA HeldTrails ==
    ASSUME NEW n \in Disk, NEW k \in Nat
    PROVE  Desk!Held(TrailEnds(n, k)) = TrailEnds(n, k + 1)
<1>1. ASSUME NEW x \in Desk!Held(TrailEnds(n, k)) PROVE x \in TrailEnds(n, k + 1)
  <2>1. PICK y \in TrailEnds(n, k) :
          /\ y.node \in DOMAIN Parts
          /\ \E c \in Desk!Entries(y.node) : x = [node |-> c, dir |-> Append(y.dir, NameOf[y.node])]
    BY <1>1 DEF Desk!Held, Desk!IsDir
  <2>2. PICK c \in Desk!Entries(y.node) : x = [node |-> c, dir |-> Append(y.dir, NameOf[y.node])]
    BY <2>1
  <2>3. PICK dirs \in DirSeqs : /\ Len(dirs) = k /\ Leads(n, dirs, y.node)
                                /\ y.dir = Desk!NamesOf(dirs)
    BY DEF TrailEnds
  <2>4. y.node \in Disk /\ c \in Disk /\ dirs \in Seq(Disk)
    BY <2>1, EntriesOnDisk, DirsOnDisk
  <2> DEFINE longer == Append(dirs, y.node)
  <2>5. longer \in DirSeqs /\ longer \in Seq(Disk) /\ Len(longer) = k + 1
    BY <2>1, <2>3, <2>4, AppendProperties DEF DirSeqs
  <2>6. Leads(n, longer, c) /\ x.dir = Desk!NamesOf(longer) /\ x.node = c
    BY <2>2, <2>3, <2>4, LeadsLonger
  <2>7. x \in Nodes
    BY <2>2, <2>4, <2>5, <2>6, NamesWords DEF Nodes
  <2> HIDE DEF longer
  <2> QED
    BY <2>5, <2>6, <2>7 DEF TrailEnds
<1>2. ASSUME NEW x \in TrailEnds(n, k + 1) PROVE x \in Desk!Held(TrailEnds(n, k))
  <2>1. PICK dirs \in DirSeqs : /\ Len(dirs) = k + 1 /\ Leads(n, dirs, x.node)
                                /\ x.dir = Desk!NamesOf(dirs)
    BY DEF TrailEnds
  <2>2. x \in Nodes /\ x = [node |-> x.node, dir |-> x.dir] /\ x.node \in Disk
    BY DEF TrailEnds, Nodes
  <2> DEFINE shorter == [i \in 1..k |-> dirs[i]]
             d == dirs[k + 1]
  <2>3. \A i \in 1..k + 1 : dirs[i] \in DOMAIN Parts
    BY <2>1 DEF DirSeqs
  <2>4. shorter \in DirSeqs /\ Len(shorter) = k /\ d \in DOMAIN Parts
    BY <2>3 DEF DirSeqs
  <2>5. shorter \in Seq(Disk) /\ d \in Disk
    BY <2>4, DirsOnDisk, EntriesOnDisk
  <2>6. dirs = Append(shorter, d)
    <3>1. /\ Append(shorter, d) \in DirSeqs /\ Len(Append(shorter, d)) = k + 1
          /\ \A i \in 1..k + 1 : Append(shorter, d)[i] = IF i = k + 1 THEN d ELSE shorter[i]
      BY <2>4, AppendProperties DEF DirSeqs
    <3>2. \A i \in 1..k + 1 : Append(shorter, d)[i] = dirs[i]
      BY <3>1
    <3> HIDE DEF shorter, d
    <3> QED
      BY <2>1, <3>1, <3>2, SeqEqual DEF DirSeqs
  <2> HIDE DEF shorter, d
  <2>7. /\ Leads(n, shorter, d) /\ x.node \in Desk!Entries(d)
        /\ x.dir = Append(Desk!NamesOf(shorter), NameOf[d])
    BY <2>1, <2>2, <2>5, <2>6, LeadsLonger
  <2> DEFINE y == [node |-> d, dir |-> Desk!NamesOf(shorter)]
  <2>8. y \in TrailEnds(n, k)
    BY <2>4, <2>5, <2>7, NamesWords DEF TrailEnds, Nodes
  <2>9. Desk!IsDir(y.node) /\ x.node \in Desk!Entries(y.node)
    BY <2>4, <2>7 DEF Desk!IsDir
  <2>10. x = [node |-> x.node, dir |-> Append(y.dir, NameOf[y.node])]
    BY <2>2, <2>7
  <2> HIDE DEF y
  <2> QED
    BY <2>8, <2>9, <2>10 DEF Desk!Held
<1> QED
  BY <1>1, <1>2

LEMMA LayerTrails ==
    ASSUME NEW n \in Disk, NEW k \in 0..Desk!Deepest
    PROVE  Layers(n)[k] = TrailEnds(n, k)
<1> DEFINE T == {j \in Nat : j <= Desk!Deepest => Layers(n)[j] = TrailEnds(n, j)}
<1>1. 0 \in T
  <2>1. ASSUME NEW x PROVE x \in TrailEnds(n, 0) <=> x = [node |-> n, dir |-> Desk!Root]
    <3>1. \A dirs \in DirSeqs : Len(dirs) = 0 <=> dirs = <<>>
      BY DEF DirSeqs
    <3>2. <<>> \in DirSeqs
      BY DEF DirSeqs
    <3>3. Desk!NamesOf(<<>>) = <<>>
      BY DEF Desk!NamesOf
    <3>4. \A f : Leads(n, <<>>, f) <=> f = n
      BY DEF Leads
    <3>5. x \in TrailEnds(n, 0) <=> x \in Nodes /\ x.node = n /\ x.dir = <<>>
      BY <3>1, <3>2, <3>3, <3>4 DEF TrailEnds
    <3>6. x \in Nodes => x = [node |-> x.node, dir |-> x.dir]
      BY DEF Nodes
    <3>7. [node |-> n, dir |-> <<>>] \in Nodes
      BY DEF Nodes
    <3> QED
      BY <3>5, <3>6, <3>7 DEF Desk!Root
  <2> QED
    BY <2>1, LayerSteps
<1>2. ASSUME NEW j \in T PROVE j + 1 \in T
  <2>1. j \in Nat /\ j + 1 \in Nat
    OBVIOUS
  <2>2. ASSUME j + 1 <= Desk!Deepest
        PROVE  Layers(n)[j + 1] = TrailEnds(n, j + 1)
    <3>1. j + 1 \in 1..Desk!Deepest /\ (j + 1) - 1 = j /\ j <= Desk!Deepest
      BY <2>1, <2>2, Sizes
    <3>2. Layers(n)[j] = TrailEnds(n, j)
      BY <3>1
    <3>3. Layers(n)[j + 1] = Desk!Held(Layers(n)[j])
      BY <3>1, LayerSteps
    <3> QED
      BY <2>1, <3>2, <3>3, HeldTrails
  <2> QED
    BY <2>1, <2>2
<1>3. T = Nat
  <2> HIDE DEF T
  <2>1. T \subseteq Nat
    BY DEF T
  <2> QED
    BY <1>1, <1>2, <2>1, NatSets
<1>4. k \in T
  BY <1>3, Sizes
<1> QED
  BY <1>4, Sizes

\* No directory is within itself: a trail is no longer than there are directories.
LEMMA TrailsAreShort ==
    ASSUME NEW n, NEW dirs \in DirSeqs, NEW f, Leads(n, dirs, f)
    PROVE  Len(dirs) <= Cardinality(DOMAIN Parts)
<1>1. PICK rank \in [DOMAIN Parts -> 1..Cardinality(DOMAIN Parts)] :
          \A d \in DOMAIN Parts : \A i \in DOMAIN Parts[d] :
              \A e \in Parts[d][i] \cap DOMAIN Parts : rank[d] < rank[e]
  BY DiskAssumption
<1>2. \A d \in DOMAIN Parts : \A e \in Desk!Entries(d) \cap DOMAIN Parts : rank[d] < rank[e]
  BY <1>1 DEF Desk!Entries
<1>3. /\ Len(dirs) \in Nat /\ DOMAIN dirs = 1..Len(dirs)
      /\ \A i \in 1..Len(dirs) : dirs[i] \in DOMAIN Parts
  BY DEF DirSeqs
<1>4. \A i \in 1..Len(dirs) : rank[dirs[i]] \in Nat /\ rank[dirs[i]] <= Cardinality(DOMAIN Parts)
  BY <1>1, <1>3, Sizes
<1>5. \A i \in 1..Len(dirs) : i + 1 \in 1..Len(dirs) => rank[dirs[i]] < rank[dirs[i + 1]]
  <2> SUFFICES ASSUME NEW i \in 1..Len(dirs), i + 1 \in 1..Len(dirs)
               PROVE  rank[dirs[i]] < rank[dirs[i + 1]]
    OBVIOUS
  <2>1. Append(dirs, f)[i + 1] = dirs[i + 1]
    BY DEF DirSeqs
  <2>2. dirs[i + 1] \in Desk!Entries(dirs[i])
    BY <1>3, <2>1 DEF Leads
  <2> QED
    BY <1>2, <1>3, <2>2
<1> DEFINE T == {i \in Nat : i \in 1..Len(dirs) => i <= rank[dirs[i]]}
<1>6. 0 \in T
  OBVIOUS
<1>7. ASSUME NEW i \in T PROVE i + 1 \in T
  <2>1. i \in Nat /\ i + 1 \in Nat
    OBVIOUS
  <2>2. ASSUME i + 1 \in 1..Len(dirs) PROVE i + 1 <= rank[dirs[i + 1]]
    <3>1. CASE i = 0
      BY <1>1, <1>3, <2>2, <3>1, Sizes
    <3>2. CASE i # 0
      <4>1. i \in 1..Len(dirs)
        BY <1>3, <2>1, <2>2, <3>2
      <4>2. i <= rank[dirs[i]] /\ rank[dirs[i]] < rank[dirs[i + 1]]
        BY <1>5, <2>2, <4>1
      <4> QED
        BY <1>4, <2>1, <2>2, <4>1, <4>2
    <3> QED
      BY <3>1, <3>2
  <2> QED
    BY <2>1, <2>2
<1>8. T = Nat
  <2> HIDE DEF T
  <2>1. T \subseteq Nat
    BY DEF T
  <2> QED
    BY <1>6, <1>7, <2>1, NatSets
<1>9. Len(dirs) \in T
  BY <1>3, <1>8
<1>10. CASE Len(dirs) = 0
  BY <1>10, Sizes
<1>11. CASE Len(dirs) # 0
  <2>1. Len(dirs) \in 1..Len(dirs)
    BY <1>3, <1>11
  <2>2. Len(dirs) <= rank[dirs[Len(dirs)]]
    BY <1>9, <2>1
  <2> QED
    BY <1>3, <1>4, <2>1, <2>2, Sizes
<1> QED
  BY <1>10, <1>11

\* The files the walk finds below a node: what its trails lead to.
LEMMA WalkFinds ==
    ASSUME NEW n \in Disk
    PROVE  Desk!Below(n) = {x \in Nodes : \E dirs \in DirSeqs : /\ Leads(n, dirs, x.node)
                                                                /\ x.dir = Desk!NamesOf(dirs)}
<1>1. ASSUME NEW dirs \in DirSeqs, NEW f, Leads(n, dirs, f)
      PROVE  Len(dirs) \in 0..Desk!Deepest
  <2>1. Len(dirs) \in Nat
    BY DEF DirSeqs
  <2>2. Len(dirs) <= Cardinality(DOMAIN Parts)
    BY <1>1, TrailsAreShort
  <2> QED
    BY <2>1, <2>2, Sizes
<1>2. Desk!Below(n) = UNION {Layers(n)[k] : k \in 0..Desk!Deepest}
  BY LayerSteps
<1>3. \A k \in 0..Desk!Deepest : Layers(n)[k] = TrailEnds(n, k)
  BY LayerTrails
<1>4. \A x : x \in Desk!Below(n) <=> \E k \in 0..Desk!Deepest : x \in TrailEnds(n, k)
  BY <1>2, <1>3
<1> QED
  BY <1>1, <1>4 DEF TrailEnds

--------------------------------------------------------------------------------
Wish(x, aim) == [file |-> x.node, folder |-> aim \o x.dir]

\* What is found below the items that can be read is what is wanted of them.
LEMMA TrailWanted ==
    ASSUME NEW r, NEW f \in Disk \ DOMAIN Parts, NEW dirs \in Desk!Trails(r, f),
           browser = "files" => dirs = <<>>
    PROVE  [file |-> f, folder |-> reads[r].aim \o Desk!NamesOf(dirs)] \in Desk!Wanted(r)
<1>1. dirs \in {way \in Desk!Trails(r, f) : browser = "files" => way = <<>>}
  OBVIOUS
<1> DEFINE W(g) == {[file |-> g, folder |-> reads[r].aim \o Desk!NamesOf(ds)] :
                      ds \in {way \in Desk!Trails(r, g) : browser = "files" => way = <<>>}}
<1>2. [file |-> f, folder |-> reads[r].aim \o Desk!NamesOf(dirs)] \in W(f)
  BY <1>1
<1>3. Desk!Wanted(r) = UNION {W(g) : g \in Disk \ DOMAIN Parts}
  BY DEF Desk!Wanted
<1> HIDE DEF W
<1> QED
  BY <1>2, <1>3

LEMMA FoundIsWanted ==
    ASSUME NEW r, reads[r].items \subseteq Disk,
           IF browser = "files" THEN reads[r].failed = {}
           ELSE reads[r].got = UNION {Desk!FilesBelow(n) : n \in reads[r].items \ reads[r].failed}
    PROVE  /\ Desk!Wanted(r) = {Wish(x, reads[r].aim) : x \in Desk!FoundIn(r)}
           /\ Desk!FoundIn(r) \subseteq Nodes
<1> DEFINE good == reads[r].items \ reads[r].failed
           Trail(f) == {dirs \in DirSeqs : \E n \in good : Leads(n, dirs, f)}
<1>1. good \subseteq Disk
  OBVIOUS
<1>2. ASSUME NEW f PROVE Desk!Trails(r, f) = Trail(f)
  <2>1. ASSUME NEW dirs, NEW n, Leads(n, dirs, f), dirs \in DirSeqs
        PROVE  dirs \in Desk!SeqOf(DOMAIN Parts, Desk!Cardinality(DOMAIN Parts))
    <3>1. Len(dirs) <= Cardinality(DOMAIN Parts) /\ Len(dirs) \in Nat
      BY <2>1, TrailsAreShort DEF DirSeqs
    <3>2. dirs \in [1..Len(dirs) -> DOMAIN Parts]
      BY <2>1 DEF DirSeqs
    <3>3. Len(dirs) \in 0..Cardinality(DOMAIN Parts)
      BY <3>1, Sizes
    <3>4. Desk!Cardinality(DOMAIN Parts) = Cardinality(DOMAIN Parts)
      BY DEF Desk!Cardinality, Cardinality
    <3> QED
      BY <3>2, <3>3, <3>4 DEF Desk!SeqOf
  <2>2. ASSUME NEW dirs \in Desk!SeqOf(DOMAIN Parts, Desk!Cardinality(DOMAIN Parts))
        PROVE  dirs \in DirSeqs
    <3>1. PICK m \in 0..Desk!Cardinality(DOMAIN Parts) : dirs \in [1..m -> DOMAIN Parts]
      BY DEF Desk!SeqOf
    <3>2. m \in Nat
      OBVIOUS
    <3> QED
      BY <3>1, <3>2 DEF DirSeqs
  <2>3. ASSUME NEW dirs \in DirSeqs
        PROVE  (\E n \in good : Leads(n, dirs, f)) <=>
                 /\ Append(dirs, f)[1] \in good
                 /\ \A i \in DOMAIN dirs : \E k \in DOMAIN Parts[dirs[i]] :
                       Append(dirs, f)[i + 1] \in Parts[dirs[i]][k]
    BY DEF Leads, Desk!Entries
  <2> QED
    BY <2>1, <2>2, <2>3 DEF Desk!Trails
<1> HIDE DEF good
<1>3. CASE browser # "files"
  <2>1. Desk!FoundIn(r) = UNION {Desk!FilesBelow(n) : n \in good}
    BY <1>3 DEF Desk!FoundIn, good
  <2>2. \A x : x \in Desk!FoundIn(r) <=>
               /\ x \in Nodes /\ x.node \notin DOMAIN Parts
               /\ \E dirs \in Trail(x.node) : x.dir = Desk!NamesOf(dirs)
    BY <1>1, <2>1, WalkFinds DEF Desk!FilesBelow, Desk!IsDir
  <2>3. ASSUME NEW w \in Desk!Wanted(r)
        PROVE  w \in {Wish(x, reads[r].aim) : x \in Desk!FoundIn(r)}
    <3>0. PICK f \in Disk \ DOMAIN Parts : \E dirs \in Trail(f) :
            w = [file |-> f, folder |-> reads[r].aim \o Desk!NamesOf(dirs)]
      BY <1>2, <1>3 DEF Desk!Wanted
    <3>1. PICK dirs \in Trail(f) :
            w = [file |-> f, folder |-> reads[r].aim \o Desk!NamesOf(dirs)]
      BY <3>0
    <3> DEFINE x == [node |-> f, dir |-> Desk!NamesOf(dirs)]
    <3>2. x \in Nodes
      BY DirsOnDisk, NamesWords DEF Nodes
    <3>3. x \in Desk!FoundIn(r)
      BY <2>2, <3>2
    <3>4. w = Wish(x, reads[r].aim)
      BY <3>1 DEF Wish
    <3> QED
      BY <3>3, <3>4
  <2>4. ASSUME NEW x \in Desk!FoundIn(r)
        PROVE  Wish(x, reads[r].aim) \in Desk!Wanted(r)
    <3>1. x.node \in Disk \ DOMAIN Parts
      BY <2>2 DEF Nodes
    <3>2. PICK dirs \in Trail(x.node) : x.dir = Desk!NamesOf(dirs)
      BY <2>2
    <3>3. Wish(x, reads[r].aim) = [file |-> x.node, folder |-> reads[r].aim \o Desk!NamesOf(dirs)]
      BY <3>2 DEF Wish
    <3>4. dirs \in Desk!Trails(r, x.node)
      BY <1>2
    <3> HIDE DEF Trail
    <3> QED
      BY <1>3, <3>1, <3>3, <3>4, TrailWanted
  <2> QED
    BY <2>2, <2>3, <2>4
<1>4. CASE browser = "files"
  <2>1. good = reads[r].items
    BY <1>4 DEF good
  <2>2. ASSUME NEW f PROVE <<>> \in Trail(f) <=> f \in good
    <3>1. <<>> \in DirSeqs
      BY DEF DirSeqs
    <3>2. \A n : Leads(n, <<>>, f) <=> f = n
      BY DEF Leads
    <3> QED
      BY <3>1, <3>2
  <2>3. Desk!NamesOf(<<>>) = <<>>
    BY DEF Desk!NamesOf
  <2> HIDE DEF Trail
  <2>4. Desk!Wanted(r) =
          UNION {{[file |-> f, folder |-> reads[r].aim \o <<>>] : dirs \in {way \in Trail(f) : way = <<>>}} :
                    f \in Disk \ DOMAIN Parts}
    <3>1. ASSUME NEW w \in Desk!Wanted(r)
          PROVE  \E f \in Disk \ DOMAIN Parts : \E dirs \in {way \in Trail(f) : way = <<>>} :
                    w = [file |-> f, folder |-> reads[r].aim \o <<>>]
      BY <1>2, <1>4, <2>3 DEF Desk!Wanted
    <3>2. ASSUME NEW f \in Disk \ DOMAIN Parts, NEW dirs \in {way \in Trail(f) : way = <<>>}
          PROVE  [file |-> f, folder |-> reads[r].aim \o <<>>] \in Desk!Wanted(r)
      <4>1. dirs \in Desk!Trails(r, f) /\ dirs = <<>>
        BY <1>2
      <4>2. Desk!NamesOf(dirs) = <<>>
        BY <2>3, <4>1
      <4>3. [file |-> f, folder |-> reads[r].aim \o Desk!NamesOf(dirs)] \in Desk!Wanted(r)
        BY <4>1, TrailWanted
      <4> QED
        BY <4>2, <4>3
    <3> QED
      BY <3>1, <3>2
  <2>5. Desk!FoundIn(r) = {[node |-> n, dir |-> <<>>] : n \in {m \in reads[r].items : m \notin DOMAIN Parts}}
    BY <1>4 DEF Desk!FoundIn, Desk!Root, Desk!IsDir
  <2>6. Desk!FoundIn(r) \subseteq Nodes
    <3>1. <<>> \in Seq(Words)
      OBVIOUS
    <3>2. \A n \in Disk : [node |-> n, dir |-> <<>>] \in Nodes
      BY <3>1 DEF Nodes
    <3> QED
      BY <1>1, <2>1, <2>5, <3>2
  <2>7. ASSUME NEW w \in Desk!Wanted(r)
        PROVE  w \in {Wish(x, reads[r].aim) : x \in Desk!FoundIn(r)}
    <3>1. PICK f \in Disk \ DOMAIN Parts : /\ f \in good
                                           /\ w = [file |-> f, folder |-> reads[r].aim \o <<>>]
      BY <2>2, <2>4
    <3>2. [node |-> f, dir |-> <<>>] \in Desk!FoundIn(r)
      BY <2>1, <2>5, <3>1
    <3>3. w = Wish([node |-> f, dir |-> <<>>], reads[r].aim)
      BY <3>1 DEF Wish
    <3> QED
      BY <3>2, <3>3
  <2>8. ASSUME NEW x \in Desk!FoundIn(r)
        PROVE  Wish(x, reads[r].aim) \in Desk!Wanted(r)
    <3>1. PICK n \in good : n \notin DOMAIN Parts /\ x = [node |-> n, dir |-> <<>>]
      BY <2>1, <2>5
    <3>2. n \in Disk \ DOMAIN Parts /\ <<>> \in {way \in Trail(n) : way = <<>>}
      BY <1>1, <2>2, <3>1
    <3>3. Wish(x, reads[r].aim) = [file |-> n, folder |-> reads[r].aim \o <<>>]
      BY <3>1 DEF Wish
    <3> QED
      BY <2>4, <3>2, <3>3
  <2> QED
    BY <2>6, <2>7, <2>8
<1> QED
  BY <1>3, <1>4

\* Of the files that are the same one goes to its folder, whichever they are.
LEMMA MappedOnce ==
    ASSUME NEW aim \in Seq(Words), NEW got \in SUBSET Nodes
    PROVE  /\ Desk!Mapped(aim, got) \subseteq {Wish(x, aim) : x \in got}
           /\ \A w \in {Wish(x, aim) : x \in got} :
                 Desk!Cardinality({e \in Desk!Mapped(aim, got) : Desk!Alike(e, w)}) = 1
<1> DEFINE Chosen(x) == CHOOSE y \in got : Desk!Same(x, y)
<1>1. ASSUME NEW x \in got PROVE Chosen(x) \in got /\ Desk!Same(x, Chosen(x))
  <2>1. Desk!Same(x, x)
    BY DEF Desk!Same
  <2> QED
    BY <2>1
<1>2. ASSUME NEW x \in got, NEW z \in got, Desk!Same(x, z) PROVE Chosen(x) = Chosen(z)
  <2>1. \A y : (y \in got /\ Desk!Same(x, y)) <=> (y \in got /\ Desk!Same(z, y))
    BY <1>2 DEF Desk!Same
  <2> QED
    BY <2>1, Zenon
<1>3. Desk!Mapped(aim, got) = {Wish(Chosen(x), aim) : x \in got}
  BY DEF Desk!Mapped, Wish
<1>4. ASSUME NEW x \in got, NEW y \in got
      PROVE  Desk!Alike(Wish(x, aim), Wish(y, aim)) <=> Desk!Same(x, y)
  <2>1. x.dir \in Seq(Words) /\ y.dir \in Seq(Words)
    BY DEF Nodes
  <2>2. aim \o x.dir = aim \o y.dir <=> x.dir = y.dir
    BY <2>1, ConcatSimplifications
  <2> QED
    BY <2>2 DEF Desk!Alike, Desk!Same, Wish
<1> HIDE DEF Chosen
<1>5. ASSUME NEW x \in got
      PROVE  {e \in Desk!Mapped(aim, got) : Desk!Alike(e, Wish(x, aim))} = {Wish(Chosen(x), aim)}
  <2>1. Wish(Chosen(x), aim) \in Desk!Mapped(aim, got)
    BY <1>3
  <2>2. Desk!Alike(Wish(Chosen(x), aim), Wish(x, aim))
    BY <1>1, <1>4 DEF Desk!Same
  <2>3. ASSUME NEW z \in got, Desk!Alike(Wish(Chosen(z), aim), Wish(x, aim))
        PROVE  Chosen(z) = Chosen(x)
    <3>1. Desk!Same(Chosen(z), x) /\ Desk!Same(z, Chosen(z))
      BY <1>1, <1>4, <2>3
    <3>2. Desk!Same(z, x)
      BY <3>1 DEF Desk!Same
    <3> QED
      BY <1>2, <3>2
  <2> QED
    BY <1>3, <2>1, <2>2, <2>3
<1>6. Desk!Mapped(aim, got) \subseteq {Wish(x, aim) : x \in got}
  BY <1>1, <1>3
<1>7. \A S : Desk!Cardinality(S) = Cardinality(S)
  BY DEF Desk!Cardinality, Cardinality
<1>8. \A e : Cardinality({e}) = 1
  BY FS_Singleton
<1>9. ASSUME NEW w \in {Wish(x, aim) : x \in got}
      PROVE  Desk!Cardinality({e \in Desk!Mapped(aim, got) : Desk!Alike(e, w)}) = 1
  <2>1. PICK x \in got : w = Wish(x, aim)
    OBVIOUS
  <2>2. {e \in Desk!Mapped(aim, got) : Desk!Alike(e, w)} = {Wish(Chosen(x), aim)}
    BY <1>5, <2>1
  <2> QED
    BY <1>7, <1>8, <2>2
<1> QED
  BY <1>6, <1>9

--------------------------------------------------------------------------------
ReadKinds == [items : SUBSET Disk, aim : Seq(Words), left : SUBSET Disk, got : SUBSET Nodes,
              failed : SUBSET Disk, step : {"reading", "rejected", "nothing", "read"}]
BatchKinds == [read : Nat, files : SUBSET [file : Disk, folder : Seq(Words)]]

\* A read has the files below the items done with, those that could not be read apart.
ReadFaithful(r) ==
    /\ reads[r].left \subseteq reads[r].items /\ reads[r].failed \subseteq reads[r].items \ reads[r].left
    /\ IF browser = "files" THEN reads[r].left = {} /\ reads[r].failed = {}
       ELSE reads[r].got = UNION {Desk!FilesBelow(n) :
                                    n \in (reads[r].items \ reads[r].left) \ reads[r].failed}
    /\ reads[r].step # "reading" => reads[r].left = {}
    /\ reads[r].step = "nothing" => Desk!FoundIn(r) = {}
    /\ reads[r].step = "rejected" => reads[r].failed # {}

\* A batch is what a read has found when it is over.
BatchFaithful(b) ==
    LET r == batches[b].read IN
    /\ r \in DOMAIN reads /\ reads[r].step = "read"
    /\ batches[b].files = Desk!Mapped(reads[r].aim, Desk!FoundIn(r))

ReadsFaithful ==
    /\ reads \in Seq(ReadKinds) /\ batches \in Seq(BatchKinds)
    /\ \A r \in DOMAIN reads : ReadFaithful(r)
    /\ \A b \in DOMAIN batches : BatchFaithful(b)

\* The depth is that of the element under the drag, but for what was taken away.
OverlayCounts ==
    /\ over \in Desk!Targets /\ depth \in Nat /\ overlay \in BOOLEAN /\ vanished \in BOOLEAN
    /\ over \in Desk!Inside => overlay /\ depth >= 1
    /\ ~vanished => depth = Desk!Bit(over) /\ (overlay <=> over \in Desk!Inside)

DropInv == ReadsFaithful /\ OverlayCounts

LEMMA OverlayStep ==
    ASSUME OverlayCounts, Desk!OsDropNext
    PROVE  OverlayCounts'
<1>1. ASSUME NEW to \in Desk!Targets, NEW from \in Desk!Targets, Desk!Moves(to, from),
             from = over \/ (from = "away" /\ vanished' = TRUE),
             vanished' = vanished \/ vanished' = TRUE
      PROVE  OverlayCounts'
  <2> DEFINE d == depth + Desk!Bit(to)
             o == overlay \/ to \in Desk!Inside
  <2>1. /\ Desk!Bit(to) = IF to \in Desk!Inside THEN 1 ELSE 0
        /\ Desk!Bit(over) = IF over \in Desk!Inside THEN 1 ELSE 0
        /\ depth \in Nat /\ overlay \in BOOLEAN /\ vanished \in BOOLEAN
    BY DEF Desk!Bit, OverlayCounts
  <2>2. d \in Nat /\ d = (IF to \in Desk!Inside THEN depth + 1 ELSE depth) /\ o \in BOOLEAN
    BY <2>1
  <2>3. over' = to /\ (from \in Desk!Inside \/ from \notin Desk!Inside)
    BY <1>1 DEF Desk!Moves
  <2>4. ASSUME from \in Desk!Inside
        PROVE  /\ depth' = IF d = 0 THEN 0 ELSE d - 1
               /\ overlay' = (o /\ depth' > 0)
    BY <1>1, <2>4 DEF Desk!Moves, Desk!Left, Desk!Lower
  <2>5. ASSUME from \notin Desk!Inside
        PROVE  depth' = d /\ overlay' = o
    BY <1>1, <2>5 DEF Desk!Moves, Desk!Left
  <2>6. /\ over \in Desk!Inside => overlay /\ depth >= 1
        /\ ~vanished => depth = Desk!Bit(over) /\ (overlay <=> over \in Desk!Inside)
    BY DEF OverlayCounts
  <2>7. "away" \notin Desk!Inside /\ vanished' \in BOOLEAN
    BY <1>1, <2>1 DEF Desk!Inside
  <2> HIDE DEF d, o
  <2>8. /\ depth' \in Nat /\ overlay' \in BOOLEAN
    <3>1. CASE from \in Desk!Inside
      BY <2>2, <2>4, <3>1
    <3>2. CASE from \notin Desk!Inside
      BY <2>2, <2>5, <3>2
    <3> QED
      BY <3>1, <3>2
  <2>9. ASSUME to \in Desk!Inside
        PROVE  overlay' /\ depth' >= 1 /\ (~vanished' => depth' = 1)
    <3>1. d = depth + 1 /\ o
      BY <2>2, <2>9 DEF o
    <3>2. CASE from \in Desk!Inside
      <4>1. from = over /\ depth >= 1 /\ depth' = depth
        BY <1>1, <2>1, <2>4, <2>6, <2>7, <3>1, <3>2
      <4>2. ~vanished' => ~vanished
        BY <1>1
      <4>3. ~vanished => depth = 1
        BY <2>1, <2>6, <3>2, <4>1
      <4>4. depth' > 0
        BY <2>1, <4>1
      <4>5. overlay'
        BY <2>4, <3>1, <3>2, <4>4
      <4> QED
        BY <2>1, <4>1, <4>2, <4>3, <4>5
    <3>3. CASE from \notin Desk!Inside
      <4>1. depth' = depth + 1 /\ overlay' = o
        BY <2>5, <3>1, <3>3
      <4>2. ~vanished' => depth = 0
        BY <1>1, <2>1, <2>6, <3>3
      <4> QED
        BY <2>1, <3>1, <4>1, <4>2
    <3> QED
      BY <3>2, <3>3
  <2>10. ASSUME to \notin Desk!Inside, ~vanished'
         PROVE  depth' = 0 /\ ~overlay'
    <3>1. d = depth /\ o = overlay /\ from = over /\ ~vanished
      BY <1>1, <2>1, <2>2, <2>10 DEF o
    <3>2. CASE from \in Desk!Inside
      BY <2>1, <2>4, <2>6, <3>1, <3>2
    <3>3. CASE from \notin Desk!Inside
      BY <2>1, <2>5, <2>6, <3>1, <3>3
    <3> QED
      BY <3>2, <3>3
  <2>11. over' \in Desk!Targets /\ Desk!Bit(over)' = IF to \in Desk!Inside THEN 1 ELSE 0
    BY <1>1, <2>3 DEF Desk!Bit
  <2> QED
    BY <2>3, <2>7, <2>8, <2>9, <2>10, <2>11 DEF OverlayCounts, Desk!Inside, Desk!Targets
<1>2. ASSUME NEW to \in Desk!Targets, Desk!DragTo(to)
      PROVE  OverlayCounts'
  BY <1>1, <1>2 DEF Desk!DragTo, OverlayCounts
<1>7. CASE Desk!RowTakenAway
  <2>1. "page" \in Desk!Targets /\ "away" \in Desk!Targets
    BY DEF Desk!Inside, Desk!Targets
  <2> QED
    BY <1>1, <1>7, <2>1 DEF Desk!RowTakenAway
<1>3. CASE Desk!DropElsewhere
  BY <1>3 DEF Desk!DropElsewhere, Desk!ClearExternalDrag, Desk!Bit, Desk!Inside, Desk!Targets,
    OverlayCounts
<1>4. ASSUME NEW items \in Drops, Desk!Drop(items)
      PROVE  OverlayCounts'
  BY <1>4 DEF Desk!Drop, Desk!ClearExternalDrag, Desk!Bit, Desk!Inside, Desk!Targets, OverlayCounts
<1>5. ASSUME NEW r, NEW n, Desk!ReadItem(r, n)
      PROVE  OverlayCounts'
  BY <1>5 DEF Desk!ReadItem, OverlayCounts
<1>6. ASSUME NEW r, Desk!Extracted(r)
      PROVE  OverlayCounts'
  BY <1>6 DEF Desk!Extracted, OverlayCounts
<1> QED
  BY <1>2, <1>3, <1>4, <1>5, <1>6, <1>7 DEF Desk!OsDropNext

\* A step that leaves the reads alone leaves what they found.
LEMMA ReadsStay ==
    ASSUME ReadsFaithful, UNCHANGED <<browser, reads, batches>>
    PROVE  ReadsFaithful'
<1>1. \A r : Desk!FoundIn(r)' = Desk!FoundIn(r)
  BY DEF Desk!FoundIn
<1>2. \A r : ReadFaithful(r) => ReadFaithful(r)'
  BY <1>1 DEF ReadFaithful
<1>3. \A b : BatchFaithful(b) => BatchFaithful(b)'
  BY <1>1 DEF BatchFaithful
<1> QED
  BY <1>2, <1>3 DEF ReadsFaithful

LEMMA DesktopDrop ==
    ASSUME ReadsFaithful, NEW items \in Drops, Desk!Drop(items)
    PROVE  ReadsFaithful'
<1> DEFINE new == Desk!Read(items)
<1>1. /\ reads' = Append(reads, new) /\ browser' = browser /\ batches' = batches
      /\ reads \in Seq(ReadKinds)
  BY DEF Desk!Drop, ReadsFaithful
<1>2. items \in SUBSET Disk /\ items # {}
  BY DiskAssumption
<1>3. Desk!Aim \in Seq(Words)
  <2>1. Folder \in Seq(Words)
    <3>1. {Folder[i] : i \in DOMAIN Folder} \subseteq Words
      BY DEF Words
    <3> QED
      BY <3>1, DiskAssumption, SeqMonotonic
  <2>2. <<Row>> \in Seq(Words)
    BY DEF Words
  <2> QED
    BY <2>1, <2>2 DEF Desk!Aim
<1>4. new \in ReadKinds
  BY <1>2, <1>3 DEF Desk!Read, ReadKinds
<1>5. /\ new.items = items /\ new.got = {} /\ new.failed = {} /\ new.step = "reading"
      /\ new.left = IF browser = "files" THEN {} ELSE items
  BY DEF Desk!Read
<1> HIDE DEF new
<1>6. /\ reads' \in Seq(ReadKinds) /\ Len(reads') = Len(reads) + 1
      /\ DOMAIN reads = 1..Len(reads) /\ DOMAIN reads' = 1..Len(reads) + 1
      /\ reads'[Len(reads) + 1] = new /\ \A q \in DOMAIN reads : reads'[q] = reads[q]
  BY <1>1, <1>4
<1>7. \A q \in DOMAIN reads : Desk!FoundIn(q)' = Desk!FoundIn(q)
  BY <1>1, <1>6 DEF Desk!FoundIn
<1>8. ASSUME NEW q \in DOMAIN reads'
      PROVE  ReadFaithful(q)'
  <2>1. CASE q \in DOMAIN reads
    <3>1. ReadFaithful(q)
      BY <2>1 DEF ReadsFaithful
    <3> QED
      BY <1>1, <1>6, <1>7, <2>1, <3>1 DEF ReadFaithful
  <2>2. CASE q = Len(reads) + 1
    <3>1. (items \ items) \ {} = {}
      OBVIOUS
    <3> QED
      BY <1>1, <1>5, <1>6, <2>2, <3>1 DEF ReadFaithful
  <2> QED
    BY <1>6, <2>1, <2>2
<1>9. ASSUME NEW b \in DOMAIN batches'
      PROVE  BatchFaithful(b)'
  <2>1. BatchFaithful(b)
    BY <1>1 DEF ReadsFaithful
  <2>2. batches[b].read \in DOMAIN reads'
    BY <1>6, <2>1 DEF BatchFaithful
  <2> QED
    BY <1>1, <1>6, <1>7, <2>1, <2>2 DEF BatchFaithful
<1> QED
  BY <1>1, <1>6, <1>8, <1>9 DEF ReadsFaithful

LEMMA ReadItemStep ==
    ASSUME ReadsFaithful, NEW r \in DOMAIN reads, NEW n \in reads[r].left, Desk!ReadItem(r, n)
    PROVE  ReadsFaithful'
<1> DEFINE bad0 == Desk!Unreadable(n)
           new == [reads[r] EXCEPT !.left = @ \ {n},
                                   !.got = IF bad0 THEN @ ELSE @ \cup Desk!FilesBelow(n),
                                   !.failed = IF bad0 THEN @ \cup {n} ELSE @]
<1>1. /\ reads \in Seq(ReadKinds) /\ batches \in Seq(BatchKinds) /\ reads[r] \in ReadKinds
      /\ ReadFaithful(r)
  BY DEF ReadsFaithful
<1>2. /\ reads' = [reads EXCEPT ![r] = new] /\ browser' = browser /\ batches' = batches
      /\ reads[r].step = "reading"
  BY DEF Desk!ReadItem
<1>3. n \in Disk
  BY <1>1 DEF ReadKinds
<1>4. Desk!FilesBelow(n) \subseteq Nodes
  BY <1>3, WalkFinds DEF Desk!FilesBelow
<1>5. new \in ReadKinds
  BY <1>1, <1>3, <1>4 DEF ReadKinds
<1>6. /\ new.items = reads[r].items /\ new.aim = reads[r].aim /\ new.step = "reading"
      /\ new.left = reads[r].left \ {n}
      /\ new.got = IF bad0 THEN reads[r].got ELSE reads[r].got \cup Desk!FilesBelow(n)
      /\ new.failed = IF bad0 THEN reads[r].failed \cup {n} ELSE reads[r].failed
  BY <1>1, <1>2 DEF ReadKinds
<1> HIDE DEF new, bad0
<1>7. /\ reads' \in Seq(ReadKinds) /\ DOMAIN reads' = DOMAIN reads /\ reads'[r] = new
      /\ \A q \in DOMAIN reads : q # r => reads'[q] = reads[q]
  BY <1>1, <1>2, <1>5
<1>8. \A q \in DOMAIN reads : q # r => Desk!FoundIn(q)' = Desk!FoundIn(q)
  BY <1>2, <1>7 DEF Desk!FoundIn
<1>9. ASSUME NEW q \in DOMAIN reads'
      PROVE  ReadFaithful(q)'
  <2>1. CASE q # r
    <3>1. ReadFaithful(q)
      BY <1>7 DEF ReadsFaithful
    <3> QED
      BY <1>2, <1>7, <1>8, <2>1, <3>1 DEF ReadFaithful
  <2>2. CASE q = r
    <3>1. /\ browser # "files" /\ reads[r].left \subseteq reads[r].items
          /\ reads[r].failed \subseteq reads[r].items \ reads[r].left
          /\ reads[r].got = UNION {Desk!FilesBelow(m) :
                                     m \in (reads[r].items \ reads[r].left) \ reads[r].failed}
      BY <1>1 DEF ReadFaithful
    <3>2. CASE bad0
      <4>1. (new.items \ new.left) \ new.failed = (reads[r].items \ reads[r].left) \ reads[r].failed
        BY <1>6, <3>1, <3>2
      <4>2. new.left \subseteq new.items /\ new.failed \subseteq new.items \ new.left
        BY <1>6, <3>1, <3>2
      <4> QED
        BY <1>2, <1>6, <1>7, <2>2, <3>1, <3>2, <4>1, <4>2 DEF ReadFaithful
    <3>3. CASE ~bad0
      <4>1. (new.items \ new.left) \ new.failed =
               ((reads[r].items \ reads[r].left) \ reads[r].failed) \cup {n}
        BY <1>6, <3>1, <3>3
      <4>2. new.left \subseteq new.items /\ new.failed \subseteq new.items \ new.left
        BY <1>6, <3>1, <3>3
      <4>3. new.got = UNION {Desk!FilesBelow(m) : m \in (new.items \ new.left) \ new.failed}
        BY <1>6, <3>1, <3>3, <4>1
      <4> QED
        BY <1>2, <1>6, <1>7, <2>2, <3>1, <4>2, <4>3 DEF ReadFaithful
    <3> QED
      BY <3>2, <3>3
  <2> QED
    BY <2>1, <2>2
<1>10. ASSUME NEW b \in DOMAIN batches'
      PROVE  BatchFaithful(b)'
  <2>1. BatchFaithful(b)
    BY <1>2 DEF ReadsFaithful
  <2>2. batches[b].read \in DOMAIN reads /\ batches[b].read # r
    BY <1>2, <2>1 DEF BatchFaithful
  <2> QED
    BY <1>2, <1>7, <1>8, <2>1, <2>2 DEF BatchFaithful
<1> QED
  BY <1>1, <1>2, <1>7, <1>9, <1>10 DEF ReadsFaithful

LEMMA ExtractStep ==
    ASSUME ReadsFaithful, NEW r \in DOMAIN reads, Desk!Extracted(r)
    PROVE  ReadsFaithful'
<1> DEFINE lost == browser = "entries" /\ reads[r].failed # {}
           none == Desk!FoundIn(r) = {}
           new == [reads[r] EXCEPT !.step = IF lost THEN "rejected" ELSE IF none THEN "nothing" ELSE "read"]
           batch == [read |-> r, files |-> Desk!Mapped(reads[r].aim, Desk!FoundIn(r))]
<1>1. /\ reads \in Seq(ReadKinds) /\ batches \in Seq(BatchKinds) /\ reads[r] \in ReadKinds
      /\ ReadFaithful(r)
  BY DEF ReadsFaithful
<1>2. /\ reads' = [reads EXCEPT ![r] = new] /\ browser' = browser
      /\ reads[r].step = "reading" /\ reads[r].left = {}
      /\ batches' = IF lost \/ none THEN batches ELSE Append(batches, batch)
  BY DEF Desk!Extracted
<1>3. /\ Desk!Wanted(r) = {Wish(x, reads[r].aim) : x \in Desk!FoundIn(r)}
      /\ Desk!FoundIn(r) \subseteq Nodes
  <2>1. reads[r].items \subseteq Disk
    BY <1>1 DEF ReadKinds
  <2>2. reads[r].items \ {} = reads[r].items
    OBVIOUS
  <2> QED
    BY <1>1, <1>2, <2>1, <2>2, FoundIsWanted DEF ReadFaithful
<1>4. batch \in BatchKinds
  <2>1. reads[r].aim \in Seq(Words) /\ r \in Nat
    BY <1>1 DEF ReadKinds
  <2>2. Desk!Mapped(reads[r].aim, Desk!FoundIn(r)) \subseteq {Wish(x, reads[r].aim) : x \in Desk!FoundIn(r)}
    BY <1>3, <2>1, MappedOnce
  <2>3. ASSUME NEW x \in Nodes PROVE Wish(x, reads[r].aim) \in [file : Disk, folder : Seq(Words)]
    BY <2>1, ConcatProperties DEF Nodes, Wish
  <2> QED
    BY <1>3, <2>1, <2>2, <2>3 DEF BatchKinds
<1>5. new \in ReadKinds
  BY <1>1 DEF ReadKinds
<1>6. /\ new.items = reads[r].items /\ new.aim = reads[r].aim /\ new.left = reads[r].left
      /\ new.got = reads[r].got /\ new.failed = reads[r].failed
      /\ new.step = IF lost THEN "rejected" ELSE IF none THEN "nothing" ELSE "read"
  BY <1>1 DEF ReadKinds
<1>7. lost => reads[r].failed # {}
  OBVIOUS
<1>8. batch.read = r /\ batch.files = Desk!Mapped(reads[r].aim, Desk!FoundIn(r))
  OBVIOUS
<1> HIDE DEF new, lost, batch
<1>9. /\ reads' \in Seq(ReadKinds) /\ DOMAIN reads' = DOMAIN reads /\ reads'[r] = new
      /\ \A q \in DOMAIN reads : q # r => reads'[q] = reads[q]
  BY <1>1, <1>2, <1>5
<1>10. \A q \in DOMAIN reads : Desk!FoundIn(q)' = Desk!FoundIn(q)
  BY <1>2, <1>6, <1>9 DEF Desk!FoundIn
<1>11. ASSUME NEW q \in DOMAIN reads'
      PROVE  ReadFaithful(q)'
  <2>1. CASE q # r
    <3>1. ReadFaithful(q)
      BY <1>9 DEF ReadsFaithful
    <3> QED
      BY <1>2, <1>9, <1>10, <2>1, <3>1 DEF ReadFaithful
  <2>2. CASE q = r
    <3>1. new.step = "nothing" => Desk!FoundIn(r)' = {}
      BY <1>6, <1>10 DEF none
    <3> HIDE DEF none
    <3>2. new.step = "rejected" => new.failed # {}
      BY <1>6, <1>7
    <3> QED
      BY <1>1, <1>2, <1>6, <1>9, <2>2, <3>1, <3>2 DEF ReadFaithful
  <2> QED
    BY <2>1, <2>2
<1>12. ASSUME NEW b \in DOMAIN batches, NEW q, q = batches[b].read
       PROVE  /\ q \in DOMAIN reads' /\ reads'[q].step = "read"
              /\ batches[b].files = Desk!Mapped(reads'[q].aim, Desk!FoundIn(q)')
  <2>1. BatchFaithful(b)
    BY DEF ReadsFaithful
  <2>2. q \in DOMAIN reads /\ q # r
    BY <1>2, <1>12, <2>1 DEF BatchFaithful
  <2> QED
    BY <1>9, <1>10, <1>12, <2>1, <2>2 DEF BatchFaithful
<1>13. ASSUME NEW b \in DOMAIN batches'
       PROVE  BatchFaithful(b)'
  <2>1. CASE b \in DOMAIN batches /\ batches'[b] = batches[b]
    BY <1>12, <2>1 DEF BatchFaithful
  <2>2. CASE batches' = Append(batches, batch) /\ ~lost /\ ~none /\ b \notin DOMAIN batches
    <3>1. batches'[b] = batch
      BY <1>1, <1>4, <1>13, <2>2
    <3>2. new.step = "read" /\ new.aim = reads[r].aim
      BY <1>6, <2>2
    <3> QED
      BY <1>8, <1>9, <1>10, <3>1, <3>2 DEF BatchFaithful
  <2>3. batches' = Append(batches, batch) /\ b \in DOMAIN batches => batches'[b] = batches[b]
    BY <1>1, <1>4
  <2> QED
    BY <1>2, <1>13, <2>1, <2>2, <2>3
<1>14. batches' \in Seq(BatchKinds)
  BY <1>1, <1>2, <1>4
<1> QED
  BY <1>9, <1>11, <1>13, <1>14 DEF ReadsFaithful

\* What is said of the reads, the batches and the overlay holds at every visit of the files page.
THEOREM DropsInductive == ViewsSpec => [](route = "drop" => DropInv)
<1>1. ViewsInit => (route = "drop" => DropInv)
  <2> SUFFICES ASSUME ViewsInit, route = "drop"
               PROVE  DropInv
    OBVIOUS
  <2>1. Desk!OsDropInit
    BY DEF ViewsInit
  <2>2. OverlayCounts
    BY <2>1 DEF Desk!OsDropInit, OverlayCounts, Desk!Targets, Desk!Inside, Desk!Bit
  <2>3. reads = <<>> /\ batches = <<>>
    BY <2>1 DEF Desk!OsDropInit
  <2> QED
    BY <2>2, <2>3 DEF DropInv, ReadsFaithful
<1>2. (route = "drop" => DropInv) /\ [ViewsNext]_viewsVars => (route = "drop" => DropInv)'
  <2> SUFFICES ASSUME [ViewsNext]_viewsVars, route = "drop", DropInv
               PROVE  DropInv'
    BY OnePage
  <2>1. CASE UNCHANGED deskVars
    BY <2>1, ReadsStay DEF deskVars, DropInv, OverlayCounts, Desk!Bit
  <2>2. CASE Desk!OsDropNext
    <3>1. OverlayCounts'
      BY <2>2, OverlayStep DEF DropInv
    <3>2. ReadsFaithful'
      <4>1. ASSUME NEW to \in Desk!Targets, Desk!DragTo(to)
            PROVE  ReadsFaithful'
        BY <4>1, ReadsStay DEF Desk!DragTo, Desk!Moves, DropInv
      <4>2. CASE Desk!RowTakenAway
        BY <4>2, ReadsStay DEF Desk!RowTakenAway, Desk!Moves, DropInv
      <4>3. CASE Desk!DropElsewhere
        BY <4>3, ReadsStay DEF Desk!DropElsewhere, DropInv
      <4> QED
        BY <2>2, <4>1, <4>2, <4>3, DesktopDrop, ReadItemStep, ExtractStep DEF Desk!OsDropNext, DropInv
    <3> QED
      BY <3>1, <3>2 DEF DropInv
  <2> QED
    BY <2>1, <2>2, OnePage
<1> QED
  BY <1>1, <1>2, PTL DEF ViewsSpec

\* externalDrop: whatever the disk, a drop becomes one batch with every file below its readable items,
\* once and in the folder of its directory, in whatever order the items are read, and the overlay is
\* over the page while the drag is.
THEOREM DropsAreTaken == ViewsSpec => []DropTaken
<1>1. (route = "drop" => DropInv) => DropTaken
  <2> SUFFICES ASSUME DropInv
               PROVE  Desk!DropWhole /\ Desk!OverlayFollows
    BY DEF DropTaken
  <2>1. Desk!OverlayFollows
    BY DEF DropInv, OverlayCounts, Desk!OverlayFollows
  <2>2. ASSUME NEW r \in DOMAIN reads, reads[r].step # "reading"
        PROVE  /\ Desk!Wanted(r) = {Wish(x, reads[r].aim) : x \in Desk!FoundIn(r)}
               /\ Desk!FoundIn(r) \subseteq Nodes /\ reads[r].aim \in Seq(Words)
    <3>1. reads[r] \in ReadKinds /\ ReadFaithful(r)
      BY DEF DropInv, ReadsFaithful
    <3>2. reads[r].items \subseteq Disk /\ reads[r].items \ {} = reads[r].items
      BY <3>1 DEF ReadKinds
    <3>3. IF browser = "files" THEN reads[r].failed = {}
          ELSE reads[r].got = UNION {Desk!FilesBelow(n) : n \in reads[r].items \ reads[r].failed}
      BY <2>2, <3>1, <3>2 DEF ReadFaithful
    <3>4. reads[r].aim \in Seq(Words)
      BY <3>1 DEF ReadKinds
    <3> QED
      BY <3>2, <3>3, <3>4, FoundIsWanted
  <2>3. ASSUME NEW b \in DOMAIN batches
        PROVE  /\ batches[b].files \subseteq Desk!Wanted(batches[b].read)
               /\ \A w \in Desk!Wanted(batches[b].read) :
                     Desk!Cardinality({e \in batches[b].files : Desk!Alike(e, w)}) = 1
    <3>1. BatchFaithful(b)
      BY DEF DropInv, ReadsFaithful
    <3>2. PICK r : r = batches[b].read
      OBVIOUS
    <3>3. /\ r \in DOMAIN reads /\ reads[r].step # "reading"
          /\ batches[b].files = Desk!Mapped(reads[r].aim, Desk!FoundIn(r))
      BY <3>1, <3>2 DEF BatchFaithful
    <3>4. /\ Desk!Wanted(r) = {Wish(x, reads[r].aim) : x \in Desk!FoundIn(r)}
          /\ Desk!FoundIn(r) \in SUBSET Nodes /\ reads[r].aim \in Seq(Words)
      BY <2>2, <3>3
    <3>5. /\ Desk!Mapped(reads[r].aim, Desk!FoundIn(r)) \subseteq {Wish(x, reads[r].aim) : x \in Desk!FoundIn(r)}
          /\ \A w \in {Wish(x, reads[r].aim) : x \in Desk!FoundIn(r)} :
                Desk!Cardinality({e \in Desk!Mapped(reads[r].aim, Desk!FoundIn(r)) : Desk!Alike(e, w)}) = 1
      BY <3>4, MappedOnce
    <3>6. /\ batches[b].files \subseteq Desk!Wanted(r)
          /\ \A w \in Desk!Wanted(r) : Desk!Cardinality({e \in batches[b].files : Desk!Alike(e, w)}) = 1
      BY <3>3, <3>4, <3>5
    <3> QED
      BY <3>2, <3>6
  <2>4. ASSUME NEW r \in DOMAIN reads
        PROVE  /\ reads[r].step = "nothing" => Desk!Wanted(r) = {}
               /\ reads[r].step = "rejected" => reads[r].failed # {}
    <3>1. ReadFaithful(r)
      BY DEF DropInv, ReadsFaithful
    <3> QED
      BY <2>2, <3>1 DEF ReadFaithful
  <2> QED
    BY <2>1, <2>3, <2>4 DEF Desk!DropWhole
<1> QED
  BY <1>1, DropsInductive, PTL
================================================================================
