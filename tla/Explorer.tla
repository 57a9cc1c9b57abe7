-------------------------------- MODULE Explorer --------------------------------
(***************************************************************************)
(* The rows of features/files/FilesPage.tsx, FilesListRows.tsx and         *)
(* FileTree.tsx: which are shown, chosen with clicks or a drag-box, held   *)
(* by a menu or dragged to a folder, while a move is answered or a reload  *)
(* changes the list below them.  FilesPage has the calls, the clipboard    *)
(* and the dialogs; here a move is under way or not.                       *)
(* A row is told by what it is, not by its path: a moved folder keeps its  *)
(* marks, which the code drops or maps, and no gesture reaches it till the *)
(* answer.                                                                 *)
(***************************************************************************)
EXTENDS FiniteSets, Naturals, Sequences, SequencesExt

CONSTANTS
    Order,      \* the rows in the order of the list: folders, then files
    Dirs,       \* those that are folders
    FirstPlace, \* the folder each row is in at first
    Hits,       \* the rows the search box finds
    MaxGestures, MaxReloads \* bounds

VARIABLES
    lies,     \* files, folderPaths and tree: the folder each row is in
    here,     \* selectedFolder
    ticked,   \* selectedFileIds and selectedFolderRowPaths
    anchor,   \* selectionAnchorRef
    quest,    \* there is a text in the search box
    treeKey,  \* treeSelectedKey
    opened,   \* openPaths of the tree
    box,      \* marqueeStateRef and marqueeLastSigRef
    carried,  \* activeInternalDrag
    hush,     \* clicks are ignored for a moment after a drag (suppressClickUntilRef)
    quiet,    \* and on the background after a drag-box (suppressBgClearUntilRef)
    menu,     \* the row, or the background, whose menu is open
    move,     \* the move under way, with its snapshot
    picked,   \* history: rows the user chose since the folder was opened
    haunted,  \* history: rows chosen in a folder since left were chosen again
    upset,    \* history: the selection changed below an open menu, or a menu left it alone
    gestures, reloads

marks == <<ticked, anchor, picked, haunted>>
seen == <<lies, here, quest, treeKey, opened>>
explorerVars == <<seen, marks, box, carried, hush, quiet, menu, move, upset, gestures, reloads>>

--------------------------------------------------------------------------------
Rows == ToSet(Order)
Documents == Rows \ Dirs
Root == "root"
Gone == "gone"
None == "none"
Background == "background"
Mods == SUBSET {"meta", "shift"}

NoBox == [st |-> "none", union |-> FALSE, base |-> {}, last |-> {}, left |-> FALSE]
\* What a box has applied before it applied anything.
Unset == {None}
NoMove == [kind |-> None, ids |-> {}, left |-> FALSE]

Inside(place, i) == LET up[n \in 0 .. Cardinality(Dirs)] ==
                          IF n = 0 THEN {i} ELSE up[n - 1] \cup {place[d] : d \in up[n - 1] \cap Rows}
                    IN up[Cardinality(Dirs)]
Under(place, dirs) == {i \in Rows : Inside(place, i) \cap dirs # {}}
Above(d) == Inside(lies, d) \ {d}

ExplorerInit ==
    /\ lies = FirstPlace
    /\ here \in {Root} \cup Dirs
    /\ ticked = {} /\ anchor = None /\ picked = {}
    /\ quest = FALSE
    /\ treeKey = here
    /\ opened = {Root} \cup Above(here)
    /\ box = NoBox
    /\ carried = {}
    /\ hush = FALSE /\ quiet = FALSE
    /\ menu = None
    /\ move = NoMove
    /\ haunted = FALSE /\ upset = FALSE
    /\ gestures = 0 /\ reloads = 0

--------------------------------------------------------------------------------
(* The rows shown. *)

\* A folder that is gone is left for the root.
Kept(place, d) == IF d \in Dirs /\ place[d] = Gone THEN Root ELSE d

\* A search finds rows of every folder.
Shown == {i \in Rows : IF quest THEN lies[i] # Gone /\ i \in Hits ELSE lies[i] = Kept(lies, here)}

TreeShown(d) == d \in Dirs /\ lies[d] # Gone /\ Above(d) \subseteq opened

Pending(i) == move.kind # None /\ i \in Under(lies, move.ids)

\* What moves takes no gesture.
FolderRowOffered(i) == i \in Shown \cap Dirs /\ ~Pending(i)
FileRowOffered(i) == i \in Shown \cap Documents /\ ~Pending(i)
RowOffered(i) == FolderRowOffered(i) \/ FileRowOffered(i)
TreeRowOffered(d) == TreeShown(d) /\ ~Pending(d)

Crumbs == IF here = Root THEN {} ELSE (Above(here) \cup {Root}) \ {Gone}

Between(a, b) ==
    LET at(i) == CHOOSE n \in 1 .. Len(Order) : Order[n] = i
    IN {i \in Shown : (at(a) =< at(i) /\ at(i) =< at(b)) \/ (at(b) =< at(i) /\ at(i) =< at(a))}

Gesture ==
    /\ gestures < MaxGestures
    /\ gestures' = gestures + 1
    /\ UNCHANGED reloads

\* An open menu takes every click but one that opens another.
Free == menu = None /\ carried = {}

--------------------------------------------------------------------------------
(* Choosing rows. *)

Ticks(i, mods) ==
    IF "shift" \in mods /\ anchor \in Shown \ {i}
    THEN Between(anchor, i) \cup (IF "meta" \in mods THEN ticked ELSE {})
    ELSE IF "meta" \in mods
    THEN IF i \in ticked THEN ticked \ {i} ELSE ticked \cup {i}
    ELSE {i}

SelectByKey(i, mods) ==
    /\ ticked' = Ticks(i, mods)
    /\ picked' = picked \cup (Ticks(i, mods) \ ticked)
    /\ anchor' = i
    /\ UNCHANGED haunted

ClearSelection ==
    /\ ticked' = {}
    /\ anchor' = None
    /\ UNCHANGED <<picked, haunted>>

\* Just after a drag a folder row takes no click, a file row does.
ClickRow(i, mods) ==
    /\ Gesture
    /\ Free /\ box = NoBox
    /\ (FolderRowOffered(i) /\ ~hush) \/ FileRowOffered(i)
    /\ SelectByKey(i, mods)
    /\ UNCHANGED <<seen, box, carried, hush, quiet, menu, move, upset>>

EndBox == box' = NoBox

\* The menu of a row that is not chosen chooses it.
MenuSelects(i, mods) == IF i \in ticked THEN UNCHANGED marks ELSE SelectByKey(i, mods)

OpenMenu(i, mods) ==
    /\ Gesture
    /\ carried = {} /\ RowOffered(i) /\ menu # i
    /\ IF hush /\ i \in Dirs THEN UNCHANGED marks ELSE MenuSelects(i, mods)
    /\ upset' = (hush /\ i \in Dirs)
    /\ menu' = i
    /\ EndBox
    /\ UNCHANGED <<seen, carried, hush, quiet, move>>

OpenBackgroundMenu ==
    /\ Gesture
    /\ carried = {} /\ menu # Background
    /\ IF quiet THEN UNCHANGED marks ELSE ClearSelection
    /\ menu' = Background
    /\ EndBox
    /\ UNCHANGED <<seen, carried, hush, quiet, move, upset>>

CloseMenu ==
    /\ menu # None
    /\ menu' = None
    /\ upset' = FALSE
    /\ UNCHANGED <<seen, marks, box, carried, hush, quiet, move, gestures, reloads>>

ClickBackground ==
    /\ Gesture
    /\ Free /\ box = NoBox /\ ~quiet /\ ~hush
    /\ ClearSelection
    /\ UNCHANGED <<seen, box, carried, hush, quiet, menu, move, upset>>

\* The moments after a drag pass.
Settle ==
    /\ hush \/ quiet
    /\ hush' = FALSE /\ quiet' = FALSE
    /\ UNCHANGED <<seen, marks, box, carried, menu, move, upset, gestures, reloads>>

--------------------------------------------------------------------------------
(* The drag-box. *)

PressBox(union) ==
    /\ Gesture
    /\ Free /\ box = NoBox /\ ~hush
    /\ box' = [st |-> "down", union |-> union, base |-> ticked, last |-> Unset, left |-> FALSE]
    /\ UNCHANGED <<seen, marks, carried, hush, quiet, menu, move, upset>>

StartBox ==
    /\ box.st = "down"
    /\ box' = [box EXCEPT !.st = "drag"]
    /\ ticked' = IF box.union THEN ticked ELSE {}
    /\ UNCHANGED <<seen, anchor, picked, haunted, carried, hush, quiet, menu, move, upset,
                   gestures, reloads>>

\* The rows the box meets, with what was chosen before when it adds; the same answer as the
\* last is not applied again.
GrowBox(hit) ==
    LET boxed == hit \cup (IF box.union THEN box.base ELSE {})
    IN
    /\ box.st = "drag" /\ hit \subseteq Shown /\ boxed # box.last
    /\ ticked' = boxed
    /\ picked' = picked \cup hit
    /\ haunted' = (haunted \/ (box.union /\ box.left))
    /\ box' = [box EXCEPT !.last = boxed]
    /\ UNCHANGED <<seen, anchor, carried, hush, quiet, menu, move, upset, gestures, reloads>>

ReleaseBox ==
    /\ box.st # "none"
    /\ EndBox
    /\ quiet' = (quiet \/ box.st = "drag")
    /\ IF box.st = "down" /\ ~box.union THEN ClearSelection ELSE UNCHANGED marks
    /\ UNCHANGED <<seen, carried, hush, menu, move, upset, gestures, reloads>>

\* The pointer is cancelled, or its capture lost.
LoseBox ==
    /\ box.st # "none"
    /\ EndBox
    /\ quiet' \in {quiet, quiet \/ box.st = "drag"}
    /\ UNCHANGED <<seen, marks, carried, hush, menu, move, upset, gestures, reloads>>

--------------------------------------------------------------------------------
(* Going to another folder, which clears the selection. *)

\* Mutation of Leave: what is chosen stays chosen.
LeaveAsIs(to, renamed) ==
    /\ here' = to
    /\ IF to = here /\ ~renamed THEN UNCHANGED picked ELSE picked' = {}
    /\ UNCHANGED <<ticked, anchor>>

Leave(to, renamed) ==
    /\ here' = to
    /\ IF to = here /\ ~renamed THEN UNCHANGED <<ticked, anchor, picked>>
       ELSE ticked' = {} /\ anchor' = None /\ picked' = {}

Left(to, renamed, it) == [it EXCEPT !.left = @ \/ to # here \/ renamed]

Go(to) ==
    /\ Leave(to, FALSE)
    /\ box' = IF box = NoBox THEN NoBox ELSE Left(to, FALSE, box)
    /\ move' = IF move = NoMove THEN NoMove ELSE Left(to, FALSE, move)
    /\ menu' = None /\ upset' = FALSE
    /\ UNCHANGED <<haunted, lies, quest, carried, hush, quiet>>

\* A folder opened from the list, the breadcrumb or the button Up.
OpenFolder(d) ==
    /\ Gesture
    /\ Free /\ box = NoBox
    /\ d \in Crumbs \/ (FolderRowOffered(d) /\ ~hush)
    /\ Go(d)
    /\ UNCHANGED <<treeKey, opened>>

HoldsFolders(d) == \E c \in Dirs : lies[c] = d

\* A folder of the tree, which is opened and shown with the folders it holds.
OpenTreeFolder(d) ==
    /\ Gesture
    /\ Free /\ box = NoBox
    /\ d = Root \/ TreeRowOffered(d)
    /\ ~hush
    /\ Go(d)
    /\ treeKey' = d
    /\ opened' = opened \cup Above(d) \cup (IF HoldsFolders(d) THEN {d} ELSE {})

\* The menu of a folder of the tree opens the folder, and leaves it folded; a row's menu
\* that was open closes.
OpenTreeMenu(d) ==
    /\ Gesture
    /\ carried = {} /\ box = NoBox /\ ~hush
    /\ d = Root \/ TreeRowOffered(d)
    /\ Go(d)
    /\ treeKey' = d
    /\ opened' = opened \cup Above(d)

ToggleTreeFolder(d) ==
    /\ Gesture
    /\ Free /\ box = NoBox /\ ~hush
    /\ HoldsFolders(d) /\ (d = Root \/ TreeRowOffered(d))
    /\ opened' = IF d \in opened THEN opened \ {d} ELSE opened \cup {d}
    /\ UNCHANGED <<lies, here, quest, treeKey, marks, box, carried, hush, quiet, menu, move, upset>>

\* A search hides rows and leaves them chosen.
SearchRows ==
    /\ Gesture
    /\ Free /\ box = NoBox
    /\ quest' = ~quest
    /\ UNCHANGED <<lies, here, treeKey, opened, marks, box, carried, hush, quiet, menu, move, upset>>

--------------------------------------------------------------------------------
(* Dragging rows to a folder. *)

\* A chosen row takes the chosen rows of its kind along.
Carries(i) == IF i \in ticked THEN ticked \cap (IF i \in Dirs THEN Dirs ELSE Documents) ELSE {i}

\* A row that is not chosen is chosen by the drag.
DragRow(i) ==
    /\ Gesture
    /\ Free /\ box = NoBox /\ RowOffered(i)
    /\ carried' = Carries(i)
    /\ IF i \in ticked THEN UNCHANGED marks ELSE SelectByKey(i, {})
    /\ UNCHANGED <<seen, box, hush, quiet, menu, move, upset>>

DragTreeFolder(d) ==
    /\ Gesture
    /\ Free /\ box = NoBox /\ TreeRowOffered(d)
    /\ carried' = {d}
    /\ UNCHANGED <<seen, marks, box, hush, quiet, menu, move, upset>>

DropOffered(d) ==
    \/ d = here \/ d = Root
    \/ d \in Dirs /\ ~Pending(d) /\ (d \in Shown \/ TreeShown(d))

\* Of folders, the outermost.
Movable(ids, dest) == {i \in ids : lies[i] \notin {dest, Gone} /\ (Inside(lies, i) \ {i}) \cap ids = {}}

\* The rows move at once, and a failure takes them back; one move at a time (a bound).
Begin(ids, dest) ==
    LET renamed == here \in Under(lies, ids \cap Dirs)
    IN
    /\ move' = [kind |-> IF ids \subseteq Dirs THEN "folders" ELSE "files", ids |-> ids,
                left |-> FALSE, lies |-> lies, here |-> here, ticked |-> ticked, key |-> treeKey,
                renamed |-> renamed]
    /\ lies' = [i \in Rows |-> IF i \in ids THEN dest ELSE lies[i]]
    /\ Leave(here, renamed)
    /\ UNCHANGED haunted

Drop(dest) ==
    LET ids == Movable(carried, dest)
    IN
    /\ carried # {} /\ DropOffered(dest)
    /\ carried' = {}
    /\ hush' = TRUE
    /\ IF ids = {} \/ Inside(lies, dest) \cap ids # {} THEN UNCHANGED <<lies, here, marks, move>>
       ELSE move = NoMove /\ Begin(ids, dest)
    /\ UNCHANGED <<quest, treeKey, opened, box, quiet, menu, upset, gestures, reloads>>

DropNowhere ==
    /\ carried # {}
    /\ carried' = {}
    /\ UNCHANGED <<seen, marks, box, hush, quiet, menu, move, upset, gestures, reloads>>

--------------------------------------------------------------------------------
(* Answers. *)

\* What another tab did since: nothing, or a row has gone.
Listings(place) ==
    {place} \cup IF reloads < MaxReloads
                 THEN {[i \in Rows |-> IF i \in Under(place, {d}) THEN Gone ELSE place[i]] : d \in Rows}
                 ELSE {}

Below == menu \in Rows
Stays(i) == i \notin Rows \/ i \in Shown'

Reload ==
    /\ reloads < MaxReloads
    /\ reloads' = reloads + 1
    /\ move = NoMove
    /\ lies' \in Listings(lies)
    /\ Leave(Kept(lies', here), FALSE)
    /\ box' = IF box = NoBox THEN NoBox ELSE Left(here', FALSE, box)
    /\ UNCHANGED <<haunted, quest, treeKey, opened, carried, hush, quiet, move, gestures>>
    /\ menu' = IF Stays(menu) THEN menu ELSE None
    /\ upset' = (menu' # None /\ (upset \/ (Below /\ here' # here)))

\* Files whose request was refused are where they were.
Refused == IF move.kind = "files" THEN SUBSET move.ids ELSE {{}}

\* A move that ended clears the selection, whatever was chosen meanwhile, and loads the list;
\* with folders, to see whether the folder that was open when it began is there.
Moved ==
    /\ move # NoMove
    /\ \E back \in Refused :
        LET place == [i \in Rows |-> IF i \in back THEN move.lies[i] ELSE lies[i]]
        IN
        /\ lies' \in Listings(place)
        /\ reloads' = IF lies' = place THEN reloads ELSE reloads + 1
    /\ LET checked == IF move.kind = "folders" THEN move.here ELSE here
       IN here' = IF Kept(lies', checked) = checked THEN here ELSE Root
    /\ ticked' = {} /\ anchor' = None
    /\ picked' = IF here' = here THEN picked ELSE {}
    /\ move' = NoMove
    /\ box' = IF box = NoBox THEN NoBox ELSE Left(here', FALSE, box)
    /\ UNCHANGED <<haunted, quest, treeKey, opened, carried, hush, quiet, gestures>>
    /\ menu' = IF Stays(menu) THEN menu ELSE None
    /\ upset' = (menu' # None /\ (upset \/ Below))

\* A failed move brings back what was shown before it: with files the selection, with folders
\* the folder that was open.
Unmoved ==
    /\ move # NoMove
    /\ lies' = move.lies
    /\ move' = NoMove
    /\ IF move.kind = "files"
       THEN /\ ticked' = move.ticked
            /\ haunted' = (haunted \/ move.left)
            /\ UNCHANGED <<here, anchor, picked, treeKey, opened, box>>
       ELSE /\ Leave(move.here, move.renamed)
            /\ treeKey' = move.key
            /\ opened' = opened \cup Above(move.key)
            /\ box' = IF box = NoBox THEN NoBox ELSE Left(move.here, move.renamed, box)
            /\ UNCHANGED haunted
    /\ UNCHANGED <<quest, carried, hush, quiet, gestures, reloads>>
    /\ menu' = IF Stays(menu) THEN menu ELSE None
    /\ upset' = (menu' # None /\ (upset \/ Below))

--------------------------------------------------------------------------------
ExplorerNext ==
    \/ \E i \in Rows : DragRow(i) \/ \E mods \in Mods : ClickRow(i, mods) \/ OpenMenu(i, mods)
    \/ \E d \in Dirs \cup {Root} :
        OpenFolder(d) \/ OpenTreeFolder(d) \/ OpenTreeMenu(d) \/ ToggleTreeFolder(d) \/ DragTreeFolder(d) \/ Drop(d)
    \/ \E union \in BOOLEAN : PressBox(union)
    \/ \E hit \in SUBSET Rows : GrowBox(hit)
    \/ OpenBackgroundMenu \/ CloseMenu \/ ClickBackground \/ Settle \/ SearchRows
    \/ StartBox \/ ReleaseBox \/ LoseBox \/ DropNowhere
    \/ Reload \/ Moved \/ Unmoved

--------------------------------------------------------------------------------
(* Properties *)

\* No row stays chosen that was not chosen in the folder that is open: unless a failed move,
\* or a box begun before, brought the choice of a folder since left back.
ChosenHere == haunted \/ ticked \subseteq picked

\* Copy and Cut in the menu of a row take that row, unless the selection changed below the
\* menu or the menu opened in the moment after a drag.
MenuOnChosen == menu \in Rows => upset \/ menu \in ticked

RowsChosen == ChosenHere /\ MenuOnChosen
================================================================================
