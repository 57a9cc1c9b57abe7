------------------------------- MODULE FilesPage -------------------------------
(***************************************************************************)
(* features/files/FilesPage.tsx: the explorer of the files page, its       *)
(* optimistic moves, clipboard, deletions, renames and reloads, against    *)
(* the file index of backend/features/files/service.py, which another tab  *)
(* of the user may change too.                                             *)
(*                                                                         *)
(* A folder is the sequence of the names on its path.  Rows are moved or   *)
(* pasted one folder at a time; which rows are selected is left out.       *)
(***************************************************************************)
EXTENDS Naturals, Sequences, FiniteSets, SequencesExt, Functions

CONSTANTS
    Names,       \* folder names
    Files,       \* ids of stored files
    Paths,       \* the folders a user makes or moves to (bounds the depth of the tree)
    Slots,       \* bound: handlers of the page that run at once
    Gone,        \* the place of a deleted file
    New,         \* the place of a file that is not there yet
    None,        \* no clipboard, snapshot, answer or folder
    Starts       \* where a behaviour may begin, and its bounds: the files' places, the folders and
                 \* the folder last open; how many handlers, clicks that only navigate or fill the
                 \* clipboard, lost messages and changes elsewhere; and whether the user acts
                 \* before the first listing

Root == <<>>

ASSUME FilesAssumption ==
    /\ Paths \subseteq Seq(Names) /\ Root \in Paths
    /\ Slots \subseteq Nat /\ Slots # {}
    /\ Starts \subseteq [place : [Files -> Paths \cup {New}], made : SUBSET Paths, last : Paths,
                         calls : Nat, clicks : Nat, faults : Nat, others : Nat, early : BOOLEAN]

\* What stands for something that is missing is no path, and no snapshot of what is shown.
ASSUME AbsentAssumption ==
    /\ {Gone, New, None} \cap Seq(Names) = {}
    /\ None \notin [files : [Files -> Seq(Names) \cup {Gone}], named : [Files -> Seq(Names)],
                    folders : SUBSET Seq(Names), tree : SUBSET Seq(Names), selected : Seq(Names)]

VARIABLES
    place,     \* folder_path of each file in the index
    made,      \* folders that have a document
    files,     \* files: the folder_path shown of each file
    named,     \* files: the folder in the name shown of each file
    folders,   \* folderPaths
    tree,      \* tree: the folders in it
    selected,  \* selectedFolder
    clipboard, \* clipboard
    flagged,   \* pendingFileMoveIds
    roots,     \* pendingFolderMoveRoots
    busy,      \* busy
    calls,     \* handlers that wait for an answer
    been,      \* history: the places each file has had in the index
    mixed,     \* history: two handlers overlapped, a request was lost, or another tab changed a file
    crossed,   \* history: two optimistic moves overlapped
    astray,    \* history: the last reload checked another folder than the one that was open
    budget     \* what is left of the bounds

index == <<place, made, been>>
listing == <<files, named, folders, tree>>
page == <<listing, selected, clipboard, flagged, roots, busy, astray>>
vars == <<index, page, calls, mixed, crossed, budget>>

--------------------------------------------------------------------------------
(* Folders and the tree. *)

Under(r, p) == r # Root /\ IsPrefix(r, p)
Parent(p) == IF p = Root THEN Root ELSE Front(p)
Chain(p) == {SubSeq(p, 1, n) : n \in 1 .. Len(p)}
Chains(ps) == UNION {Chain(p) : p \in ps}

Stored(at) == {f \in Files : at[f] \in Seq(Names)}
TreeOf(at, dirs) == Chains(dirs \cup {at[f] : f \in Stored(at)})

\* remapSubtreePath under joinFolder: a moved folder keeps its name.
Moved(dirs, dest, p) ==
    IF \E r \in dirs : Under(r, p)
    THEN LET r == CHOOSE r \in dirs : Under(r, p) IN dest \o SubSeq(p, Len(r), Len(p))
    ELSE p

Renamed(old, new, p) == IF Under(old, p) THEN new \o SubSeq(p, Len(old) + 1, Len(p)) ELSE p

MovedFiles(at, dirs, ids, dest) ==
    [f \in Files |->
        IF f \notin Stored(at) THEN at[f]
        ELSE IF Moved(dirs, dest, at[f]) # at[f] THEN Moved(dirs, dest, at[f])
        ELSE IF f \in ids THEN dest ELSE at[f]]

Targets(dirs, dest) == {Append(dest, Last(r)) : r \in dirs}

MovedFolders(dirs, dest, paths) ==
    ({Moved(dirs, dest, p) : p \in paths} \cup Targets(dirs, dest) \cup {dest}) \ {Root}

\* fileParentFolder
FolderOf(f) == IF files[f] = Root THEN named[f] ELSE files[f]

FolderPending(p) == \E r \in roots : Under(r, p)

--------------------------------------------------------------------------------
(* The index. *)

ListFiles == [f \in Files |-> IF f \in Stored(place) THEN place[f] ELSE Gone]

\* list_folders derives the folders from the files, and keeps them, when it has none.
ListFolders == IF made = {} THEN TreeOf(place, {}) ELSE made

Put(at, dirs) ==
    /\ place' = at
    /\ made' = dirs
    /\ been' = been \cup {<<f, at[f]>> : f \in Stored(at)}

UpdateFile(f, dest) ==
    IF f \in Stored(place)
    THEN Put([place EXCEPT ![f] = dest], made \cup Chain(dest))
    ELSE UNCHANGED index

DropFiles(fs) == [f \in Files |-> IF f \in fs THEN Gone ELSE place[f]]

InFolder(p) == {f \in Stored(place) : Under(p, place[f])}
DocsUnder(dirs) == {p \in made : \E r \in dirs : Under(r, p)}

\* Afterwards the documents of the moved folders go, also when a folder was put where it was.
PasteMove(dirs, ids, dest) ==
    LET at == MovedFiles(place, dirs, ids, dest)
    IN Put(at, (made \cup Chains(MovedFolders(dirs, dest, DocsUnder(dirs)) \cup {at[f] : f \in Stored(at)}))
                 \ (DocsUnder(dirs) \cup dirs))

\* As many files are copied as there are ids.
PasteCopy(dirs, ids, dest) ==
    LET sources == {f \in Stored(place) : f \in ids \/ \E r \in dirs : Under(r, place[f])}
        fresh == {f \in Files : place[f] = New}
        few == IF Cardinality(sources) < Cardinality(fresh) THEN Cardinality(sources) ELSE Cardinality(fresh)
        goal(f) == MovedFiles(place, dirs, ids, dest)[f]
    IN \E some \in {T \in SUBSET sources : Cardinality(T) = few} : \E id \in Injection(some, fresh) :
          LET at == [f \in Files |-> IF \E s \in some : id[s] = f
                                     THEN goal(CHOOSE s \in some : id[s] = f) ELSE place[f]]
          IN Put(at, made \cup Chains(MovedFolders(dirs, dest, DocsUnder(dirs)) \cup {goal(f) : f \in some}))

RenameFolder(old, new) ==
    Put([f \in Files |-> IF f \in Stored(place) THEN Renamed(old, new, place[f]) ELSE place[f]],
        (made \ (DocsUnder({old}) \cup {old})) \cup Chains({Renamed(old, new, p) : p \in DocsUnder({old})} \cup {new}))

EraseFolder(p) == Put(DropFiles(InFolder(p)), made \ DocsUnder({p}))

\* A change the user makes in another tab.
Elsewhere ==
    /\ budget.others > 0
    /\ budget' = [budget EXCEPT !.others = @ - 1]
    /\ mixed' = TRUE
    /\ \/ \E f \in Stored(place), p \in Paths : p # place[f] /\ UpdateFile(f, p)
       \/ \E p \in made : EraseFolder(p)
    /\ UNCHANGED <<page, calls, crossed>>

--------------------------------------------------------------------------------
(* Handlers: what each has been asked, and how far it is. *)

Idle == [kind |-> "none", at |-> "idle", op |-> "move", ids |-> {}, dirs |-> {}, dest |-> Root,
         target |-> None, flags |-> {}, snap |-> None, gotFiles |-> None, gotFolders |-> None]

Call(kind, ids, dirs, dest) ==
    [Idle EXCEPT !.kind = kind, !.at = "asked", !.ids = ids, !.dirs = dirs, !.dest = dest]

Open == {s \in Slots : calls[s] # Idle}

\* The user acts.
Ready == budget.early \/ folders # {} \/ \A s \in Slots : calls[s].kind # "refresh"

Begin(c) ==
    /\ Ready
    /\ \E s \in Slots \ Open :
          /\ \A t \in Slots : t < s => t \in Open
          /\ calls' = [calls EXCEPT ![s] = c]
    /\ budget.calls > 0
    /\ budget' = [budget EXCEPT !.calls = @ - 1]
    /\ mixed' = (mixed \/ Open # {})
    /\ crossed' = (crossed \/ (c.snap # None /\ \E t \in Open : calls[t].snap # None))
    /\ UNCHANGED <<index, astray>>

Click ==
    /\ Ready
    /\ budget.clicks > 0
    /\ budget' = [budget EXCEPT !.clicks = @ - 1]
    /\ UNCHANGED astray

Shape == [files |-> files, named |-> named, folders |-> folders, tree |-> tree, selected |-> selected]

\* Mutation of Restored: only the tree and the folders go back.
RestoredTree(c) ==
    IF c.snap = None THEN UNCHANGED <<listing, selected>>
    ELSE /\ tree' = c.snap.tree
         /\ UNCHANGED <<files, named>>
         /\ IF c.kind = "moveFiles" THEN UNCHANGED <<folders, selected>>
            ELSE folders' = c.snap.folders /\ selected' = c.snap.selected

\* restoreFolderMoveSnapshot; restoreFileMoveSnapshot leaves folderPaths and the open folder.
Restored(c) ==
    IF c.snap = None THEN UNCHANGED <<listing, selected>>
    ELSE /\ files' = c.snap.files /\ named' = c.snap.named /\ tree' = c.snap.tree
         /\ IF c.kind = "moveFiles" THEN UNCHANGED <<folders, selected>>
            ELSE folders' = c.snap.folders /\ selected' = c.snap.selected

\* clearPendingFileMoveIds, clearPendingFolderMoveRoots
Unflag(c) ==
    /\ flagged' = IF c.kind = "moveFiles" THEN flagged \ c.flags ELSE flagged
    /\ roots' = IF c.kind = "moveFiles" THEN roots ELSE roots \ c.flags

\* setBusy(false) in finally, by the handlers that have set it.
End(s) ==
    /\ Unflag(calls[s])
    /\ calls' = [calls EXCEPT ![s] = Idle]
    /\ busy' = IF calls[s].at \in {"loading"} \/ calls[s].kind \in {"paste", "moveFolders", "moveFiles"}
               THEN FALSE ELSE busy

--------------------------------------------------------------------------------
(* What the user does. *)

\* The tree, a folder's row, the breadcrumb.
Navigate(p) ==
    /\ p \in tree \cup {Root}
    /\ p # selected
    /\ Click
    /\ selected' = p
    /\ UNCHANGED <<index, listing, clipboard, flagged, roots, busy, calls, mixed, crossed>>

\* setClipboardFromSelection, setClipboardForFolder; a file under a folder that is taken goes with it.
Take(op, dirs, ids) ==
    /\ dirs \subseteq tree /\ ids \subseteq Stored(files)
    /\ Cardinality(dirs) + Cardinality(ids) = 1
    /\ Click
    /\ clipboard' = [op |-> op, dirs |-> dirs, ids |-> ids]
    /\ UNCHANGED <<index, listing, selected, flagged, roots, busy, calls, mixed, crossed>>

\* refresh: at the start, from the menu, when an upload completes.
Refresh ==
    /\ Begin([Call("refresh", {}, {}, Root) EXCEPT !.at = "loading"])
    /\ busy' = TRUE
    /\ UNCHANGED <<listing, selected, clipboard, flagged, roots>>

\* The paths a move would give stay within Paths.
Fits(dirs, dest) ==
    \A p \in {q \in tree \cup made : \E r \in dirs : Under(r, q)} : Moved(dirs, dest, p) \in Paths

\* applyOptimisticFolderMove
FolderMove(c) ==
    /\ files' = MovedFiles(files, c.dirs, c.ids, c.dest)
    /\ folders' = MovedFolders(c.dirs, c.dest, folders)
    /\ tree' = TreeOf(files', folders')
    /\ selected' = Moved(c.dirs, c.dest, selected)
    /\ roots' = roots \cup Targets(c.dirs, c.dest)
    /\ Begin([c EXCEPT !.snap = Shape, !.flags = Targets(c.dirs, c.dest), !.target = selected'])
    /\ UNCHANGED named

\* pasteIntoFolder
Paste(dest) ==
    /\ clipboard # None
    /\ clipboard.op = "move" => \A r \in clipboard.dirs : ~Under(r, dest)
    /\ Fits(clipboard.dirs, dest)
    /\ busy' = TRUE
    /\ LET c == [Call("paste", clipboard.ids, clipboard.dirs, dest) EXCEPT !.op = clipboard.op]
       IN IF c.op = "move" /\ c.dirs # {} THEN FolderMove(c)
          ELSE Begin(c) /\ UNCHANGED <<listing, selected, roots>>
    /\ UNCHANGED <<clipboard, flagged>>

\* moveFoldersToFolder
MoveFolder(r, dest) ==
    /\ r \in tree /\ ~FolderPending(r)
    /\ Parent(r) # dest /\ ~Under(r, dest)
    /\ Fits({r}, dest)
    /\ busy' = TRUE
    /\ FolderMove(Call("moveFolders", {}, {r}, dest))
    /\ UNCHANGED <<clipboard, flagged>>

Movable(ids, dest) ==
    {f \in ids \ flagged : FolderOf(f) # dest /\ ~FolderPending(FolderOf(f))}

\* moveFilesToFolder with applyOptimisticFileMove
MoveFiles(ids, dest) ==
    LET todo == Movable(ids, dest)
        flags == {f \in todo : files[f] # dest}
    IN /\ ids \subseteq Stored(files)
       /\ todo # {}
       /\ files' = [f \in Files |-> IF f \in flags THEN dest ELSE files[f]]
       /\ tree' = IF flags = {} THEN tree ELSE TreeOf(files', folders)
       /\ flagged' = flagged \cup flags
       /\ busy' = TRUE
       /\ Begin([Call("moveFiles", todo, {}, dest) EXCEPT !.snap = Shape, !.flags = flags])
       /\ UNCHANGED <<named, folders, selected, clipboard, roots>>

\* The page changes when these are answered.
\* performDelete
DeleteFile(f) ==
    /\ f \in Stored(files)
    /\ Begin(Call("deleteFile", {f}, {}, Root))
    /\ UNCHANGED page

\* performDeleteFolder; it goes by the folder that was open when it began.
DeleteFolder(p) ==
    /\ p \in tree
    /\ Begin([Call("deleteFolder", {}, {p}, Root) EXCEPT !.target = selected])
    /\ UNCHANGED page

\* performNewFolder
NewFolder(p, n) ==
    /\ p \in tree \cup {Root} /\ Append(p, n) \in Paths \ tree
    /\ Begin(Call("newFolder", {}, {Append(p, n)}, p))
    /\ UNCHANGED page

\* performRename; the request names the folder too, from the name that is shown.
RenameFile(f) ==
    /\ f \in Stored(files)
    /\ Begin(Call("renameFile", {f}, {}, named[f]))
    /\ UNCHANGED page

\* performRenameFolder
RenamePath(p, n) ==
    /\ p \in tree /\ n # Last(p)
    /\ Begin(Call("renameFolder", {}, {p}, Append(Parent(p), n)))
    /\ UNCHANGED page

--------------------------------------------------------------------------------
(* The service answers. *)

\* The one folder of a call.
Dir(c) == CHOOSE p \in c.dirs : TRUE
File(c) == CHOOSE f \in c.ids : TRUE

Refused(c) ==
    CASE c.kind \in {"deleteFile", "renameFile"} -> File(c) \notin Stored(place)
      [] c.kind \in {"deleteFolder", "renameFolder"} ->
            DocsUnder(c.dirs) = {} /\ InFolder(Dir(c)) = {}
      [] OTHER -> FALSE

Effect(c) ==
    CASE c.kind \in {"paste", "moveFolders"} /\ c.op = "move" -> PasteMove(c.dirs, c.ids, c.dest)
      [] c.kind = "paste" /\ c.op = "copy" -> PasteCopy(c.dirs, c.ids, c.dest)
      [] c.kind = "deleteFile" -> Put(DropFiles(c.ids), made)
      [] c.kind = "deleteFolder" -> EraseFolder(Dir(c))
      [] c.kind = "newFolder" -> Put(place, made \cup Chain(Dir(c)))
      [] c.kind = "renameFile" -> UpdateFile(File(c), c.dest)
      [] c.kind = "renameFolder" -> RenameFolder(Dir(c), c.dest)

Advance(s, at) == calls' = [calls EXCEPT ![s].at = at]

Serve(s) ==
    /\ calls[s].at = "asked"
    /\ calls[s].kind # "moveFiles"
    /\ IF Refused(calls[s]) THEN Advance(s, "refused") /\ UNCHANGED index
       ELSE Advance(s, "done") /\ Effect(calls[s])
    /\ UNCHANGED <<page, mixed, crossed, budget>>

Fault ==
    /\ budget.faults > 0
    /\ budget' = [budget EXCEPT !.faults = @ - 1]
    /\ mixed' = TRUE

\* moveFiles sends a request for each file and waits for all (allSettled).
Left(c, f) == IF c.ids = {f} THEN [c EXCEPT !.ids = {}, !.at = "done"] ELSE [c EXCEPT !.ids = @ \ {f}]

ServeFile(s, f) ==
    /\ calls[s].at = "asked" /\ calls[s].kind = "moveFiles" /\ f \in calls[s].ids
    /\ UpdateFile(f, calls[s].dest)
    /\ calls' = [calls EXCEPT ![s] = Left(@, f)]
    /\ UNCHANGED <<page, mixed, crossed, budget>>

LoseFile(s, f) ==
    /\ calls[s].at = "asked" /\ calls[s].kind = "moveFiles" /\ f \in calls[s].ids
    /\ Fault
    /\ calls' = [calls EXCEPT ![s] = Left(@, f)]
    /\ UNCHANGED <<index, page, crossed>>

\* A request or its answer is lost.
Lose(s) ==
    /\ calls[s].at \in {"asked", "done"} /\ calls[s].kind # "moveFiles"
    /\ Fault
    /\ Advance(s, "refused")
    /\ UNCHANGED <<index, page, crossed>>

\* The two reads of loadFilesFromServer.
ReadFiles(s) ==
    /\ calls[s].at = "loading" /\ calls[s].gotFiles = None
    /\ calls' = [calls EXCEPT ![s].gotFiles = ListFiles]
    /\ UNCHANGED <<index, page, mixed, crossed, budget>>

ReadFolders(s) ==
    /\ calls[s].at = "loading" /\ calls[s].gotFolders = None
    /\ calls' = [calls EXCEPT ![s].gotFolders = ListFolders]
    /\ made' = ListFolders
    /\ UNCHANGED <<place, been, page, mixed, crossed, budget>>

LoseRead(s) ==
    /\ calls[s].at = "loading"
    /\ Fault
    /\ Advance(s, "unread")
    /\ UNCHANGED <<index, page, crossed>>

--------------------------------------------------------------------------------
(* The handlers go on. *)

\* The answer of a change has come: the page follows, and reloads.
Answered(s) ==
    LET c == calls[s] IN
    /\ c.at = "done"
    /\ calls' = [calls EXCEPT ![s].at = "loading",
                              ![s].target = IF c.kind = "moveFiles" THEN selected
                                            ELSE IF c.snap # None THEN c.target ELSE None]
    /\ selected' = CASE c.kind = "deleteFolder" /\ Under(Dir(c), c.target) -> Parent(Dir(c))
                     [] c.kind = "renameFolder" -> Renamed(Dir(c), c.dest, selected)
                     [] OTHER -> selected
    /\ busy' = TRUE
    /\ UNCHANGED <<index, listing, clipboard, flagged, roots, astray, mixed, crossed, budget>>

\* The change failed.
Failed(s) ==
    /\ calls[s].at = "refused"
    /\ Restored(calls[s])
    /\ End(s)
    /\ UNCHANGED <<index, clipboard, astray, mixed, crossed, budget>>

\* Mutations of Fallback: no check, and no folder in place of the root.
FallbackNever(c, at) == selected
\* The page stays where it is when its folder is in the tree.
Fallback(c, at) ==
    LET active == IF c.target = None THEN selected ELSE c.target
    IN IF active # Root /\ active \notin at THEN Root ELSE selected

\* What follows the reload, read or not.
Spent(c) == IF c.kind = "paste" /\ c.op = "move" THEN None ELSE clipboard
Back(c, p) == IF c.kind = "newFolder" THEN c.dest ELSE p

Loaded(s) ==
    LET c == calls[s]
        at == TreeOf(c.gotFiles, c.gotFolders)
    IN /\ c.at = "loading" /\ c.gotFiles # None /\ c.gotFolders # None
       /\ files' = c.gotFiles
       /\ named' = [f \in Files |-> IF c.gotFiles[f] = Gone THEN Root ELSE c.gotFiles[f]]
       /\ folders' = c.gotFolders
       /\ tree' = at
       /\ selected' = Back(c, Fallback(c, at))
       /\ clipboard' = Spent(c)
       /\ astray' = (c.target \notin {None, selected})
       /\ End(s)
       /\ UNCHANGED <<index, mixed, crossed, budget>>

\* A reload that fails is told by refresh; the moves take it for their own failure.
Unread(s) ==
    LET c == calls[s] IN
    /\ c.at = "unread"
    /\ IF c.snap # None THEN Restored(c) /\ UNCHANGED clipboard
       ELSE selected' = Back(c, selected) /\ clipboard' = Spent(c) /\ UNCHANGED listing
    /\ End(s)
    /\ UNCHANGED <<index, astray, mixed, crossed, budget>>

--------------------------------------------------------------------------------
Init ==
    /\ budget \in Starts
    /\ place = budget.place
    /\ made = budget.made
    /\ been = {<<f, place[f]>> : f \in Stored(place)}
    /\ files = [f \in Files |-> Gone]
    /\ named = [f \in Files |-> Root]
    /\ folders = {} /\ tree = {}
    /\ selected = budget.last
    /\ clipboard = None
    /\ flagged = {} /\ roots = {}
    /\ busy = TRUE
    /\ calls = [s \in Slots |-> IF \A t \in Slots : s <= t
                                THEN [Call("refresh", {}, {}, Root) EXCEPT !.at = "loading"] ELSE Idle]
    /\ mixed = FALSE /\ crossed = FALSE /\ astray = FALSE

User ==
    \/ Refresh
    \/ \E f \in Files : DeleteFile(f) \/ RenameFile(f)
    \/ \E p \in tree : DeleteFolder(p)
    \/ \E p \in tree \cup {Root}, n \in Names : NewFolder(p, n) \/ RenamePath(p, n)
    \/ \E p \in Paths : Navigate(p) \/ Paste(p)
    \/ \E op \in {"copy", "move"} :
          (\E p \in tree : Take(op, {p}, {})) \/ (\E f \in Files : Take(op, {}, {f}))
    \/ \E r \in tree, p \in Paths : MoveFolder(r, p)
    \/ \E ids \in SUBSET Files, p \in Paths : MoveFiles(ids, p)

Step(s) ==
    \/ Serve(s) \/ ReadFiles(s) \/ ReadFolders(s)
    \/ Answered(s) \/ Failed(s) \/ Loaded(s) \/ Unread(s)
    \/ \E f \in Files : ServeFile(s, f)

Next ==
    \/ User
    \/ Elsewhere
    \/ \E s \in Slots : Step(s) \/ Lose(s) \/ LoseRead(s) \/ \E f \in Files : LoseFile(s, f)

Spec == Init /\ [][Next]_vars

--------------------------------------------------------------------------------
\* Types of the page's state: the open folder is a path whatever was renamed, moved or restored.
FilesTypeOK ==
    /\ place \in [Files -> Seq(Names) \cup {Gone, New}]
    /\ made \subseteq Seq(Names) /\ folders \subseteq Seq(Names) /\ tree \subseteq Seq(Names)
    /\ files \in [Files -> Seq(Names) \cup {Gone}]
    /\ named \in [Files -> Seq(Names)]
    /\ selected \in Seq(Names)
    /\ clipboard = None \/ (clipboard.op \in {"copy", "move"} /\ clipboard.ids \subseteq Files)
    /\ flagged \subseteq Files /\ roots \subseteq Seq(Names)
    /\ busy \in BOOLEAN /\ mixed \in BOOLEAN /\ crossed \in BOOLEAN /\ astray \in BOOLEAN

\* A row is marked as being moved exactly as long as a move of it is open: no file is in two moves
\* at once, and no mark outlives its move however it ends (pendingFileMoveIds,
\* pendingFolderMoveRoots; of two moves to one place the first to end takes the mark).
FlagsOwned ==
    /\ flagged = UNION {calls[s].flags : s \in {t \in Open : calls[t].kind = "moveFiles"}}
    /\ \A s, t \in Open :
          s # t /\ calls[s].kind = "moveFiles" /\ calls[t].kind = "moveFiles" =>
              calls[s].flags \cap calls[t].flags = {}
    /\ roots \subseteq UNION {calls[s].flags : s \in {t \in Open : calls[t].kind # "moveFiles"}}

\* Nothing optimistic stays behind a move that has ended: unless two moves overlapped, every file
\* is shown in a folder the index has had it in, also when a request, an answer or the reload of
\* the move was lost, or another handler reloaded the page meanwhile.
OptimismEnds ==
    (~crossed /\ \A s \in Open : calls[s].snap = None) =>
        \A f \in Stored(files) : <<f, files[f]>> \in been

\* What the page shows ahead of the service (moveFilesById, moveFoldersByPath) is marked as
\* long as it is ahead, and taken back when the service does not follow.
MovesSafe == FilesTypeOK /\ FlagsOwned /\ OptimismEnds

\* Nothing is open, and handlers have run one at a time with nothing lost and no other tab.
AtRest == ~mixed /\ Open = {}

\* The page at rest is as the index is: its files, its folders, the tree built from both, and an
\* open folder that is in the tree.  (loadFilesFromServer checks the folder a move has named, also
\* when the user has opened another one meanwhile: the next reload checks that one.)
InStep ==
    AtRest =>
        /\ files = ListFiles
        /\ folders = ListFolders
        /\ tree = TreeOf(files, folders)
        /\ ~astray => selected \in tree \cup {Root}
================================================================================
