--------------------------------- MODULE OsDrop ---------------------------------
(***************************************************************************)
(* Files of the desktop dragged over and dropped on the files page: the    *)
(* overlay that follows the drag (features/files/FilesPage.tsx), and the   *)
(* reading of what was dropped, directories and all                        *)
(* (features/files/utils/externalDrop.ts).  What becomes of the files that *)
(* are read, from the preview of the quota on, is Uploads.                 *)
(*                                                                         *)
(* A dropped item is a node of the user's disk.  A path is the sequence of *)
(* its names, slashes and blanks already normalised; the order of a batch, *)
(* by folder and path, is left out.                                        *)
(***************************************************************************)
EXTENDS Naturals, Sequences, FiniteSets, SequencesExt

CONSTANTS
    Disk,     \* files and directories
    Parts,    \* the entries of a directory, in the portions readEntries gives them out
    NameOf,   \* their names
    Stamp,    \* size and time of last change of a file
    Drops,    \* bound: the sets of items that are dropped
    Folder,   \* selectedFolder
    Row,      \* a folder whose row is on the page
    MaxDrops, \* bound: drops
    MaxMoves, \* bound: moves of the pointer
    MaxBad    \* bound: nodes that cannot be read

Root == <<>>
IsDir(n) == n \in DOMAIN Parts

VARIABLES
    over,     \* the element the drag is over: "away", the "page", the "row" or the "tree"
    depth,    \* dragDepthRef
    overlay,  \* dragActive
    browser,  \* which of the ways to read a drop the browser has
    reads,    \* extractExternalDropFiles calls
    batches,  \* what preparePending is given
    bad,      \* nodes that cannot be read
    vanished, \* history: the element under the drag was taken away, and nothing dropped since
    moves     \* moves of the pointer so far

dropVars == <<over, depth, overlay, browser, reads, batches, bad, vanished, moves>>

--------------------------------------------------------------------------------
\* The page has its list and the row of a folder; the tree of the narrow layout is in a
\* dialog outside the page's element.
Inside == {"page", "row"}
Targets == Inside \cup {"away", "tree"}

OsDropInit ==
    /\ over = "away" /\ depth = 0 /\ overlay = FALSE
    /\ browser \in {"handles", "entries", "files"}
    /\ reads = <<>> /\ batches = <<>>
    /\ bad \in {b \in SUBSET Disk : Cardinality(b) <= MaxBad}
    /\ vanished = FALSE /\ moves = 0

--------------------------------------------------------------------------------
(* The overlay. *)

Bit(place) == IF place \in Inside THEN 1 ELSE 0
Lower(n) == IF n = 0 THEN 0 ELSE n - 1

\* onDragLeave: the page is left when all its elements are.
Left(entered, from) ==
    IF from \in Inside
    THEN [depth |-> Lower(entered.depth), overlay |-> entered.overlay /\ Lower(entered.depth) > 0]
    ELSE entered

\* The browser enters the new element, then leaves the old one; one that was taken away is
\* not left.
Moves(to, from) ==
    LET entered == [depth |-> depth + Bit(to), overlay |-> overlay \/ to \in Inside]
        left == Left(entered, from) IN
    /\ over' = to
    /\ depth' = left.depth
    /\ overlay' = left.overlay
    /\ moves < MaxMoves
    /\ moves' = moves + 1
    /\ UNCHANGED <<browser, reads, batches, bad>>

DragTo(to) ==
    /\ to # over
    /\ Moves(to, over)
    /\ UNCHANGED vanished

RowTakenAway ==
    /\ over = "row"
    /\ Moves("page", "away")
    /\ vanished' = TRUE

--------------------------------------------------------------------------------
(* Reading what was dropped. *)

\* A listener on the page's own element stops the event before React can hand it to a row:
\* only the tree, which is outside, takes a drop for its own folder.
Aim == IF over = "tree" THEN <<Row>> ELSE Folder

Read(items) ==
    [items |-> items, aim |-> Aim, left |-> IF browser = "files" THEN {} ELSE items, got |-> {},
     failed |-> {}, step |-> "reading"]

ClearExternalDrag == depth' = 0 /\ overlay' = FALSE /\ vanished' = FALSE

Drop(items) ==
    /\ over # "away"
    /\ Len(reads) < MaxDrops
    /\ reads' = Append(reads, Read(items))
    /\ over' = "away"
    /\ ClearExternalDrag
    /\ UNCHANGED <<browser, batches, bad, moves>>

\* onWindowDrop, onWindowDragEnd: what is dropped beside the page and the tree is not read.
DropElsewhere ==
    /\ over = "away"
    /\ ClearExternalDrag
    /\ UNCHANGED <<over, browser, reads, batches, bad, moves>>

\* Mutation of Entries: one call of readEntries.
EntriesOnce(n) == IF Parts[n] = <<>> THEN {} ELSE Parts[n][1]

\* readAllDirectoryEntries: portion after portion, until an empty one.
Entries(n) == UNION {Parts[n][i] : i \in DOMAIN Parts[n]}

Deepest == Cardinality(Disk)

\* What the directories among some nodes hold, each with its path.
Held(nodes) ==
    UNION {{[node |-> c, dir |-> Append(x.dir, NameOf[x.node])] : c \in Entries(x.node)} :
              x \in {y \in nodes : IsDir(y.node)}}

\* The nodes below a node with their paths: below[k] goes k directories down.
Below(n) ==
    LET below[k \in 0..Deepest] ==
          IF k = 0 THEN {[node |-> n, dir |-> Root]} ELSE Held(below[k - 1])
    IN UNION {below[k] : k \in 0..Deepest}

FilesBelow(n) == {x \in Below(n) : ~IsDir(x.node)}
Unreadable(n) == \E x \in Below(n) : x.node \in bad

\* An item is read whole or not at all.
ReadItem(r, n) ==
    /\ reads[r].step = "reading" /\ n \in reads[r].left
    /\ reads' = [reads EXCEPT ![r].left = @ \ {n},
                              ![r].got = IF Unreadable(n) THEN @ ELSE @ \cup FilesBelow(n),
                              ![r].failed = IF Unreadable(n) THEN @ \cup {n} ELSE @]
    /\ UNCHANGED <<over, depth, overlay, browser, batches, bad, vanished, moves>>

\* dedupeFiles: path, size and time of the last change.
Same(x, y) == NameOf[x.node] = NameOf[y.node] /\ x.dir = y.dir /\ Stamp[x.node] = Stamp[y.node]

\* mapDroppedFilesToFolders: one file of those that are the same goes to its folder.
Mapped(aim, got) ==
    {[file |-> x.node, folder |-> aim \o x.dir] :
        x \in {CHOOSE y \in got : Same(x, y) : x \in got}}

\* Without the newer ways the browser lists the files; once the drop has been awaited, that
\* list is empty.
FoundIn(r) ==
    IF browser = "files"
    THEN {[node |-> n, dir |-> Root] : n \in {m \in reads[r].items : ~IsDir(m)}}
    ELSE reads[r].got

\* By handles an unreadable item is passed over; by entries it rejects the whole drop, and
\* nothing is said.  With no file at all the user is told so.
Extracted(r) ==
    LET lost == browser = "entries" /\ reads[r].failed # {} IN
    /\ reads[r].step = "reading" /\ reads[r].left = {}
    /\ reads' = [reads EXCEPT ![r].step =
                    IF lost THEN "rejected" ELSE IF FoundIn(r) = {} THEN "nothing" ELSE "read"]
    /\ batches' = IF lost \/ FoundIn(r) = {} THEN batches
                  ELSE Append(batches, [read |-> r, files |-> Mapped(reads[r].aim, FoundIn(r))])
    /\ UNCHANGED <<over, depth, overlay, browser, bad, vanished, moves>>

OsDropNext ==
    \/ \E to \in Targets : DragTo(to)
    \/ RowTakenAway
    \/ DropElsewhere
    \/ \E items \in Drops : Drop(items)
    \/ \E r \in DOMAIN reads : (\E n \in reads[r].left : ReadItem(r, n)) \/ Extracted(r)

--------------------------------------------------------------------------------
(* Properties. *)

\* The directories from a dropped item down to a file, the item's own first.
Trails(r, f) ==
    {dirs \in SeqOf(DOMAIN Parts, Cardinality(DOMAIN Parts)) :
        LET way == Append(dirs, f) IN
        /\ way[1] \in reads[r].items \ reads[r].failed
        /\ \A i \in DOMAIN dirs : \E k \in DOMAIN Parts[dirs[i]] : way[i + 1] \in Parts[dirs[i]][k]}

NamesOf(dirs) == [i \in DOMAIN dirs |-> NameOf[dirs[i]]]

\* The files below the items that could be read, each with its folder; without the newer
\* ways a browser gives no directories.
Wanted(r) ==
    UNION {{[file |-> f, folder |-> reads[r].aim \o NamesOf(dirs)] :
                dirs \in {way \in Trails(r, f) : browser = "files" => way = <<>>}} :
           f \in Disk \ DOMAIN Parts}

Alike(e, w) == e.folder = w.folder /\ NameOf[e.file] = NameOf[w.file] /\ Stamp[e.file] = Stamp[w.file]

\* A drop becomes one batch with every file below its readable items, once, in the folder of
\* its directory (only a file like another in name, folder, size and time goes with it); no
\* batch comes of it only when there is no file, or when an entry could not be read.
DropWhole ==
    /\ \A b \in DOMAIN batches :
          LET files == batches[b].files
              wanted == Wanted(batches[b].read) IN
          /\ files \subseteq wanted
          /\ \A w \in wanted : Cardinality({e \in files : Alike(e, w)}) = 1
    /\ \A r \in DOMAIN reads :
          /\ reads[r].step = "nothing" => Wanted(r) = {}
          /\ reads[r].step = "rejected" => reads[r].failed # {}

\* The overlay is shown while files are dragged over the page, and hidden once they are not,
\* unless an element was taken away under them; the next drop puts that right.
OverlayFollows ==
    /\ over \in Inside => overlay
    /\ overlay => over \in Inside \/ vanished
================================================================================
