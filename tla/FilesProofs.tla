------------------------------ MODULE FilesProofs ------------------------------
(***************************************************************************)
(* Proofs about FilesPage, for any folders, files, handlers, lost messages *)
(* and changes in other tabs: what the page shows ahead of the service is  *)
(* marked as long as it is ahead and taken back when the service does not  *)
(* follow, and a page at rest shows the index as it is.  And about         *)
(* Uploads, for any batches, refusals and losses: each file of a batch is  *)
(* with the service or was reported.                                       *)
(***************************************************************************)
EXTENDS FilesPage, Uploads, SequenceTheorems, FiniteSetTheorems, WellFoundedInduction, TLAPS

(* Paths. *)

Folders == Seq(Names) \ {Root}

\* A piece of a path is a path; the last name of a folder is a name.
LEMMA Pieces ==
    ASSUME NEW p \in Seq(Names), NEW m \in 1 .. Len(p) + 1, NEW n \in 0 .. Len(p)
    PROVE  /\ SubSeq(p, m, n) \in Seq(Names)
           /\ m <= n => SubSeq(p, m, n) # Root
<1>1. Len(p) \in Nat /\ \A i \in 1 .. Len(p) : p[i] \in Names
  BY LenProperties, ElementOfSeq
<1>2. \A i \in m .. n : p[i] \in Names
  BY <1>1
<1>3. m \in Int /\ n \in Int
  BY <1>1
<1>4. SubSeq(p, m, n) \in Seq(Names) /\ Len(SubSeq(p, m, n)) = IF m <= n THEN n - m + 1 ELSE 0
  BY <1>2, <1>3, SubSeqProperties
<1>5. Len(Root) = 0
  BY DEF Root
<1> QED
  BY <1>3, <1>4, <1>5

LEMMA FolderFacts ==
    ASSUME NEW r \in Folders
    PROVE  Len(r) \in Nat \ {0} /\ Last(r) \in Names
<1>1. r \in Seq(Names) /\ r # <<>>
  BY DEF Folders, Root
<1>2. Len(r) \in Nat \ {0}
  BY <1>1, EmptySeq
<1> QED
  BY <1>1, <1>2, ElementOfSeq DEF Last

LEMMA PrefixFacts ==
    ASSUME NEW r \in Seq(Names), NEW p \in Seq(Names), Under(r, p)
    PROVE  r \in Folders /\ Len(r) \in 1 .. Len(p) /\ Len(p) \in Nat
<1>1. r \in Folders
  BY DEF Under, Folders
<1> QED
  BY <1>1, FolderFacts, LenProperties DEF Under, IsPrefix

LEMMA AppendFolder ==
    ASSUME NEW p \in Seq(Names), NEW n \in Names
    PROVE  Append(p, n) \in Folders
BY AppendProperties DEF Folders, Root

LEMMA ParentPath ==
    ASSUME NEW p \in Seq(Names)
    PROVE  Parent(p) \in Seq(Names)
<1>1. CASE p = Root
  BY <1>1 DEF Parent
<1>2. CASE p # Root
  <2>1. Len(p) \in Nat \ {0}
    BY <1>2, FolderFacts DEF Folders
  <2>2. 1 \in 1 .. Len(p) + 1 /\ Len(p) - 1 \in 0 .. Len(p)
    BY <2>1
  <2> QED
    BY <1>2, <2>2, Pieces DEF Parent, Front
<1> QED
  BY <1>1, <1>2

LEMMA ChainFolders ==
    ASSUME NEW p \in Seq(Names)
    PROVE  Chain(p) \subseteq Folders /\ (p # Root => p \in Chain(p))
<1>1. Len(p) \in Nat
  BY LenProperties
<1>2. ASSUME NEW n \in 1 .. Len(p) PROVE SubSeq(p, 1, n) \in Folders
  <2>1. 1 \in 1 .. Len(p) + 1 /\ n \in 0 .. Len(p) /\ 1 <= n
    BY <1>1
  <2> QED
    BY <2>1, Pieces DEF Folders
<1>3. p # Root => Len(p) \in 1 .. Len(p)
  BY FolderFacts DEF Folders
<1>4. Chain(p) \subseteq Folders
  BY <1>2 DEF Chain
<1>5. SubSeq(p, 1, Len(p)) = p
  BY SubSeqFull
<1> QED
  BY <1>3, <1>4, <1>5 DEF Chain

\* The folder in which another lies is on the other's path, or is the root.
LEMMA AppendChain ==
    ASSUME NEW p \in Seq(Names), NEW n \in Names
    PROVE  p \in Chain(Append(p, n)) \cup {Root}
<1> SUFFICES ASSUME p # Root PROVE p \in Chain(Append(p, n))
  OBVIOUS
<1> DEFINE q == Append(p, n)
           r == SubSeq(q, 1, Len(p))
<1>1. Len(p) \in Nat \ {0}
  BY FolderFacts DEF Folders
<1>2. q \in Seq(Names) /\ Len(q) = Len(p) + 1 /\ \A i \in 1 .. Len(p) : q[i] = p[i]
  BY AppendProperties
<1> HIDE DEF q
<1>3. \A i \in 1 .. Len(p) : q[i] \in Names
  BY <1>1, <1>2, ElementOfSeq
<1>4. r \in Seq(Names) /\ Len(r) = Len(p) /\ \A i \in 1 .. Len(p) : r[i] = q[i]
  <2>1. /\ r \in Seq(Names) /\ Len(r) = IF 1 <= Len(p) THEN Len(p) - 1 + 1 ELSE 0
        /\ \A i \in 1 .. Len(p) - 1 + 1 : r[i] = q[1 + i - 1]
    BY <1>1, <1>3, SubSeqProperties
  <2> HIDE DEF r
  <2>2. \A i \in 1 .. Len(p) : r[i] = q[i]
    BY <1>1, <2>1
  <2> QED
    BY <1>1, <2>1, <2>2
<1> HIDE DEF r
<1>5. r = p
  BY <1>2, <1>4, SeqEqual
<1>6. Len(p) \in 1 .. Len(q)
  BY <1>1, <1>2
<1> QED
  BY <1>5, <1>6 DEF Chain, q, r

LEMMA MovedPath ==
    ASSUME NEW dirs \in SUBSET Folders, NEW dest \in Seq(Names), NEW p \in Seq(Names)
    PROVE  Moved(dirs, dest, p) \in Seq(Names)
<1>1. CASE \E r \in dirs : Under(r, p)
  <2> DEFINE r == CHOOSE r \in dirs : Under(r, p)
  <2>1. r \in dirs /\ Under(r, p)
    BY <1>1
  <2>2. Len(r) \in 1 .. Len(p) /\ Len(p) \in Nat
    BY <2>1, PrefixFacts DEF Folders
  <2>3. SubSeq(p, Len(r), Len(p)) \in Seq(Names)
    <3>1. Len(r) \in 1 .. Len(p) + 1 /\ Len(p) \in 0 .. Len(p)
      BY <2>2
    <3> HIDE DEF r
    <3> QED
      BY <3>1, Pieces
  <2>4. dest \o SubSeq(p, Len(r), Len(p)) \in Seq(Names)
    BY <2>3, ConcatProperties
  <2> QED
    BY <1>1, <2>4 DEF Moved
<1>2. CASE ~ \E r \in dirs : Under(r, p)
  BY <1>2 DEF Moved
<1> QED
  BY <1>1, <1>2

LEMMA RenamedPath ==
    ASSUME NEW old \in Seq(Names), NEW new \in Seq(Names), NEW p \in Seq(Names)
    PROVE  Renamed(old, new, p) \in Seq(Names)
<1>1. CASE Under(old, p)
  <2>1. Len(old) \in 1 .. Len(p) /\ Len(p) \in Nat
    BY <1>1, PrefixFacts
  <2>2. SubSeq(p, Len(old) + 1, Len(p)) \in Seq(Names)
    <3>1. Len(old) + 1 \in 1 .. Len(p) + 1 /\ Len(p) \in 0 .. Len(p)
      BY <2>1
    <3> QED
      BY <3>1, Pieces
  <2> QED
    BY <1>1, <2>2, ConcatProperties DEF Renamed
<1>2. CASE ~Under(old, p)
  BY <1>2 DEF Renamed
<1> QED
  BY <1>1, <1>2

LEMMA TargetFolders ==
    ASSUME NEW dirs \in SUBSET Folders, NEW dest \in Seq(Names)
    PROVE  Targets(dirs, dest) \subseteq Folders
<1>1. ASSUME NEW r \in dirs PROVE Append(dest, Last(r)) \in Folders
  BY FolderFacts, AppendFolder
<1>2. ASSUME NEW t \in Targets(dirs, dest) PROVE t \in Folders
  <2>1. PICK r \in dirs : t = Append(dest, Last(r))
    BY DEF Targets
  <2> QED
    BY <1>1, <2>1
<1> QED
  BY <1>2

LEMMA TreeFolders ==
    ASSUME NEW at, NEW dirs \in SUBSET Seq(Names)
    PROVE  TreeOf(at, dirs) \subseteq Folders
<1>1. dirs \cup {at[f] : f \in Stored(at)} \subseteq Seq(Names)
  BY DEF Stored
<1> QED
  BY <1>1, ChainFolders DEF TreeOf, Chains

LEMMA ChainsFolders ==
    ASSUME NEW ps \in SUBSET Seq(Names)
    PROVE  Chains(ps) \subseteq Folders
BY ChainFolders DEF Chains

\* Wherever files may be, they stay in folders and such places when they are moved.
LEMMA MovedPlaces ==
    ASSUME NEW X, NEW at \in [Files -> Seq(Names) \cup X], NEW dirs \in SUBSET Folders, NEW ids,
           NEW dest \in Seq(Names)
    PROVE  MovedFiles(at, dirs, ids, dest) \in [Files -> Seq(Names) \cup X]
<1>1. ASSUME NEW f \in Stored(at) PROVE Moved(dirs, dest, at[f]) \in Seq(Names)
  BY MovedPath DEF Stored
<1> QED
  BY <1>1 DEF MovedFiles

LEMMA MovedFolderPaths ==
    ASSUME NEW dirs \in SUBSET Folders, NEW dest \in Seq(Names), NEW paths \in SUBSET Seq(Names)
    PROVE  MovedFolders(dirs, dest, paths) \subseteq Seq(Names)
BY MovedPath, TargetFolders DEF MovedFolders, Folders

--------------------------------------------------------------------------------
(* What the variables hold. *)

Views == [Files -> Seq(Names) \cup {Gone}]

Shapes == [files : Views, named : [Files -> Seq(Names)], folders : SUBSET Seq(Names),
           tree : SUBSET Folders, selected : Seq(Names)]

Clipboards == [op : {"copy", "move"}, dirs : SUBSET Folders, ids : SUBSET Files]

FolderKinds == {"deleteFolder", "newFolder", "renameFolder"}
FileKinds == {"deleteFile", "renameFile"}
Kinds == {"none", "refresh", "paste", "moveFolders", "moveFiles"} \cup FolderKinds \cup FileKinds

CallRecords ==
    [kind : Kinds, at : {"idle", "asked", "done", "refused", "loading", "unread"},
     op : {"copy", "move"}, ids : SUBSET Files, dirs : SUBSET Folders, dest : Seq(Names),
     target : Seq(Names) \cup {None}, flags : SUBSET (Files \cup Seq(Names)),
     snap : Shapes \cup {None}, gotFiles : Views \cup {None},
     gotFolders : (SUBSET Seq(Names)) \cup {None}]

\* A handler has what its kind needs, and one that has nothing to ask asks nothing.
Fitting(c) ==
    /\ c.flags \subseteq IF c.kind = "moveFiles" THEN Files ELSE Seq(Names)
    /\ c.kind = "moveFolders" => c.op = "move"
    /\ c.kind \in FolderKinds => c.dirs # {}
    /\ c.kind \in FileKinds => c.ids # {}
    /\ c.at = "asked" => c.kind \notin {"none", "refresh"}
    /\ c.snap # None => c.kind \in {"paste", "moveFolders", "moveFiles"}
    /\ c.kind = "moveFiles" => c.snap # None
    /\ c.kind = "newFolder" => \A d \in c.dirs : c.dest \in Chain(d) \cup {Root}
    /\ c.kind = "none" <=> c = Idle

IndexTypes == place \in [Files -> Seq(Names) \cup {Gone, New}] /\ made \subseteq Seq(Names)

ListTypes ==
    /\ files \in Views /\ named \in [Files -> Seq(Names)]
    /\ folders \subseteq Seq(Names) /\ tree \subseteq Folders
    /\ selected \in Seq(Names)

PageTypes ==
    /\ ListTypes
    /\ clipboard \in Clipboards \cup {None}
    /\ flagged \subseteq Files /\ roots \subseteq Seq(Names)
    /\ busy \in BOOLEAN /\ astray \in BOOLEAN

CallTypes ==
    /\ calls \in [Slots -> CallRecords]
    /\ \A s \in Slots : Fitting(calls[s])

Types == IndexTypes /\ PageTypes /\ CallTypes /\ mixed \in BOOLEAN /\ crossed \in BOOLEAN

Moving(s) == calls[s].kind = "moveFiles"
Placing(s) == calls[s].kind \in {"paste", "moveFolders"}
Ahead(s) == calls[s].snap # None

\* What is shown of the files is where the index has had them.
Past(at) == \A f \in Stored(at) : <<f, at[f]>> \in been

\* A mark has an owner, a file's mark just one.
Marks ==
    /\ \A f \in Files : f \in flagged <=> \E s \in Slots : Moving(s) /\ f \in calls[s].flags
    /\ \A s, t \in Slots : s # t /\ Moving(s) /\ Moving(t) => calls[s].flags \cap calls[t].flags = {}
    /\ \A p \in roots : \E s \in Slots : ~Moving(s) /\ p \in calls[s].flags

\* Places the page has read, or shows when no move is open, are places the index has had; so are
\* those a move restores, while moves do not overlap.
Traced ==
    /\ Past(place)
    /\ \A s \in Slots : calls[s].gotFiles # None => Past(calls[s].gotFiles)
    /\ ~crossed =>
          /\ \A s, t \in Slots : Ahead(s) /\ Ahead(t) => s = t
          /\ \A s \in Slots : Ahead(s) => Past(calls[s].snap.files)
          /\ (\A s \in Slots : ~Ahead(s)) => Past(files)

\* The page shows the index as it is, and the folder that is open is there.
Agrees ==
    /\ files = ListFiles /\ folders = ListFolders /\ tree = TreeOf(files, folders)
    /\ ~astray => selected \in tree \cup {Root}

\* A handler that has the page and the index for itself: before it changes anything the page
\* agrees; what it reads is as the index is; and the folder a new one was made in is there.
Orderly(s) ==
    LET c == calls[s] IN
    /\ c.at \in {"asked", "done", "refused", "loading"}
    /\ c.at # "loading" => c.gotFiles = None /\ c.gotFolders = None
    /\ c.gotFiles \in {None, ListFiles} /\ c.gotFolders \in {None, ListFolders}
    /\ c.at = "refused" => c.snap = None
    /\ c.at \in {"asked", "refused"} /\ c.snap = None => Agrees
    /\ c.kind = "newFolder" /\ c.at \in {"done", "loading"} => c.dest \in made \cup {Root}

Steady ==
    ~mixed => /\ \A s, t \in Open : s = t
              /\ Open = {} => Agrees
              /\ \A s \in Open : Orderly(s)

FilesInv == Types /\ Marks /\ Traced /\ Steady

LEMMA OpenKinds ==
    ASSUME CallTypes, NEW s \in Slots
    PROVE  /\ s \in Open <=> calls[s].kind # "none"
           /\ s \notin Open => calls[s] = Idle
BY DEF CallTypes, Fitting, Open

LEMMA IdleFacts ==
    /\ Idle \in CallRecords /\ Fitting(Idle)
    /\ Idle.kind = "none" /\ Idle.at = "idle" /\ Idle.flags = {}
    /\ Idle.snap = None /\ Idle.gotFiles = None
<1>1. Idle \in CallRecords
  BY DEF Idle, CallRecords, Kinds, Root
<1>2. /\ Idle.kind = "none" /\ Idle.flags = {} /\ Idle.snap = None /\ Idle.gotFiles = None
      /\ Idle.at = "idle"
  BY DEF Idle
<1> QED
  BY <1>1, <1>2 DEF Fitting, FolderKinds, FileKinds

--------------------------------------------------------------------------------
(* The index: whatever changes it, a place a file gets is remembered. *)

LEMMA PutStep ==
    ASSUME NEW at \in [Files -> Seq(Names) \cup {Gone, New}], NEW dirs \in SUBSET Seq(Names),
           Put(at, dirs)
    PROVE  IndexTypes' /\ Past(place)' /\ been \subseteq been'
<1>1. IndexTypes' /\ been \subseteq been'
  BY DEF Put, IndexTypes
<1>2. Past(place)'
  BY DEF Put, Past, Stored
<1> QED
  BY <1>1, <1>2

LEMMA IndexSame ==
    ASSUME IndexTypes, Past(place), UNCHANGED index
    PROVE  IndexTypes' /\ Past(place)' /\ been \subseteq been'
BY DEF IndexTypes, Past, Stored, index

LEMMA UpdateStep ==
    ASSUME IndexTypes, Past(place), NEW f \in Files, NEW dest \in Seq(Names), UpdateFile(f, dest)
    PROVE  IndexTypes' /\ Past(place)' /\ been \subseteq been'
<1>1. CASE f \in Stored(place)
  <2> DEFINE at == [place EXCEPT ![f] = dest]
  <2>1. at \in [Files -> Seq(Names) \cup {Gone, New}]
    BY DEF IndexTypes
  <2>2. made \cup Chain(dest) \in SUBSET Seq(Names)
    BY ChainFolders DEF IndexTypes, Folders
  <2>3. Put(at, made \cup Chain(dest))
    BY <1>1 DEF UpdateFile
  <2> HIDE DEF at
  <2> QED
    BY <2>1, <2>2, <2>3, PutStep
<1>2. CASE f \notin Stored(place)
  BY <1>2, IndexSame DEF UpdateFile
<1> QED
  BY <1>1, <1>2

LEMMA DropTypes ==
    ASSUME IndexTypes, NEW fs
    PROVE  DropFiles(fs) \in [Files -> Seq(Names) \cup {Gone, New}]
BY DEF DropFiles, IndexTypes

LEMMA EraseStep ==
    ASSUME IndexTypes, NEW p, EraseFolder(p)
    PROVE  IndexTypes' /\ Past(place)' /\ been \subseteq been'
<1>1. made \ DocsUnder({p}) \in SUBSET Seq(Names)
  BY DEF IndexTypes
<1> QED
  BY <1>1, DropTypes, PutStep DEF EraseFolder

LEMMA PlacesIn ==
    ASSUME NEW at
    PROVE  {at[f] : f \in Stored(at)} \in SUBSET Seq(Names)
BY DEF Stored

LEMMA DocPaths ==
    ASSUME IndexTypes, NEW dirs
    PROVE  DocsUnder(dirs) \in SUBSET Seq(Names)
BY DEF DocsUnder, IndexTypes

LEMMA PasteMoveStep ==
    ASSUME IndexTypes, NEW dirs \in SUBSET Folders, NEW ids, NEW dest \in Seq(Names),
           PasteMove(dirs, ids, dest)
    PROVE  IndexTypes' /\ Past(place)' /\ been \subseteq been'
<1> DEFINE at == MovedFiles(place, dirs, ids, dest)
           fresh == Chains(MovedFolders(dirs, dest, DocsUnder(dirs)) \cup {at[f] : f \in Stored(at)})
           docs == (made \cup fresh) \ (DocsUnder(dirs) \cup dirs)
<1>1. at \in [Files -> Seq(Names) \cup {Gone, New}]
  BY MovedPlaces DEF IndexTypes
<1>2. fresh \subseteq Seq(Names)
  <2>1. MovedFolders(dirs, dest, DocsUnder(dirs)) \cup {at[f] : f \in Stored(at)} \in SUBSET Seq(Names)
    BY MovedFolderPaths, DocPaths, PlacesIn
  <2> QED
    BY <2>1, ChainsFolders DEF Folders
<1>3. docs \in SUBSET Seq(Names)
  BY <1>2 DEF IndexTypes
<1>4. Put(at, docs)
  BY DEF PasteMove
<1> HIDE DEF at, docs
<1> QED
  BY <1>1, <1>3, <1>4, PutStep

LEMMA PasteCopyStep ==
    ASSUME IndexTypes, NEW dirs \in SUBSET Folders, NEW ids, NEW dest \in Seq(Names),
           PasteCopy(dirs, ids, dest)
    PROVE  IndexTypes' /\ Past(place)' /\ been \subseteq been'
<1> DEFINE goal(f) == MovedFiles(place, dirs, ids, dest)[f]
           at(some, id) == [f \in Files |-> IF \E s \in some : id[s] = f
                                            THEN goal(CHOOSE s \in some : id[s] = f) ELSE place[f]]
           docs(some) == made \cup Chains(MovedFolders(dirs, dest, DocsUnder(dirs)) \cup {goal(f) : f \in some})
<1>1. PICK some \in SUBSET Stored(place) : \E id : Put(at(some, id), docs(some))
  BY DEF PasteCopy
<1>2. PICK id : Put(at(some, id), docs(some))
  BY <1>1
<1>3. \A f \in Stored(place) : f \in Files /\ goal(f) \in Seq(Names)
  <2>1. ASSUME NEW f \in Stored(place) PROVE f \in Files /\ goal(f) \in Seq(Names)
    <3>1. f \in Files /\ place[f] \in Seq(Names)
      BY DEF Stored
    <3>2. Moved(dirs, dest, place[f]) \in Seq(Names)
      BY <3>1, MovedPath
    <3> QED
      BY <3>1, <3>2 DEF MovedFiles
  <2> QED
    BY <2>1
<1> HIDE DEF goal
<1>4. at(some, id) \in [Files -> Seq(Names) \cup {Gone, New}]
  BY <1>1, <1>3 DEF IndexTypes
<1>5. docs(some) \in SUBSET Seq(Names)
  <2>1. MovedFolders(dirs, dest, DocsUnder(dirs)) \cup {goal(f) : f \in some} \in SUBSET Seq(Names)
    BY <1>1, <1>3, MovedFolderPaths, DocPaths
  <2> QED
    BY <2>1, ChainsFolders DEF Folders, IndexTypes
<1> HIDE DEF at, docs
<1> QED
  BY <1>2, <1>4, <1>5, PutStep

LEMMA RenameStep ==
    ASSUME IndexTypes, NEW old \in Seq(Names), NEW new \in Seq(Names), RenameFolder(old, new)
    PROVE  IndexTypes' /\ Past(place)' /\ been \subseteq been'
<1> DEFINE at == [f \in Files |-> IF f \in Stored(place) THEN Renamed(old, new, place[f]) ELSE place[f]]
           fresh == Chains({Renamed(old, new, p) : p \in DocsUnder({old})} \cup {new})
           docs == (made \ (DocsUnder({old}) \cup {old})) \cup fresh
<1>1. at \in [Files -> Seq(Names) \cup {Gone, New}]
  BY RenamedPath DEF IndexTypes, Stored
<1>2. fresh \subseteq Seq(Names)
  <2>1. {Renamed(old, new, p) : p \in DocsUnder({old})} \cup {new} \in SUBSET Seq(Names)
    BY RenamedPath, DocPaths
  <2> QED
    BY <2>1, ChainsFolders DEF Folders
<1>3. docs \in SUBSET Seq(Names)
  BY <1>2 DEF IndexTypes
<1>4. Put(at, docs)
  BY DEF RenameFolder
<1> HIDE DEF at, docs
<1> QED
  BY <1>1, <1>3, <1>4, PutStep

\* What a handler asks for is a change the index remembers.
LEMMA EffectStep ==
    ASSUME IndexTypes, Past(place), NEW c \in CallRecords, Fitting(c),
           c.at = "asked", c.kind # "moveFiles", Effect(c)
    PROVE  IndexTypes' /\ Past(place)' /\ been \subseteq been'
<1>1. /\ c.dirs \in SUBSET Folders /\ c.dest \in Seq(Names) /\ c.ids \subseteq Files
      /\ c.kind \in Kinds \ {"none", "refresh", "moveFiles"} /\ c.op \in {"copy", "move"}
  BY DEF CallRecords, Fitting
<1>2. c.kind \in FolderKinds => Dir(c) \in Folders
  BY <1>1 DEF Fitting, Dir
<1>3. c.kind \in FileKinds => File(c) \in Files
  BY <1>1 DEF Fitting, File
<1>4. CASE c.kind \in {"paste", "moveFolders"} /\ c.op = "move"
  BY <1>1, <1>4, PasteMoveStep DEF Effect
<1>5. CASE c.kind = "paste" /\ c.op = "copy"
  BY <1>1, <1>5, PasteCopyStep DEF Effect
<1>6. CASE c.kind = "deleteFile"
  <2>1. Put(DropFiles(c.ids), made) /\ made \in SUBSET Seq(Names)
    BY <1>6 DEF Effect, IndexTypes
  <2> QED
    BY <2>1, DropTypes, PutStep
<1>7. CASE c.kind = "deleteFolder"
  BY <1>7, EraseStep DEF Effect
<1>8. CASE c.kind = "newFolder"
  <2>1. Put(place, made \cup Chain(Dir(c))) /\ Dir(c) \in Folders
    BY <1>2, <1>8 DEF Effect, FolderKinds
  <2>2. made \cup Chain(Dir(c)) \in SUBSET Seq(Names) /\ place \in [Files -> Seq(Names) \cup {Gone, New}]
    BY <2>1, ChainFolders DEF IndexTypes, Folders
  <2> QED
    BY <2>1, <2>2, PutStep
<1>9. CASE c.kind = "renameFile"
  <2>1. UpdateFile(File(c), c.dest) /\ File(c) \in Files
    BY <1>3, <1>9 DEF Effect, FileKinds
  <2> QED
    BY <1>1, <2>1, UpdateStep
<1>10. CASE c.kind = "renameFolder"
  <2>1. RenameFolder(Dir(c), c.dest) /\ Dir(c) \in Seq(Names)
    BY <1>2, <1>10 DEF Effect, FolderKinds, Folders
  <2> QED
    BY <1>1, <2>1, RenameStep
<1>11. c.kind = "moveFolders" => c.op = "move"
  BY DEF Fitting
<1> QED
  BY <1>1, <1>4, <1>5, <1>6, <1>7, <1>8, <1>9, <1>10, <1>11 DEF Kinds, FolderKinds, FileKinds

--------------------------------------------------------------------------------
(* Handlers: one begins, one gets further, one ends. *)

LEMMA CallsStep ==
    ASSUME CallTypes, NEW s \in Slots, NEW d \in CallRecords, Fitting(d),
           calls' = [calls EXCEPT ![s] = d]
    PROVE  CallTypes' /\ calls'[s] = d /\ \A t \in Slots \ {s} : calls'[t] = calls[t]
BY DEF CallTypes

\* A mark a move puts on is its own; folders may share theirs.
LEMMA MarksBegin ==
    ASSUME CallTypes, Marks, NEW s \in Slots, calls[s] = Idle, NEW c \in CallRecords, Fitting(c),
           calls' = [calls EXCEPT ![s] = c],
           IF c.kind = "moveFiles"
           THEN flagged' = flagged \cup c.flags /\ c.flags \cap flagged = {} /\ UNCHANGED roots
           ELSE UNCHANGED flagged /\ roots' \subseteq roots \cup c.flags
    PROVE  Marks'
<1>1. calls'[s] = c /\ \A t \in Slots \ {s} : calls'[t] = calls[t]
  BY CallsStep
<1>2. calls[s].kind = "none" /\ calls[s].flags = {}
  BY IdleFacts
<1>3. c.kind = "moveFiles" => c.flags \subseteq Files
  BY DEF Fitting
<1>4. (\A f \in Files : f \in flagged <=> \E t \in Slots : Moving(t) /\ f \in calls[t].flags)'
  <2>1. ASSUME NEW f \in Files
        PROVE  f \in flagged' <=> \E t \in Slots : calls'[t].kind = "moveFiles" /\ f \in calls'[t].flags
    BY <1>1, <1>2 DEF Marks, Moving
  <2> QED
    BY <2>1 DEF Moving
<1>5. ASSUME NEW t \in Slots, NEW u \in Slots, t # u,
             calls'[t].kind = "moveFiles", calls'[u].kind = "moveFiles"
      PROVE  calls'[t].flags \cap calls'[u].flags = {}
  <2>1. CASE t # s /\ u # s
    BY <1>1, <1>5, <2>1 DEF Marks, Moving
  <2>2. CASE t = s \/ u = s
    BY <1>1, <1>3, <1>5, <2>2 DEF Marks, Moving
  <2> QED
    BY <2>1, <2>2
<1>6. ASSUME NEW p \in roots'
      PROVE  \E t \in Slots : calls'[t].kind # "moveFiles" /\ p \in calls'[t].flags
  BY <1>1, <1>2 DEF Marks, Moving
<1> QED
  BY <1>4, <1>5, <1>6 DEF Marks, Moving

LEMMA MarksSame ==
    ASSUME Marks, UNCHANGED <<flagged, roots>>,
           \A s \in Slots : calls'[s].kind = calls[s].kind /\ calls'[s].flags = calls[s].flags
    PROVE  Marks'
BY DEF Marks, Moving

LEMMA MarksEnd ==
    ASSUME CallTypes, Marks, NEW s \in Slots, End(s)
    PROVE  Marks'
<1>1. calls'[s] = Idle /\ \A t \in Slots \ {s} : calls'[t] = calls[t]
  BY CallsStep, IdleFacts DEF End
<1>2. Idle.kind = "none" /\ Idle.flags = {}
  BY IdleFacts
<1>3. /\ flagged' = IF Moving(s) THEN flagged \ calls[s].flags ELSE flagged
      /\ roots' = IF Moving(s) THEN roots ELSE roots \ calls[s].flags
  BY DEF End, Unflag, Moving
<1>4. ASSUME NEW f \in Files
      PROVE  f \in flagged' <=> \E t \in Slots : calls'[t].kind = "moveFiles" /\ f \in calls'[t].flags
  <2>1. ASSUME NEW t \in Slots, Moving(t), f \in calls[t].flags, f \in flagged'
        PROVE  t # s
    BY <1>3, <2>1
  <2>2. ASSUME NEW t \in Slots, t # s, Moving(t), f \in calls[t].flags
        PROVE  f \in flagged'
    BY <1>3, <2>2 DEF Marks
  <2> QED
    BY <1>1, <1>2, <1>3, <2>1, <2>2 DEF Marks, Moving
<1>5. ASSUME NEW t \in Slots, NEW u \in Slots, t # u,
             calls'[t].kind = "moveFiles", calls'[u].kind = "moveFiles"
      PROVE  calls'[t].flags \cap calls'[u].flags = {}
  BY <1>1, <1>2, <1>5 DEF Marks, Moving
<1>6. ASSUME NEW p \in roots'
      PROVE  \E t \in Slots : calls'[t].kind # "moveFiles" /\ p \in calls'[t].flags
  <2>1. PICK t \in Slots : ~Moving(t) /\ p \in calls[t].flags
    BY <1>3 DEF Marks
  <2>2. t # s
    BY <1>3, <2>1
  <2> QED
    BY <1>1, <2>1, <2>2 DEF Moving
<1> QED
  BY <1>4, <1>5, <1>6 DEF Marks, Moving

\* What the handler of slot s is after a step in which it gets further.
Onward(s, d) ==
    LET c == calls[s] IN
    /\ d \in CallRecords
    /\ d.kind = c.kind /\ d.op = c.op /\ d.dirs = c.dirs /\ d.dest = c.dest
    /\ d.flags = c.flags /\ d.snap = c.snap
    /\ d.kind = "moveFiles" \/ d.ids = c.ids
    /\ d.at = "asked" => c.at = "asked"
    /\ d.gotFiles = c.gotFiles \/ Past(d.gotFiles)

LEMMA OnwardStep ==
    ASSUME CallTypes, Marks, Traced, Steady, NEW s \in Slots, calls[s].at # "idle", NEW d, Onward(s, d),
           calls' = [calls EXCEPT ![s] = d], UNCHANGED <<flagged, roots, files, crossed>>,
           been \subseteq been', Past(place)',
           ~mixed' => ~mixed /\ (Orderly(s) => Orderly(s)')
    PROVE  CallTypes' /\ Marks' /\ Traced' /\ Steady'
<1>1. Idle.at = "idle" /\ Idle.kind = "none"
  BY DEF Idle
<1>2. Fitting(calls[s]) /\ calls[s] \in CallRecords
  BY DEF CallTypes
<1>3. Fitting(d)
  BY <1>1, <1>2 DEF Onward, Fitting, FileKinds
<1>4. CallTypes' /\ calls'[s] = d /\ \A t \in Slots \ {s} : calls'[t] = calls[t]
  BY <1>3, CallsStep DEF Onward
<1>5. Marks'
  BY <1>4, MarksSame DEF Onward
<1>6. \A t \in Slots : calls'[t].snap = calls[t].snap
  BY <1>4 DEF Onward
<1>7. ASSUME NEW t \in Slots, calls'[t].gotFiles # None PROVE Past(calls[t].gotFiles)'
  BY <1>4, <1>7 DEF Onward, Traced, Past
<1>8. ASSUME ~crossed'
      PROVE  /\ \A t, u \in Slots : Ahead(t)' /\ Ahead(u)' => t = u
             /\ \A t \in Slots : Ahead(t)' => Past(calls[t].snap.files)'
             /\ (\A t \in Slots : ~Ahead(t)') => Past(files)'
  BY <1>6, <1>8 DEF Traced, Ahead, Past
<1>9. Steady'
  <2>1. s \in Open /\ d # Idle
    BY <1>1, <1>2 DEF Onward, Open, Fitting
  <2>2. Open' = Open
    BY <1>4, <2>1 DEF Open
  <2>3. ASSUME ~mixed' PROVE (\A t \in Open : t = s) /\ Orderly(s)'
    BY <2>1, <2>3 DEF Steady
  <2> QED
    BY <2>1, <2>2, <2>3 DEF Steady
<1> QED
  BY <1>4, <1>5, <1>7, <1>8, <1>9 DEF Traced

LEMMA SameLists ==
    ASSUME UNCHANGED index
    PROVE  ListFiles' = ListFiles /\ ListFolders' = ListFolders /\ made' = made
BY DEF index, ListFiles, ListFolders, Stored, TreeOf

LEMMA AgreesStill ==
    ASSUME Agrees, UNCHANGED <<index, listing, astray>>, selected' \in tree \cup {Root, selected}
    PROVE  Agrees'
<1>1. UNCHANGED <<files, folders, tree>>
  BY DEF listing
<1> QED
  BY <1>1, SameLists DEF Agrees

LEMMA BeginStep ==
    ASSUME FilesInv, NEW c \in CallRecords, Fitting(c), Begin(c), c.gotFiles = None,
           c.gotFolders = None, c.at \in {"asked", "loading"}, c.at = "loading" => c.kind = "refresh",
           c.snap = None => UNCHANGED files,
           c.snap # None => c.snap.files = files,
           c.at = "asked" /\ c.snap = None => UNCHANGED <<listing, selected>>,
           IF c.kind = "moveFiles"
           THEN flagged' = flagged \cup c.flags /\ c.flags \cap flagged = {} /\ UNCHANGED roots
           ELSE UNCHANGED flagged /\ roots' \subseteq roots \cup c.flags
    PROVE  /\ IndexTypes' /\ CallTypes' /\ Marks' /\ Traced' /\ Steady'
           /\ mixed' \in BOOLEAN /\ crossed' \in BOOLEAN
<1>1. PICK s \in Slots \ Open : calls' = [calls EXCEPT ![s] = c]
  BY DEF Begin
<1>2. calls[s] = Idle
  BY <1>1 DEF Open
<1>3. CallTypes' /\ calls'[s] = c /\ \A t \in Slots \ {s} : calls'[t] = calls[t]
  BY <1>1, CallsStep DEF FilesInv, Types
<1>4. Marks'
  BY <1>1, <1>2, MarksBegin DEF FilesInv, Types
<1>5. IndexTypes' /\ UNCHANGED <<place, been>> /\ mixed' \in BOOLEAN /\ crossed' \in BOOLEAN
  BY DEF Begin, index, FilesInv, Types, IndexTypes
<1>6. Past(place)' /\ \A t \in Slots : calls'[t].gotFiles # None => Past(calls[t].gotFiles)'
  BY <1>3, <1>5 DEF FilesInv, Traced, Past
<1>7. ASSUME ~crossed'
      PROVE  /\ \A t, u \in Slots : Ahead(t)' /\ Ahead(u)' => t = u
             /\ \A t \in Slots : Ahead(t)' => Past(calls[t].snap.files)'
             /\ (\A t \in Slots : ~Ahead(t)') => Past(files)'
  <2>1. ~crossed /\ (c.snap # None => \A t \in Open : calls[t].snap = None)
    BY <1>7 DEF Begin
  <2>2. c.snap # None => \A t \in Slots : ~Ahead(t)
    BY <2>1, IdleFacts DEF Open, Ahead
  <2>3. \A t \in Slots \ {s} : Ahead(t)' <=> Ahead(t)
    BY <1>3 DEF Ahead
  <2>4. Ahead(s)' <=> c.snap # None
    BY <1>3 DEF Ahead
  <2>5. CASE c.snap = None
    <3>1. ~Ahead(s) /\ ~Ahead(s)' /\ UNCHANGED files
      BY <1>2, <2>4, <2>5, IdleFacts DEF Ahead
    <3> QED
      BY <1>3, <1>5, <2>1, <2>3, <3>1 DEF FilesInv, Traced, Past
  <2>6. CASE c.snap # None
    <3>1. Past(files) /\ calls'[s].snap.files = files
      BY <1>3, <2>1, <2>2, <2>6 DEF FilesInv, Traced
    <3> QED
      BY <1>5, <2>2, <2>3, <2>4, <2>6, <3>1 DEF Past
  <2> QED
    BY <2>5, <2>6
<1>8. Steady'
  <2> SUFFICES ASSUME ~mixed' PROVE Steady'
    BY DEF Steady
  <2>1. Agrees /\ Open = {} /\ UNCHANGED <<index, astray>>
    BY DEF Begin, FilesInv, Steady
  <2>2. Open' = {s}
    BY <1>1, <1>3, <2>1, IdleFacts DEF Open
  <2>3. c.at = "asked" /\ c.snap = None => Agrees'
    BY <2>1, AgreesStill
  <2>4. Orderly(s)'
    BY <1>3, <2>3 DEF Orderly
  <2> QED
    BY <2>2, <2>4 DEF Steady
<1> QED
  BY <1>3, <1>4, <1>5, <1>6, <1>7, <1>8 DEF Traced

\* A handler that ends leaves the list as it is, puts back what it was, or shows what it has read.
LEMMA EndStep ==
    ASSUME FilesInv, NEW s \in Slots, End(s), UNCHANGED <<index, mixed, crossed>>,
           calls[s].at # "idle", ~mixed /\ Orderly(s) => Agrees',
           \/ calls[s].snap = None /\ UNCHANGED files
           \/ calls[s].snap # None /\ files' = calls[s].snap.files
           \/ calls[s].gotFiles # None /\ files' = calls[s].gotFiles
    PROVE  /\ IndexTypes' /\ CallTypes' /\ Marks' /\ Traced' /\ Steady'
           /\ flagged' \subseteq Files /\ roots' \subseteq Seq(Names) /\ busy' \in BOOLEAN
<1>1. Marks'
  BY MarksEnd DEF FilesInv, Types
<1>2. CallTypes' /\ calls'[s] = Idle /\ \A t \in Slots \ {s} : calls'[t] = calls[t]
  BY CallsStep, IdleFacts DEF End, FilesInv, Types
<1>3. IndexTypes' /\ UNCHANGED <<place, been>>
  BY DEF index, FilesInv, Types, IndexTypes
<1>4. flagged' \subseteq Files /\ roots' \subseteq Seq(Names) /\ busy' \in BOOLEAN
  BY DEF End, Unflag, FilesInv, Types, PageTypes
<1>5. Past(place)' /\ \A t \in Slots : calls'[t].gotFiles # None => Past(calls[t].gotFiles)'
  BY <1>2, <1>3, IdleFacts DEF FilesInv, Traced, Past
<1>6. ~Ahead(s)' /\ \A t \in Slots \ {s} : Ahead(t)' <=> Ahead(t)
  BY <1>2, IdleFacts DEF Ahead
<1>7. ASSUME ~crossed'
      PROVE  /\ \A t, u \in Slots : Ahead(t)' /\ Ahead(u)' => t = u
             /\ \A t \in Slots : Ahead(t)' => Past(calls[t].snap.files)'
             /\ (\A t \in Slots : ~Ahead(t)') => Past(files)'
  <2>1. ~crossed
    BY <1>7
  <2>2. (\A t \in Slots : ~Ahead(t)') => Past(files)'
    <3>1. CASE calls[s].snap = None /\ UNCHANGED files
      BY <1>3, <1>6, <2>1, <3>1 DEF FilesInv, Traced, Ahead, Past
    <3>2. CASE calls[s].snap # None /\ files' = calls[s].snap.files
      BY <1>3, <2>1, <3>2 DEF FilesInv, Traced, Ahead, Past
    <3>3. CASE calls[s].gotFiles # None /\ files' = calls[s].gotFiles
      BY <1>3, <3>3 DEF FilesInv, Traced, Past
    <3> QED
      BY <3>1, <3>2, <3>3
  <2> QED
    BY <1>2, <1>3, <1>6, <2>1, <2>2 DEF FilesInv, Traced, Past
<1>8. Steady'
  <2>1. s \in Open /\ Open' = Open \ {s}
    BY <1>2, IdleFacts DEF Open
  <2>2. ASSUME ~mixed' PROVE Open' = {} /\ Agrees'
    BY <2>1, <2>2 DEF FilesInv, Steady
  <2> QED
    BY <2>2 DEF Steady
<1> QED
  BY <1>1, <1>2, <1>3, <1>4, <1>5, <1>7, <1>8 DEF Traced

--------------------------------------------------------------------------------
(* What the user does. *)

\* A request of the user, as it begins.
Asks(c, kind, ids, dirs, dest) ==
    /\ c \in CallRecords
    /\ c.kind = kind /\ c.at = "asked" /\ c.op = "move" /\ c.ids = ids /\ c.dirs = dirs /\ c.dest = dest
    /\ c.target = None /\ c.flags = {} /\ c.snap = None /\ c.gotFiles = None /\ c.gotFolders = None

LEMMA CallFacts ==
    ASSUME NEW kind \in Kinds \ {"none"}, NEW ids \in SUBSET Files, NEW dirs \in SUBSET Folders,
           NEW dest \in Seq(Names)
    PROVE  Asks(Call(kind, ids, dirs, dest), kind, ids, dirs, dest)
BY DEF Asks, Call, Idle, CallRecords

LEMMA ShapeFacts ==
    ASSUME ListTypes
    PROVE  Shape \in Shapes /\ Shape # None /\ Shape.files = files
<1>1. Shape \in Shapes /\ Shape.files = files
  BY DEF ListTypes, Shape, Shapes
<1>2. None \notin Shapes
  <2>1. Shapes \subseteq [files : [Files -> Seq(Names) \cup {Gone}], named : [Files -> Seq(Names)],
                        folders : SUBSET Seq(Names), tree : SUBSET Seq(Names), selected : Seq(Names)]
    BY DEF Shapes, Views, Folders
  <2> QED
    BY <2>1, AbsentAssumption
<1> QED
  BY <1>1, <1>2

LEMMA PageSame ==
    ASSUME PageTypes, UNCHANGED page
    PROVE  PageTypes' /\ UNCHANGED <<files, flagged, roots>>
BY DEF PageTypes, ListTypes, page, listing

\* A request that changes nothing on the page yet.
LEMMA PlainStep ==
    ASSUME FilesInv, NEW c \in CallRecords, c.kind \in FolderKinds \cup FileKinds, c.at = "asked",
           c.flags = {}, c.snap = None, c.gotFiles = None, c.gotFolders = None,
           c.kind \in FolderKinds => c.dirs # {}, c.kind \in FileKinds => c.ids # {},
           c.kind = "newFolder" => \A d \in c.dirs : c.dest \in Chain(d) \cup {Root},
           Begin(c), UNCHANGED page
    PROVE  FilesInv'
<1>1. Fitting(c)
  BY IdleFacts DEF Fitting, FolderKinds, FileKinds
<1>2. PageTypes' /\ UNCHANGED <<files, flagged, roots>>
  BY PageSame DEF FilesInv, Types
<1>3. c.kind # "moveFiles"
  BY DEF FolderKinds, FileKinds
<1>4. UNCHANGED <<listing, selected>>
  BY DEF page
<1>5. /\ IndexTypes' /\ CallTypes' /\ Marks' /\ Traced' /\ Steady'
      /\ mixed' \in BOOLEAN /\ crossed' \in BOOLEAN
  BY <1>1, <1>2, <1>3, <1>4, BeginStep
<1> QED
  BY <1>2, <1>5 DEF FilesInv, Types

LEMMA DeleteFileStep ==
    ASSUME FilesInv, NEW f \in Files, DeleteFile(f)
    PROVE  FilesInv'
<1>1. ListTypes
  BY DEF FilesInv, Types, PageTypes
<1>2. Root \in Seq(Names)
  BY EmptySeq DEF Root
<1>3. "deleteFile" \in Kinds \ {"none"} /\ {f} \in SUBSET Files /\ {} \in SUBSET Folders
  BY DEF Kinds, FileKinds
<1>4. Begin(Call("deleteFile", {f}, {}, Root)) /\ UNCHANGED page
  BY DEF DeleteFile
<1> DEFINE c == Call("deleteFile", {f}, {}, Root)
<1>5. /\ c \in CallRecords /\ c.kind = "deleteFile" /\ c.at = "asked" /\ c.flags = {} /\ c.snap = None
      /\ c.gotFiles = None /\ c.gotFolders = None /\ c.ids = {f}
  <2>1. Asks(c, "deleteFile", {f}, {}, Root)
    BY <1>2, <1>3, CallFacts
  <2> QED
    BY <2>1 DEF Asks
<1> HIDE DEF c
<1> QED
  BY <1>4, <1>5, PlainStep DEF FileKinds, FolderKinds, c

LEMMA RenameFileStep ==
    ASSUME FilesInv, NEW f \in Files, RenameFile(f)
    PROVE  FilesInv'
<1>1. ListTypes
  BY DEF FilesInv, Types, PageTypes
<1>2. Root \in Seq(Names)
  BY EmptySeq DEF Root
<1>3. "renameFile" \in Kinds \ {"none"} /\ {f} \in SUBSET Files /\ {} \in SUBSET Folders
      /\ named[f] \in Seq(Names)
  BY <1>1 DEF Kinds, FileKinds, ListTypes
<1>4. Begin(Call("renameFile", {f}, {}, named[f])) /\ UNCHANGED page
  BY DEF RenameFile
<1> DEFINE c == Call("renameFile", {f}, {}, named[f])
<1>5. /\ c \in CallRecords /\ c.kind = "renameFile" /\ c.at = "asked" /\ c.flags = {} /\ c.snap = None
      /\ c.gotFiles = None /\ c.gotFolders = None /\ c.ids = {f}
  <2>1. Asks(c, "renameFile", {f}, {}, named[f])
    BY <1>3, CallFacts
  <2> QED
    BY <2>1 DEF Asks
<1> HIDE DEF c
<1> QED
  BY <1>4, <1>5, PlainStep DEF FileKinds, FolderKinds, c

LEMMA DeleteFolderStep ==
    ASSUME FilesInv, NEW p, DeleteFolder(p)
    PROVE  FilesInv'
<1>1. ListTypes
  BY DEF FilesInv, Types, PageTypes
<1>2. Root \in Seq(Names)
  BY EmptySeq DEF Root
<1>3. "deleteFolder" \in Kinds \ {"none"} /\ {} \in SUBSET Files /\ {p} \in SUBSET Folders
  BY <1>1 DEF Kinds, FolderKinds, ListTypes, DeleteFolder
<1> DEFINE b == Call("deleteFolder", {}, {p}, Root)
           c == [b EXCEPT !.target = selected]
<1>4. Begin(c) /\ UNCHANGED page
  BY DEF DeleteFolder
<1>5. /\ b \in CallRecords /\ b.kind = "deleteFolder" /\ b.at = "asked" /\ b.flags = {}
      /\ b.snap = None /\ b.gotFiles = None /\ b.gotFolders = None /\ b.dirs = {p}
  <2>1. Asks(b, "deleteFolder", {}, {p}, Root)
    BY <1>2, <1>3, CallFacts
  <2> QED
    BY <2>1 DEF Asks
<1> HIDE DEF b
<1>6. /\ c \in CallRecords /\ c.kind = "deleteFolder" /\ c.at = "asked" /\ c.flags = {}
      /\ c.snap = None /\ c.gotFiles = None /\ c.gotFolders = None /\ c.dirs = {p}
  BY <1>1, <1>5 DEF CallRecords, ListTypes
<1> HIDE DEF c
<1> QED
  BY <1>4, <1>6, PlainStep DEF FileKinds, FolderKinds

LEMMA NewFolderStep ==
    ASSUME FilesInv, NEW p \in Seq(Names), NEW n \in Names, NewFolder(p, n)
    PROVE  FilesInv'
<1>1. ListTypes
  BY DEF FilesInv, Types, PageTypes
<1>2. Root \in Seq(Names)
  BY EmptySeq DEF Root
<1>3. "newFolder" \in Kinds \ {"none"} /\ {} \in SUBSET Files /\ {Append(p, n)} \in SUBSET Folders
  BY AppendFolder DEF Kinds, FolderKinds
<1>4. Begin(Call("newFolder", {}, {Append(p, n)}, p)) /\ UNCHANGED page
  BY DEF NewFolder
<1> DEFINE c == Call("newFolder", {}, {Append(p, n)}, p)
<1>5. /\ c \in CallRecords /\ c.kind = "newFolder" /\ c.at = "asked" /\ c.flags = {} /\ c.snap = None
      /\ c.gotFiles = None /\ c.gotFolders = None /\ c.dirs = {Append(p, n)} /\ c.dest = p
  <2>1. Asks(c, "newFolder", {}, {Append(p, n)}, p)
    BY <1>3, CallFacts
  <2> QED
    BY <2>1 DEF Asks
<1> HIDE DEF c
<1> QED
  BY <1>4, <1>5, AppendChain, PlainStep DEF FileKinds, FolderKinds, c

LEMMA RenamePathStep ==
    ASSUME FilesInv, NEW p \in Seq(Names), NEW n \in Names, RenamePath(p, n)
    PROVE  FilesInv'
<1>1. ListTypes
  BY DEF FilesInv, Types, PageTypes
<1>2. Root \in Seq(Names)
  BY EmptySeq DEF Root
<1>3. "renameFolder" \in Kinds \ {"none"} /\ {} \in SUBSET Files /\ {p} \in SUBSET Folders
  BY <1>1 DEF Kinds, FolderKinds, ListTypes, RenamePath
<1>4. Append(Parent(p), n) \in Seq(Names)
  BY ParentPath, AppendFolder DEF Folders
<1>5. Begin(Call("renameFolder", {}, {p}, Append(Parent(p), n))) /\ UNCHANGED page
  BY DEF RenamePath
<1> DEFINE c == Call("renameFolder", {}, {p}, Append(Parent(p), n))
<1>6. /\ c \in CallRecords /\ c.kind = "renameFolder" /\ c.at = "asked" /\ c.flags = {} /\ c.snap = None
      /\ c.gotFiles = None /\ c.gotFolders = None /\ c.dirs = {p}
  <2>1. Asks(c, "renameFolder", {}, {p}, Append(Parent(p), n))
    BY <1>3, <1>4, CallFacts
  <2> QED
    BY <2>1 DEF Asks
<1> HIDE DEF c
<1> QED
  BY <1>5, <1>6, PlainStep DEF FileKinds, FolderKinds, c

LEMMA ClickStep ==
    ASSUME FilesInv, Click,
           UNCHANGED <<index, listing, flagged, roots, busy, calls, mixed, crossed>>,
           selected' \in tree \cup {Root, selected}, clipboard' \in Clipboards \cup {None}
    PROVE  FilesInv'
<1>1. UNCHANGED <<place, made, been, files, named, folders, tree, astray>>
  BY DEF index, listing, Click
<1>2. selected' \in Seq(Names)
  BY EmptySeq DEF FilesInv, Types, PageTypes, ListTypes, Folders, Root
<1>3. Types'
  BY <1>1, <1>2 DEF FilesInv, Types, IndexTypes, PageTypes, ListTypes, CallTypes
<1>4. Marks'
  BY MarksSame DEF FilesInv
<1>5. Traced'
  BY <1>1 DEF FilesInv, Traced, Past, Ahead
<1>6. Steady'
  <2>1. Agrees => Agrees'
    BY <1>1, AgreesStill
  <2>2. \A s \in Slots : Orderly(s) => Orderly(s)'
    BY <2>1, SameLists DEF Orderly
  <2>3. Open' = Open
    BY DEF Open
  <2> QED
    BY <2>1, <2>2, <2>3 DEF FilesInv, Steady, Open
<1> QED
  BY <1>3, <1>4, <1>5, <1>6 DEF FilesInv

LEMMA NavigateStep ==
    ASSUME FilesInv, NEW p, Navigate(p)
    PROVE  FilesInv'
<1>1. clipboard \in Clipboards \cup {None}
  BY DEF FilesInv, Types, PageTypes
<1> QED
  BY <1>1, ClickStep DEF Navigate

LEMMA TakeStep ==
    ASSUME FilesInv, NEW op \in {"copy", "move"}, NEW dirs, NEW ids, Take(op, dirs, ids)
    PROVE  FilesInv'
<1>1. dirs \subseteq Folders /\ ids \subseteq Files
  BY DEF Take, FilesInv, Types, PageTypes, ListTypes, Stored
<1>2. [op |-> op, dirs |-> dirs, ids |-> ids] \in Clipboards
  BY <1>1 DEF Clipboards
<1> QED
  BY <1>2, ClickStep DEF Take

LEMMA RefreshStep ==
    ASSUME FilesInv, Refresh
    PROVE  FilesInv'
<1> DEFINE b == Call("refresh", {}, {}, Root)
           c == [b EXCEPT !.at = "loading"]
<1>1. Begin(c) /\ busy' = TRUE /\ UNCHANGED <<listing, selected, clipboard, flagged, roots>>
  BY DEF Refresh
<1>2. /\ b \in CallRecords /\ b.kind = "refresh" /\ b.flags = {} /\ b.snap = None
      /\ b.gotFiles = None /\ b.gotFolders = None
  <2>1. Asks(b, "refresh", {}, {}, Root)
    BY CallFacts, EmptySeq DEF Kinds, Root
  <2> QED
    BY <2>1 DEF Asks
<1> HIDE DEF b
<1>3. /\ c \in CallRecords /\ c.kind = "refresh" /\ c.flags = {} /\ c.snap = None
      /\ c.gotFiles = None /\ c.gotFolders = None /\ c.at = "loading"
  BY <1>2 DEF CallRecords
<1> HIDE DEF c
<1>4. Fitting(c)
  BY <1>3, IdleFacts DEF Fitting, FolderKinds, FileKinds
<1>5. UNCHANGED <<files, named, folders, tree, astray>>
  BY <1>1 DEF listing, Begin
<1>6. PageTypes'
  BY <1>1, <1>5 DEF FilesInv, Types, PageTypes, ListTypes
<1>7. /\ IndexTypes' /\ CallTypes' /\ Marks' /\ Traced' /\ Steady'
      /\ mixed' \in BOOLEAN /\ crossed' \in BOOLEAN
  BY <1>1, <1>3, <1>4, <1>5, BeginStep
<1> QED
  BY <1>6, <1>7 DEF FilesInv, Types

LEMMA FolderMoveStep ==
    ASSUME FilesInv, NEW b \in CallRecords, FolderMove(b), b.kind \in {"paste", "moveFolders"},
           b.at = "asked", b.op = "move", b.gotFiles = None, b.gotFolders = None,
           busy' = TRUE, UNCHANGED <<clipboard, flagged>>
    PROVE  FilesInv'
<1>1. b.dirs \in SUBSET Folders /\ b.dest \in Seq(Names)
  BY DEF CallRecords
<1>2. ListTypes /\ PageTypes
  BY DEF FilesInv, Types, PageTypes
<1>3. files' \in Views
  BY <1>1, <1>2, MovedPlaces DEF FolderMove, Views, ListTypes
<1>4. folders' \in SUBSET Seq(Names)
  BY <1>1, <1>2, MovedFolderPaths DEF FolderMove, ListTypes
<1>5. tree' \subseteq Folders
  BY <1>4, TreeFolders DEF FolderMove
<1>6. selected' \in Seq(Names)
  BY <1>1, <1>2, MovedPath DEF FolderMove, ListTypes
<1>7. Targets(b.dirs, b.dest) \in SUBSET Seq(Names)
  BY <1>1, TargetFolders DEF Folders
<1> DEFINE c == [b EXCEPT !.snap = Shape, !.flags = Targets(b.dirs, b.dest), !.target = selected']
<1>8. Begin(c) /\ UNCHANGED named
  BY DEF FolderMove
<1>9. Shape \in Shapes /\ Shape # None /\ Shape.files = files
  BY <1>2, ShapeFacts
<1>10. /\ c \in CallRecords /\ c.kind = b.kind /\ c.op = "move" /\ c.snap = Shape
       /\ c.flags = Targets(b.dirs, b.dest) /\ c.gotFiles = None /\ c.gotFolders = None /\ c.at = "asked"
  BY <1>6, <1>7, <1>9 DEF CallRecords
<1> HIDE DEF c
<1>11. Fitting(c)
  BY <1>7, <1>10, IdleFacts DEF Fitting, FolderKinds, FileKinds
<1>12. roots' = roots \cup c.flags
  BY <1>10 DEF FolderMove
<1>13. /\ IndexTypes' /\ CallTypes' /\ Marks' /\ Traced' /\ Steady'
       /\ mixed' \in BOOLEAN /\ crossed' \in BOOLEAN
  BY <1>8, <1>9, <1>10, <1>11, <1>12, BeginStep
<1>14. PageTypes'
  BY <1>2, <1>3, <1>4, <1>5, <1>6, <1>7, <1>8, <1>10, <1>12 DEF PageTypes, ListTypes, Begin
<1> QED
  BY <1>13, <1>14 DEF FilesInv, Types

LEMMA PasteStep ==
    ASSUME FilesInv, NEW dest \in Seq(Names), Paste(dest)
    PROVE  FilesInv'
<1>1. clipboard \in Clipboards
  BY DEF Paste, FilesInv, Types, PageTypes
<1> DEFINE a == Call("paste", clipboard.ids, clipboard.dirs, dest)
           c == [a EXCEPT !.op = clipboard.op]
<1>2. /\ a \in CallRecords /\ a.kind = "paste" /\ a.flags = {} /\ a.snap = None
      /\ a.gotFiles = None /\ a.gotFolders = None /\ a.at = "asked"
  <2>1. "paste" \in Kinds \ {"none"} /\ clipboard.ids \in SUBSET Files /\ clipboard.dirs \in SUBSET Folders
    BY <1>1 DEF Kinds, Clipboards
  <2>2. Asks(a, "paste", clipboard.ids, clipboard.dirs, dest)
    BY <2>1, CallFacts
  <2> QED
    BY <2>2 DEF Asks
<1>3. /\ busy' = TRUE /\ UNCHANGED <<clipboard, flagged>>
      /\ IF c.op = "move" /\ c.dirs # {} THEN FolderMove(c)
         ELSE Begin(c) /\ UNCHANGED <<listing, selected, roots>>
  BY DEF Paste
<1> HIDE DEF a
<1>4. /\ c \in CallRecords /\ c.kind = "paste" /\ c.flags = {} /\ c.snap = None
      /\ c.gotFiles = None /\ c.gotFolders = None /\ c.at = "asked"
  BY <1>1, <1>2 DEF CallRecords, Clipboards
<1> HIDE DEF c
<1>5. CASE c.op = "move" /\ c.dirs # {}
  BY <1>3, <1>4, <1>5, FolderMoveStep
<1>6. CASE ~(c.op = "move" /\ c.dirs # {})
  <2>1. /\ Begin(c) /\ UNCHANGED <<listing, selected>>
        /\ UNCHANGED <<files, named, folders, tree, clipboard, flagged, roots, astray>>
    BY <1>3, <1>6 DEF listing, Begin
  <2>2. Fitting(c)
    BY <1>4, IdleFacts DEF Fitting, FolderKinds, FileKinds
  <2>3. PageTypes'
    BY <1>3, <2>1 DEF FilesInv, Types, PageTypes, ListTypes
  <2>4. /\ IndexTypes' /\ CallTypes' /\ Marks' /\ Traced' /\ Steady'
        /\ mixed' \in BOOLEAN /\ crossed' \in BOOLEAN
    BY <1>4, <2>1, <2>2, BeginStep
  <2> QED
    BY <2>3, <2>4 DEF FilesInv, Types
<1> QED
  BY <1>5, <1>6

LEMMA MoveFolderStep ==
    ASSUME FilesInv, NEW r, NEW dest \in Seq(Names), MoveFolder(r, dest)
    PROVE  FilesInv'
<1> DEFINE b == Call("moveFolders", {}, {r}, dest)
<1>1. FolderMove(b) /\ busy' = TRUE /\ UNCHANGED <<clipboard, flagged>> /\ r \in Folders
  BY DEF MoveFolder, FilesInv, Types, PageTypes, ListTypes
<1>2. /\ b \in CallRecords /\ b.kind = "moveFolders" /\ b.at = "asked" /\ b.op = "move"
      /\ b.gotFiles = None /\ b.gotFolders = None
  <2>1. Asks(b, "moveFolders", {}, {r}, dest)
    BY <1>1, CallFacts DEF Kinds
  <2> QED
    BY <2>1 DEF Asks
<1> HIDE DEF b
<1> QED
  BY <1>1, <1>2, FolderMoveStep

LEMMA MoveFilesStep ==
    ASSUME FilesInv, NEW ids \in SUBSET Files, NEW dest \in Seq(Names), MoveFiles(ids, dest)
    PROVE  FilesInv'
<1> DEFINE todo == Movable(ids, dest)
           flags == {f \in todo : files[f] # dest}
           b == Call("moveFiles", todo, {}, dest)
           c == [b EXCEPT !.snap = Shape, !.flags = flags]
<1>1. todo \in SUBSET Files /\ todo \cap flagged = {}
  BY DEF Movable
<1>2. /\ files' = [f \in Files |-> IF f \in flags THEN dest ELSE files[f]]
      /\ tree' = IF flags = {} THEN tree ELSE TreeOf(files', folders)
      /\ flagged' = flagged \cup flags /\ busy' = TRUE /\ Begin(c)
      /\ UNCHANGED <<named, folders, selected, clipboard, roots>>
  BY DEF MoveFiles
<1> HIDE DEF todo
<1>3. flags \subseteq Files /\ flags \cap flagged = {}
  BY <1>1
<1>4. ListTypes /\ PageTypes
  BY DEF FilesInv, Types, PageTypes
<1>5. Shape \in Shapes /\ Shape # None /\ Shape.files = files
  BY <1>4, ShapeFacts
<1>6. /\ b \in CallRecords /\ b.kind = "moveFiles" /\ b.at = "asked" /\ b.op = "move"
      /\ b.gotFiles = None /\ b.gotFolders = None
  <2>1. Asks(b, "moveFiles", todo, {}, dest)
    BY <1>1, CallFacts DEF Kinds
  <2> QED
    BY <2>1 DEF Asks
<1> HIDE DEF b, flags
<1>7. /\ c \in CallRecords /\ c.kind = "moveFiles" /\ c.op = "move" /\ c.snap = Shape
      /\ c.flags = flags /\ c.gotFiles = None /\ c.gotFolders = None /\ c.at = "asked"
  BY <1>3, <1>5, <1>6 DEF CallRecords
<1> HIDE DEF c
<1>8. Fitting(c)
  BY <1>3, <1>5, <1>7, IdleFacts DEF Fitting, FolderKinds, FileKinds
<1>9. /\ IndexTypes' /\ CallTypes' /\ Marks' /\ Traced' /\ Steady'
      /\ mixed' \in BOOLEAN /\ crossed' \in BOOLEAN
  BY <1>2, <1>3, <1>5, <1>7, <1>8, BeginStep
<1>10. files' \in Views
  BY <1>2, <1>4 DEF ListTypes, Views
<1>11. tree' \subseteq Folders
  <2>1. TreeOf(files', folders) \subseteq Folders
    BY <1>4, TreeFolders DEF ListTypes
  <2> QED
    BY <1>2, <1>4, <2>1 DEF ListTypes
<1>12. PageTypes'
  BY <1>2, <1>3, <1>4, <1>10, <1>11 DEF PageTypes, ListTypes, Begin
<1> QED
  BY <1>9, <1>12 DEF FilesInv, Types

LEMMA UserStep ==
    ASSUME FilesInv, User
    PROVE  FilesInv'
<1>1. tree \cup {Root} \subseteq Seq(Names) /\ Paths \subseteq Seq(Names)
  BY EmptySeq, FilesAssumption DEF FilesInv, Types, PageTypes, ListTypes, Folders, Root
<1>2. CASE Refresh
  BY <1>2, RefreshStep
<1>3. CASE \E f \in Files : DeleteFile(f) \/ RenameFile(f)
  BY <1>3, DeleteFileStep, RenameFileStep
<1>4. CASE \E p \in tree : DeleteFolder(p)
  BY <1>1, <1>4, DeleteFolderStep
<1>5. CASE \E p \in tree \cup {Root}, n \in Names : NewFolder(p, n) \/ RenamePath(p, n)
  BY <1>1, <1>5, NewFolderStep, RenamePathStep
<1>6. CASE \E p \in Paths : Navigate(p) \/ Paste(p)
  BY <1>1, <1>6, NavigateStep, PasteStep
<1>7. CASE \E op \in {"copy", "move"} :
              (\E p \in tree : Take(op, {p}, {})) \/ (\E f \in Files : Take(op, {}, {f}))
  BY <1>7, TakeStep
<1>8. CASE \E r \in tree, p \in Paths : MoveFolder(r, p)
  BY <1>1, <1>8, MoveFolderStep
<1>9. CASE \E ids \in SUBSET Files, p \in Paths : MoveFiles(ids, p)
  BY <1>1, <1>9, MoveFilesStep
<1> QED
  BY <1>2, <1>3, <1>4, <1>5, <1>6, <1>7, <1>8, <1>9 DEF User

--------------------------------------------------------------------------------
(* The service, other tabs, and how handlers go on. *)

LEMMA ElsewhereStep ==
    ASSUME FilesInv, Elsewhere
    PROVE  FilesInv'
<1>1. UNCHANGED <<page, calls, crossed>> /\ mixed' = TRUE
  BY DEF Elsewhere
<1>2. PageTypes' /\ UNCHANGED <<files, flagged, roots>>
  BY <1>1, PageSame DEF FilesInv, Types
<1>3. IndexTypes' /\ Past(place)' /\ been \subseteq been'
  <2>1. CASE \E f \in Stored(place), p \in Paths : p # place[f] /\ UpdateFile(f, p)
    <3>1. PICK f \in Files, p \in Seq(Names) : UpdateFile(f, p)
      BY <2>1, FilesAssumption DEF Stored
    <3> QED
      BY <3>1, UpdateStep DEF FilesInv, Types, Traced
  <2>2. CASE \E p \in made : EraseFolder(p)
    BY <2>2, EraseStep DEF FilesInv, Types
  <2> QED
    BY <2>1, <2>2 DEF Elsewhere
<1>4. Marks'
  BY <1>1, <1>2, MarksSame DEF FilesInv
<1>5. Traced'
  BY <1>1, <1>2, <1>3 DEF FilesInv, Traced, Past, Ahead
<1>6. CallTypes' /\ Steady'
  BY <1>1 DEF FilesInv, Types, CallTypes, Steady
<1> QED
  BY <1>1, <1>2, <1>3, <1>4, <1>5, <1>6 DEF FilesInv, Types

\* A handler that changes nothing on the page gets further.
LEMMA QuietStep ==
    ASSUME FilesInv, NEW s \in Slots, calls[s].at # "idle", NEW d, Onward(s, d),
           calls' = [calls EXCEPT ![s] = d], UNCHANGED <<page, crossed>>, mixed' \in BOOLEAN,
           IndexTypes', Past(place)', been \subseteq been',
           ~mixed' => ~mixed /\ (Orderly(s) => Orderly(s)')
    PROVE  FilesInv'
<1>1. PageTypes' /\ UNCHANGED <<files, flagged, roots>>
  BY PageSame DEF FilesInv, Types
<1>2. CallTypes' /\ Marks' /\ Traced' /\ Steady'
  BY <1>1, OnwardStep DEF FilesInv, Types
<1> QED
  BY <1>1, <1>2 DEF FilesInv, Types

LEMMA AdvanceFacts ==
    ASSUME FilesInv, NEW s \in Slots, NEW at \in {"done", "refused", "loading", "unread"}, Advance(s, at)
    PROVE  /\ Onward(s, [calls[s] EXCEPT !.at = at])
           /\ calls' = [calls EXCEPT ![s] = [calls[s] EXCEPT !.at = at]]
           /\ calls'[s].at = at /\ calls'[s].kind = calls[s].kind /\ calls'[s].snap = calls[s].snap
           /\ calls'[s].dest = calls[s].dest
           /\ calls'[s].gotFiles = calls[s].gotFiles /\ calls'[s].gotFolders = calls[s].gotFolders
<1>1. calls[s] \in CallRecords /\ calls \in [Slots -> CallRecords]
  BY DEF FilesInv, Types, CallTypes
<1>2. Onward(s, [calls[s] EXCEPT !.at = at])
  BY <1>1 DEF Onward, CallRecords
<1>3. calls' = [calls EXCEPT ![s] = [calls[s] EXCEPT !.at = at]]
  BY <1>1 DEF Advance
<1>4. calls'[s] = [calls[s] EXCEPT !.at = at]
  BY <1>1, <1>3
<1> QED
  BY <1>1, <1>2, <1>3, <1>4 DEF CallRecords

LEMMA IndexKept ==
    ASSUME FilesInv, UNCHANGED index
    PROVE  IndexTypes' /\ Past(place)' /\ been \subseteq been'
BY IndexSame DEF FilesInv, Types, Traced

\* A folder is made in one that is there, and leaves it there.
LEMMA NewFolderKeeps ==
    ASSUME NEW c \in CallRecords, Fitting(c), c.kind = "newFolder", Effect(c)
    PROVE  c.dest \in made' \cup {Root}
<1>1. Dir(c) \in c.dirs
  BY DEF Fitting, FolderKinds, Dir
<1>2. made' = made \cup Chain(Dir(c))
  BY DEF Effect, Put
<1> QED
  BY <1>1, <1>2 DEF Fitting

LEMMA ServeStep ==
    ASSUME FilesInv, NEW s \in Slots, Serve(s)
    PROVE  FilesInv'
<1>1. /\ calls[s].at = "asked" /\ calls[s].kind # "moveFiles"
      /\ UNCHANGED <<page, mixed, crossed>> /\ mixed' \in BOOLEAN
  BY DEF Serve, FilesInv, Types
<1>2. calls[s] \in CallRecords /\ Fitting(calls[s])
  BY DEF FilesInv, Types, CallTypes
<1>3. CASE Refused(calls[s])
  <2>1. Advance(s, "refused") /\ UNCHANGED index
    BY <1>3 DEF Serve
  <2>2. IndexTypes' /\ Past(place)' /\ been \subseteq been'
    BY <2>1, IndexKept
  <2>3. Orderly(s) => Orderly(s)'
    <3>1. calls[s].snap = None
      BY <1>2, <1>3 DEF Refused, Fitting
    <3>2. UNCHANGED <<listing, selected, astray>>
      BY <1>1 DEF page
    <3>3. Agrees => Agrees'
      BY <2>1, <3>2, AgreesStill
    <3> QED
      BY <1>1, <2>1, <3>1, <3>3, SameLists, AdvanceFacts DEF Orderly
  <2> QED
    BY <1>1, <2>1, <2>2, <2>3, AdvanceFacts, QuietStep
<1>4. CASE ~Refused(calls[s])
  <2>1. Advance(s, "done") /\ Effect(calls[s])
    BY <1>4 DEF Serve
  <2>2. IndexTypes' /\ Past(place)' /\ been \subseteq been'
    BY <1>1, <1>2, <2>1, EffectStep DEF FilesInv, Types, Traced
  <2>3. Orderly(s) => Orderly(s)'
    <3>1. calls[s].kind = "newFolder" => calls[s].dest \in made' \cup {Root}
      BY <1>2, <2>1, NewFolderKeeps
    <3> QED
      BY <1>1, <2>1, <3>1, AdvanceFacts DEF Orderly
  <2> QED
    BY <1>1, <2>1, <2>2, <2>3, AdvanceFacts, QuietStep
<1> QED
  BY <1>3, <1>4

LEMMA LeftFacts ==
    ASSUME FilesInv, NEW s \in Slots, NEW f, calls[s].at = "asked", calls[s].kind = "moveFiles",
           calls' = [calls EXCEPT ![s] = Left(@, f)]
    PROVE  /\ Onward(s, Left(calls[s], f)) /\ calls' = [calls EXCEPT ![s] = Left(calls[s], f)]
           /\ Orderly(s) => Orderly(s)'
<1> DEFINE c == calls[s]
           d == Left(c, f)
<1>1. c \in CallRecords /\ Fitting(c) /\ calls \in [Slots -> CallRecords]
  BY DEF FilesInv, Types, CallTypes
<1>2. Onward(s, d)
  BY <1>1 DEF Onward, CallRecords, Left
<1>3. calls' = [calls EXCEPT ![s] = d] /\ calls'[s] = d
  BY <1>1
<1>4. /\ d.at \in {"asked", "done"} /\ d.kind = "moveFiles" /\ d.snap = c.snap
      /\ d.gotFiles = c.gotFiles /\ d.gotFolders = c.gotFolders
  BY <1>1 DEF CallRecords, Left
<1>5. c.snap # None
  BY <1>1 DEF Fitting
<1> HIDE DEF d
<1>6. Orderly(s) => Orderly(s)'
  BY <1>3, <1>4, <1>5 DEF Orderly
<1> QED
  BY <1>2, <1>3, <1>6 DEF d

LEMMA ServeFileStep ==
    ASSUME FilesInv, NEW s \in Slots, NEW f \in Files, ServeFile(s, f)
    PROVE  FilesInv'
<1>1. /\ calls[s].at = "asked" /\ calls[s].kind = "moveFiles" /\ UpdateFile(f, calls[s].dest)
      /\ calls' = [calls EXCEPT ![s] = Left(@, f)]
      /\ UNCHANGED <<page, mixed, crossed>> /\ mixed' \in BOOLEAN
  BY DEF ServeFile, FilesInv, Types
<1>2. calls[s].dest \in Seq(Names)
  BY DEF FilesInv, Types, CallTypes, CallRecords
<1>3. IndexTypes' /\ Past(place)' /\ been \subseteq been'
  BY <1>1, <1>2, UpdateStep DEF FilesInv, Types, Traced
<1> QED
  BY <1>1, <1>3, LeftFacts, QuietStep

LEMMA LoseFileStep ==
    ASSUME FilesInv, NEW s \in Slots, NEW f \in Files, LoseFile(s, f)
    PROVE  FilesInv'
<1>1. /\ calls[s].at = "asked" /\ calls[s].kind = "moveFiles"
      /\ calls' = [calls EXCEPT ![s] = Left(@, f)]
      /\ UNCHANGED <<index, page, crossed>> /\ mixed' = TRUE
  BY DEF LoseFile, Fault
<1>2. IndexTypes' /\ Past(place)' /\ been \subseteq been'
  BY <1>1, IndexKept
<1> QED
  BY <1>1, <1>2, LeftFacts, QuietStep

LEMMA LoseSteps ==
    ASSUME FilesInv, NEW s \in Slots, Lose(s) \/ LoseRead(s)
    PROVE  FilesInv'
<1>1. /\ calls[s].at # "idle" /\ UNCHANGED <<index, page, crossed>> /\ mixed' = TRUE
      /\ Advance(s, "refused") \/ Advance(s, "unread")
  BY DEF Lose, LoseRead, Fault
<1>2. IndexTypes' /\ Past(place)' /\ been \subseteq been'
  BY <1>1, IndexKept
<1>3. \E at \in {"done", "refused", "loading", "unread"} : Advance(s, at)
  BY <1>1
<1> QED
  BY <1>1, <1>2, <1>3, AdvanceFacts, QuietStep

LEMMA ListTyped ==
    ASSUME IndexTypes
    PROVE  ListFiles \in Views /\ ListFolders \in SUBSET Seq(Names)
<1>1. ListFiles \in Views
  BY DEF ListFiles, Views, Stored, IndexTypes
<1>2. TreeOf(place, {}) \subseteq Seq(Names)
  BY TreeFolders DEF Folders
<1> QED
  BY <1>1, <1>2 DEF ListFolders, IndexTypes

LEMMA ReadFilesStep ==
    ASSUME FilesInv, NEW s \in Slots, ReadFiles(s)
    PROVE  FilesInv'
<1> DEFINE d == [calls[s] EXCEPT !.gotFiles = ListFiles]
<1>1. /\ calls[s].at = "loading" /\ calls' = [calls EXCEPT ![s].gotFiles = ListFiles]
      /\ UNCHANGED <<index, page, mixed, crossed>> /\ mixed' \in BOOLEAN
  BY DEF ReadFiles, FilesInv, Types
<1>2. calls[s] \in CallRecords /\ calls \in [Slots -> CallRecords] /\ ListFiles \in Views
  BY ListTyped DEF FilesInv, Types, CallTypes
<1>3. Past(ListFiles)
  <2>1. \A f \in Stored(ListFiles) : f \in Stored(place) /\ ListFiles[f] = place[f]
    BY AbsentAssumption DEF Stored, ListFiles
  <2> QED
    BY <2>1 DEF FilesInv, Traced, Past
<1>4. Onward(s, d) /\ calls' = [calls EXCEPT ![s] = d]
  BY <1>1, <1>2, <1>3 DEF Onward, CallRecords
<1>5. IndexTypes' /\ Past(place)' /\ been \subseteq been'
  BY <1>1, IndexKept
<1>6. /\ calls'[s] = d /\ d.at = "loading" /\ d.kind = calls[s].kind /\ d.dest = calls[s].dest
      /\ d.gotFiles = ListFiles /\ d.gotFolders = calls[s].gotFolders
  BY <1>1, <1>2, <1>4 DEF CallRecords
<1> HIDE DEF d
<1>7. Orderly(s) => Orderly(s)'
  BY <1>1, <1>6, SameLists DEF Orderly
<1> QED
  BY <1>1, <1>4, <1>5, <1>7, QuietStep

LEMMA ReadFoldersStep ==
    ASSUME FilesInv, NEW s \in Slots, ReadFolders(s)
    PROVE  FilesInv'
<1> DEFINE d == [calls[s] EXCEPT !.gotFolders = ListFolders]
<1>1. /\ calls[s].at = "loading" /\ calls' = [calls EXCEPT ![s].gotFolders = ListFolders]
      /\ made' = ListFolders
      /\ UNCHANGED <<place, been, page, mixed, crossed>> /\ mixed' \in BOOLEAN
  BY DEF ReadFolders, FilesInv, Types
<1>2. calls[s] \in CallRecords /\ calls \in [Slots -> CallRecords] /\ ListFolders \in SUBSET Seq(Names)
  BY ListTyped DEF FilesInv, Types, CallTypes
<1>3. Onward(s, d) /\ calls' = [calls EXCEPT ![s] = d]
  BY <1>1, <1>2 DEF Onward, CallRecords
<1>4. IndexTypes' /\ Past(place)' /\ been \subseteq been'
  BY <1>1, <1>2 DEF FilesInv, Types, IndexTypes, Traced, Past
<1>5. /\ calls'[s] = d /\ d.at = "loading" /\ d.kind = calls[s].kind /\ d.dest = calls[s].dest
      /\ d.gotFiles = calls[s].gotFiles /\ d.gotFolders = ListFolders
  BY <1>1, <1>2, <1>3 DEF CallRecords
<1> HIDE DEF d
<1>6. ListFiles' = ListFiles /\ ListFolders' = ListFolders /\ made \subseteq made'
  BY <1>1 DEF ListFiles, ListFolders, Stored, TreeOf
<1>7. Orderly(s) => Orderly(s)'
  BY <1>1, <1>5, <1>6 DEF Orderly
<1> QED
  BY <1>1, <1>3, <1>4, <1>7, QuietStep

LEMMA AnsweredStep ==
    ASSUME FilesInv, NEW s \in Slots, Answered(s)
    PROVE  FilesInv'
<1> DEFINE c == calls[s]
           t == IF c.kind = "moveFiles" THEN selected ELSE IF c.snap # None THEN c.target ELSE None
           d == [c EXCEPT !.at = "loading", !.target = t]
<1>1. /\ c.at = "done" /\ calls' = [calls EXCEPT ![s].at = "loading", ![s].target = t]
      /\ busy' = TRUE
      /\ UNCHANGED <<index, listing, clipboard, flagged, roots, astray, mixed, crossed>>
  BY DEF Answered
<1>2. c \in CallRecords /\ Fitting(c) /\ calls \in [Slots -> CallRecords] /\ ListTypes /\ PageTypes
  BY DEF FilesInv, Types, CallTypes, PageTypes
<1>3. t \in Seq(Names) \cup {None}
  BY <1>2 DEF CallRecords, ListTypes
<1>4. calls' = [calls EXCEPT ![s] = d]
  BY <1>1, <1>2 DEF CallRecords
<1> HIDE DEF t
<1>5. Onward(s, d)
  BY <1>2, <1>3 DEF Onward, CallRecords
<1>6. selected' \in Seq(Names)
  <2>1. CASE c.kind = "deleteFolder" /\ Under(Dir(c), c.target)
    <3>1. Dir(c) \in Seq(Names)
      BY <1>2, <2>1 DEF Fitting, FolderKinds, CallRecords, Dir, Folders
    <3>2. selected' = Parent(Dir(c))
      BY <2>1 DEF Answered
    <3> QED
      BY <3>1, <3>2, ParentPath
  <2>2. CASE c.kind = "renameFolder"
    <3>1. Dir(c) \in Seq(Names) /\ c.dest \in Seq(Names) /\ selected \in Seq(Names)
      BY <1>2, <2>2 DEF Fitting, FolderKinds, CallRecords, Dir, Folders, ListTypes
    <3>2. selected' = Renamed(Dir(c), c.dest, selected)
      BY <2>2 DEF Answered
    <3> QED
      BY <3>1, <3>2, RenamedPath
  <2>3. CASE ~(c.kind = "deleteFolder" /\ Under(Dir(c), c.target)) /\ c.kind # "renameFolder"
    BY <1>2, <2>3 DEF Answered, ListTypes
  <2> QED
    BY <2>1, <2>2, <2>3
<1>7. PageTypes'
  BY <1>1, <1>2, <1>6 DEF PageTypes, ListTypes, listing
<1>8. IndexTypes' /\ Past(place)' /\ been \subseteq been'
  BY <1>1, IndexKept
<1>9. CallTypes' /\ Marks' /\ Traced' /\ Steady'
  <2>1. UNCHANGED <<flagged, roots, files, crossed>> /\ calls[s].at # "idle"
    BY <1>1 DEF listing
  <2>2. /\ calls'[s] = d /\ d.at = "loading" /\ d.kind = c.kind /\ d.dest = c.dest
        /\ d.gotFiles = c.gotFiles /\ d.gotFolders = c.gotFolders
    BY <1>2, <1>4 DEF CallRecords
  <2> HIDE DEF d
  <2>3. Orderly(s) => Orderly(s)'
    BY <1>1, <2>2, SameLists DEF Orderly
  <2> HIDE DEF c
  <2> QED
    BY <1>1, <1>4, <1>5, <1>8, <2>1, <2>3, OnwardStep DEF FilesInv, Types
<1> QED
  BY <1>1, <1>7, <1>8, <1>9 DEF FilesInv, Types

\* What a move puts back is a page as it can be.
LEMMA RestoredTypes ==
    ASSUME ListTypes, NEW c \in CallRecords, Restored(c)
    PROVE  /\ ListTypes'
           /\ \/ c.snap = None /\ UNCHANGED files
              \/ c.snap # None /\ files' = c.snap.files
<1>1. CASE c.snap = None
  BY <1>1 DEF Restored, ListTypes, listing
<1>2. CASE c.snap # None
  <2>1. c.snap \in Shapes
    BY <1>2 DEF CallRecords
  <2> QED
    BY <1>2, <2>1 DEF Restored, ListTypes, Shapes
<1> QED
  BY <1>1, <1>2

LEMMA FailedStep ==
    ASSUME FilesInv, NEW s \in Slots, Failed(s)
    PROVE  FilesInv'
<1>1. ListTypes' /\ \/ calls[s].snap = None /\ UNCHANGED files
                    \/ calls[s].snap # None /\ files' = calls[s].snap.files
  BY RestoredTypes DEF Failed, FilesInv, Types, PageTypes, CallTypes
<1>2. End(s) /\ UNCHANGED <<index, clipboard, astray, mixed, crossed>>
  BY DEF Failed
<1>3. Orderly(s) => Agrees'
  <2>1. calls[s].at = "refused" /\ Restored(calls[s])
    BY DEF Failed
  <2>2. Orderly(s) => Agrees /\ UNCHANGED <<listing, selected>>
    BY <2>1 DEF Orderly, Restored
  <2> QED
    BY <1>2, <2>2, AgreesStill
<1>4. /\ IndexTypes' /\ CallTypes' /\ Marks' /\ Traced' /\ Steady'
      /\ flagged' \subseteq Files /\ roots' \subseteq Seq(Names) /\ busy' \in BOOLEAN
  <2>1. calls[s].at # "idle"
    BY DEF Failed
  <2> QED
    BY <1>1, <1>2, <1>3, <2>1, EndStep
<1> QED
  BY <1>1, <1>2, <1>4 DEF FilesInv, Types, PageTypes

LEMMA SpentTypes ==
    ASSUME PageTypes, NEW c \in CallRecords, NEW p \in Seq(Names)
    PROVE  Spent(c) \in Clipboards \cup {None} /\ Back(c, p) \in Seq(Names)
BY DEF Spent, Back, PageTypes, CallRecords

\* A reload that has the page for itself shows the index as it is, and a folder that is there.
LEMMA LoadedAgrees ==
    ASSUME FilesInv, NEW s \in Slots, Loaded(s), Orderly(s)
    PROVE  Agrees'
<1> DEFINE c == calls[s]
           at == TreeOf(c.gotFiles, c.gotFolders)
<1>1. /\ c.at = "loading" /\ c.gotFiles # None /\ c.gotFolders # None
      /\ files' = c.gotFiles /\ folders' = c.gotFolders /\ tree' = at
      /\ selected' = Back(c, Fallback(c, at)) /\ astray' = (c.target \notin {None, selected})
      /\ UNCHANGED index
  BY DEF Loaded
<1>2. c \in CallRecords
  BY DEF FilesInv, Types, CallTypes
<1>3. c.gotFiles = ListFiles' /\ c.gotFolders = ListFolders'
  BY <1>1, SameLists DEF Orderly
<1>4. tree' = TreeOf(files', folders')
  BY <1>1
<1>5. ~astray' => selected' \in tree' \cup {Root}
  <2>1. CASE c.kind = "newFolder"
    <3>1. selected' = c.dest
      BY <1>1, <2>1 DEF Back
    <3>2. c.dest \in made \cup {Root}
      BY <1>1, <2>1 DEF Orderly
    <3>3. made \subseteq c.gotFolders
      BY <1>1 DEF Orderly, ListFolders
    <3>4. c.dest \in Chain(c.dest) \cup {Root}
      BY <1>2, ChainFolders DEF CallRecords
    <3> QED
      BY <1>1, <3>1, <3>2, <3>3, <3>4 DEF TreeOf, Chains
  <2>2. CASE c.kind # "newFolder"
    BY <1>1, <2>2 DEF Back, Fallback
  <2> QED
    BY <2>1, <2>2
<1> HIDE DEF c, at
<1> QED
  BY <1>1, <1>3, <1>4, <1>5 DEF Agrees

LEMMA LoadedStep ==
    ASSUME FilesInv, NEW s \in Slots, Loaded(s)
    PROVE  FilesInv'
<1> DEFINE c == calls[s]
           at == TreeOf(c.gotFiles, c.gotFolders)
<1>1. /\ c.at = "loading" /\ c.gotFiles # None /\ c.gotFolders # None
      /\ files' = c.gotFiles
      /\ named' = [f \in Files |-> IF c.gotFiles[f] = Gone THEN Root ELSE c.gotFiles[f]]
      /\ folders' = c.gotFolders /\ tree' = at
      /\ selected' = Back(c, Fallback(c, at)) /\ clipboard' = Spent(c)
      /\ astray' = (c.target \notin {None, selected})
      /\ End(s) /\ UNCHANGED <<index, mixed, crossed>>
  BY DEF Loaded
<1>2. c \in CallRecords /\ PageTypes /\ ListTypes
  BY DEF FilesInv, Types, CallTypes, PageTypes
<1>3. c.gotFiles \in Views /\ c.gotFolders \in SUBSET Seq(Names)
  BY <1>1, <1>2 DEF CallRecords
<1>4. named' \in [Files -> Seq(Names)]
  BY <1>1, <1>3, EmptySeq DEF Views, Root
<1>5. at \subseteq Folders
  BY <1>3, TreeFolders
<1>6. Fallback(c, at) \in Seq(Names)
  BY <1>2, EmptySeq DEF Fallback, ListTypes, Root
<1> HIDE DEF at, c
<1>7. selected' \in Seq(Names) /\ clipboard' \in Clipboards \cup {None}
  BY <1>1, <1>2, <1>6, SpentTypes
<1>8. /\ IndexTypes' /\ CallTypes' /\ Marks' /\ Traced' /\ Steady'
      /\ flagged' \subseteq Files /\ roots' \subseteq Seq(Names) /\ busy' \in BOOLEAN
  <2>1. Orderly(s) => Agrees'
    BY LoadedAgrees
  <2>2. c.at # "idle"
    BY <1>1
  <2> QED
    BY <1>1, <2>1, <2>2, EndStep DEF c
<1>9. astray' \in BOOLEAN
  BY <1>1
<1> QED
  BY <1>1, <1>3, <1>4, <1>5, <1>7, <1>8, <1>9 DEF FilesInv, Types, PageTypes, ListTypes

LEMMA UnreadStep ==
    ASSUME FilesInv, NEW s \in Slots, Unread(s)
    PROVE  FilesInv'
<1> DEFINE c == calls[s]
<1>1. End(s) /\ UNCHANGED <<index, astray, mixed, crossed>>
  BY DEF Unread
<1>2. c \in CallRecords /\ PageTypes /\ ListTypes
  BY DEF FilesInv, Types, CallTypes, PageTypes
<1>3. /\ ListTypes' /\ clipboard' \in Clipboards \cup {None}
      /\ \/ c.snap = None /\ UNCHANGED files
         \/ c.snap # None /\ files' = c.snap.files
  <2>1. CASE c.snap # None
    <3>1. Restored(c) /\ UNCHANGED clipboard
      BY <2>1 DEF Unread
    <3> QED
      BY <1>2, <3>1, RestoredTypes DEF PageTypes
  <2>2. CASE c.snap = None
    <3>1. selected' = Back(c, selected) /\ clipboard' = Spent(c) /\ UNCHANGED listing
      BY <2>2 DEF Unread
    <3>2. selected' \in Seq(Names) /\ clipboard' \in Clipboards \cup {None}
      BY <1>2, <3>1, SpentTypes DEF ListTypes
    <3> QED
      BY <1>2, <2>2, <3>1, <3>2 DEF ListTypes, listing
  <2> QED
    BY <2>1, <2>2
<1>4. /\ IndexTypes' /\ CallTypes' /\ Marks' /\ Traced' /\ Steady'
      /\ flagged' \subseteq Files /\ roots' \subseteq Seq(Names) /\ busy' \in BOOLEAN
  <2>1. calls[s].at # "idle" /\ ~Orderly(s)
    BY DEF Unread, Orderly
  <2> QED
    BY <1>1, <1>3, <2>1, EndStep
<1> QED
  BY <1>1, <1>2, <1>3, <1>4 DEF FilesInv, Types, PageTypes

--------------------------------------------------------------------------------
\* There is a first handler, and it reads the listing as the page opens.
LEMMA FirstSlot ==
    \E s \in Slots : \A t \in Slots : s <= t
<1>1. PICK s \in Slots : \A t \in Slots : ~(<<t, s>> \in OpToRel(<, Nat))
  BY FilesAssumption, NatLessThanWellFounded, WFMin
<1>2. ASSUME NEW t \in Slots PROVE s <= t
  <2>1. s \in Nat /\ t \in Nat
    BY FilesAssumption
  <2>2. ~(<<t, s>> \in OpToRel(<, Nat))
    BY <1>1
  <2>3. ~(t < s)
    BY <2>1, <2>2 DEF OpToRel
  <2> QED
    BY <2>1, <2>3
<1> QED
  BY <1>2

LEMMA FilesStart ==
    ASSUME Init
    PROVE  FilesInv
<1> DEFINE c == [Call("refresh", {}, {}, Root) EXCEPT !.at = "loading"]
<1>1. /\ budget.place \in [Files -> Paths \cup {New}] /\ budget.made \in SUBSET Paths /\ budget.last \in Paths
  BY FilesAssumption DEF Init
<1>2. Paths \subseteq Seq(Names) /\ Root \in Seq(Names)
  BY FilesAssumption
<1>3. /\ c \in CallRecords /\ c.kind = "refresh" /\ c.at = "loading" /\ c.flags = {} /\ c.snap = None
      /\ c.gotFiles = None /\ c.gotFolders = None
  <2>1. Asks(Call("refresh", {}, {}, Root), "refresh", {}, {}, Root)
    BY <1>2, CallFacts DEF Kinds
  <2> QED
    BY <2>1 DEF Asks, CallRecords
<1> HIDE DEF c
<1>4. Fitting(c)
  BY <1>3, IdleFacts DEF Fitting, FolderKinds, FileKinds
<1>5. calls \in [Slots -> {c, Idle}]
  BY DEF Init, c
<1>6. CallTypes
  BY <1>3, <1>4, <1>5, IdleFacts DEF CallTypes
<1>7. IndexTypes /\ PageTypes
  BY <1>1, <1>2 DEF Init, IndexTypes, PageTypes, ListTypes, Views, Folders
<1>8. \A s \in Slots : calls[s].flags = {} /\ calls[s].snap = None /\ calls[s].gotFiles = None
  BY <1>3, <1>5, IdleFacts
<1>9. Marks
  BY <1>8 DEF Init, Marks
<1>10. Past(place) /\ Past(files)
  <2>1. Past(place)
    BY DEF Init, Past, Stored
  <2>2. Past(files)
    BY AbsentAssumption DEF Init, Past, Stored
  <2> QED
    BY <2>1, <2>2
<1>11. Traced
  BY <1>8, <1>10 DEF Traced, Ahead
<1>12. Steady
  <2>1. Open = {s \in Slots : \A t \in Slots : s <= t} /\ \A s \in Open : calls[s] = c
    BY <1>3, IdleFacts DEF Init, Open, c
  <2>2. Open # {}
    BY <2>1, FirstSlot
  <2>3. \A s, t \in Open : s = t
    BY <2>1, FilesAssumption
  <2>4. \A s \in Open : Orderly(s)
    BY <1>3, <2>1 DEF Orderly
  <2> QED
    BY <2>2, <2>3, <2>4 DEF Steady
<1> QED
  BY <1>6, <1>7, <1>9, <1>11, <1>12 DEF FilesInv, Types, Init

LEMMA FilesKept ==
    ASSUME FilesInv, [Next]_vars
    PROVE  FilesInv'
<1>1. CASE User
  BY <1>1, UserStep
<1>2. CASE Elsewhere
  BY <1>2, ElsewhereStep
<1>3. ASSUME NEW s \in Slots, Step(s) \/ Lose(s) \/ LoseRead(s) \/ \E f \in Files : LoseFile(s, f)
      PROVE  FilesInv'
  BY <1>3, ServeStep, ReadFilesStep, ReadFoldersStep, AnsweredStep, FailedStep, LoadedStep, UnreadStep,
     ServeFileStep, LoseFileStep, LoseSteps DEF Step
<1>4. CASE UNCHANGED vars
  <2>1. UNCHANGED <<index, page, calls, mixed, crossed>>
    BY <1>4 DEF vars
  <2>2. PageTypes' /\ UNCHANGED <<files, flagged, roots>>
    BY <2>1, PageSame DEF FilesInv, Types
  <2>3. IndexTypes' /\ Past(place)' /\ been \subseteq been'
    BY <2>1, IndexKept
  <2>4. CallTypes' /\ Marks' /\ Traced'
    BY <2>1, <2>2, <2>3 DEF FilesInv, Types, CallTypes, Marks, Moving, Traced, Past, Ahead
  <2>5. Steady'
    <3>1. Agrees => Agrees'
      BY <2>1, AgreesStill DEF page
    <3>2. \A s \in Slots : Orderly(s) => Orderly(s)'
      BY <2>1, <3>1, SameLists DEF Orderly
    <3> QED
      BY <2>1, <3>1, <3>2 DEF FilesInv, Steady, Open
  <2> QED
    BY <2>1, <2>2, <2>3, <2>4, <2>5 DEF FilesInv, Types
<1> QED
  BY <1>1, <1>2, <1>3, <1>4 DEF Next

\* The page's marks have their owners, and what it shows and may show again has a past in the
\* index, in every reachable state.
THEOREM FilesInductive == Spec => []FilesInv
<1>1. Init => FilesInv
  BY FilesStart
<1>2. FilesInv /\ [Next]_vars => FilesInv'
  BY FilesKept
<1> QED
  BY <1>1, <1>2, PTL DEF Spec

LEMMA MovesSafeFollows ==
    ASSUME FilesInv
    PROVE  MovesSafe
<1>1. FilesTypeOK
  <2>1. tree \subseteq Seq(Names) /\ files \in [Files -> Seq(Names) \cup {Gone}]
    BY DEF FilesInv, Types, PageTypes, ListTypes, Folders, Views
  <2>2. clipboard = None \/ (clipboard.op \in {"copy", "move"} /\ clipboard.ids \subseteq Files)
    BY DEF FilesInv, Types, PageTypes, Clipboards
  <2> QED
    BY <2>1, <2>2 DEF FilesTypeOK, FilesInv, Types, PageTypes, ListTypes, IndexTypes
<1>2. \A s \in Slots : s \notin Open => ~Moving(s) /\ calls[s].flags = {} /\ ~Ahead(s)
  BY IdleFacts DEF Open, Moving, Ahead
<1>3. FlagsOwned
  <2>1. flagged = UNION {calls[s].flags : s \in {t \in Open : calls[t].kind = "moveFiles"}}
    <3>1. ASSUME NEW s \in Slots, Moving(s) PROVE s \in Open /\ calls[s].flags \subseteq Files
      BY <1>2, <3>1 DEF Moving, FilesInv, Types, CallTypes, Fitting
    <3>2. ASSUME NEW f \in flagged
          PROVE  \E s \in Open : calls[s].kind = "moveFiles" /\ f \in calls[s].flags
      <4>1. f \in Files
        BY DEF FilesInv, Types, PageTypes
      <4>2. PICK s \in Slots : Moving(s) /\ f \in calls[s].flags
        BY <4>1 DEF FilesInv, Marks
      <4> QED
        BY <3>1, <4>2 DEF Moving
    <3>3. ASSUME NEW s \in Open, calls[s].kind = "moveFiles", NEW f \in calls[s].flags
          PROVE  f \in flagged
      <4>1. s \in Slots /\ Moving(s)
        BY <3>3 DEF Open, Moving
      <4>2. f \in Files
        BY <3>1, <4>1
      <4> QED
        BY <4>1, <4>2 DEF FilesInv, Marks
    <3> QED
      BY <3>2, <3>3
  <2>2. \A s, t \in Open : s # t /\ calls[s].kind = "moveFiles" /\ calls[t].kind = "moveFiles" =>
                              calls[s].flags \cap calls[t].flags = {}
    BY DEF FilesInv, Marks, Moving, Open
  <2>3. ASSUME NEW p \in roots
        PROVE  \E s \in Open : calls[s].kind # "moveFiles" /\ p \in calls[s].flags
    <3>1. PICK s \in Slots : ~Moving(s) /\ p \in calls[s].flags
      BY DEF FilesInv, Marks
    <3> QED
      BY <1>2, <3>1 DEF Moving
  <2>4. roots \subseteq UNION {calls[s].flags : s \in {t \in Open : calls[t].kind # "moveFiles"}}
    BY <2>3
  <2> QED
    BY <2>1, <2>2, <2>4 DEF FlagsOwned
<1>4. ASSUME ~crossed, \A s \in Open : calls[s].snap = None
      PROVE  Past(files)
  <2>1. \A s \in Slots : ~Ahead(s)
    BY <1>2, <1>4 DEF Ahead
  <2> QED
    BY <1>4, <2>1 DEF FilesInv, Traced
<1>5. OptimismEnds
  BY <1>4 DEF OptimismEnds, Past
<1> QED
  BY <1>1, <1>3, <1>5 DEF MovesSafe

\* A row of the files page is marked exactly as long as a move of it is open, no file is in two
\* moves at once, and nothing a move showed ahead of the index stays behind it.
THEOREM MovesAreSafe == Spec => []MovesSafe
<1>1. FilesInv => MovesSafe
  BY MovesSafeFollows
<1> QED
  BY <1>1, FilesInductive, PTL

\* When handlers of the files page have run one at a time, nothing was lost and no other tab changed
\* anything, a page at rest shows the index: its files, its folders, the tree of both, and, unless
\* the last reload checked another folder, an open folder that is there.
THEOREM PageInStep == Spec => []InStep
<1>1. FilesInv => InStep
  BY DEF FilesInv, Steady, Agrees, InStep, AtRest
<1> QED
  BY <1>1, FilesInductive, PTL

--------------------------------------------------------------------------------
(* Uploads: the invariant that its steps keep. *)

Statuses == {"running", "done", "error"}
JobKinds == [name : Locals \X Uses, folder : Destinations, status : Statuses, listed : BOOLEAN]
Heards == UNION {[d -> Statuses] : d \in SUBSET Nat}
HandlerKinds ==
    [step : {"seed", "seeded", "send", "single", "scan", "end", "cut"}, batch : Seq(Entries),
     uploads : Seq(Entries), groups : Seq(Seq(Nat)), single : Seq(Nat), ids : Seq(Nat),
     scans : Seq(Entries), answer : Heards \cup {Nothing}, told : SUBSET Entries, gone : BOOLEAN]
RowKinds == [id : Nat \X Nat, name : Locals \X Uses, status : {"running", "error"}]
Lefts == [batches : SUBSET Seq(Entries), picks : Nat, faults : Nat, clears : Nat,
          clicks : Nat, leaves : Nat, reload : BOOLEAN]

PanelTypes ==
    /\ rows \subseteq RowKinds /\ open \in BOOLEAN
    /\ seed \in Heards /\ fetched \in Heards /\ poll \in Heards \cup {Nothing}
    /\ clearing \in {Nothing, "done", "all"}
    /\ DOMAIN seed \subseteq DOMAIN jobs /\ DOMAIN fetched \subseteq DOMAIN jobs
    /\ poll # Nothing => DOMAIN poll \subseteq DOMAIN jobs

UploadTypes ==
    /\ jobs \in Seq(JobKinds) /\ runs \in Seq(HandlerKinds)
    /\ pending \in Seq(Entries) /\ preparing \subseteq Seq(Entries)
    /\ computing \in BOOLEAN /\ confirm \in BOOLEAN /\ uploading \in BOOLEAN
    /\ PanelTypes
    /\ left \in Lefts

\* The service has a job for an entry, in its folder.
With(js, e) == \E j \in DOMAIN js : js[j].name = <<e.file, e.kind>> /\ js[j].folder = e.folder

\* A position of the uploads that has still to be answered for.
Due(h, i) == \E n \in DOMAIN h.groups : \E k \in DOMAIN h.groups[n] : h.groups[n][k] = i

\* One file after the other: those before the rest of the group are with the service.
OneByOne(js, h) ==
    LET at == Head(h.groups)
        sent == Len(at) - Len(h.single)
    IN /\ h.groups # <<>> /\ h.single # <<>>
       /\ Len(h.single) <= Len(at) /\ Len(h.ids) = sent
       /\ \A k \in DOMAIN h.single : h.single[k] = at[sent + k]
       /\ \A k \in 1 .. sent : With(js, h.uploads[at[k]])

Suits(js, h) ==
    /\ \A i \in DOMAIN h.uploads : h.uploads[i].kind = "upload"
    /\ \A n \in DOMAIN h.groups :
          /\ h.groups[n] # <<>>
          /\ \A k \in DOMAIN h.groups[n] :
                /\ h.groups[n][k] \in DOMAIN h.uploads
                /\ h.uploads[h.groups[n][k]].folder = h.uploads[h.groups[n][1]].folder
    /\ h.step \in {"seed", "seeded", "send"} => h.ids = <<>>
    /\ h.step \in {"seed", "seeded"} => \A i \in DOMAIN h.uploads : Due(h, i)
    /\ h.step = "single" => OneByOne(js, h)
    /\ h.step = "scan" => h.groups = <<>>
    /\ h.step = "end" => h.batch = <<>> \/ (h.groups = <<>> /\ h.scans = <<>>)
    /\ \A e \in Range(h.batch) :
          \/ e \in h.told \/ With(js, e) \/ e \in Range(h.scans)
          \/ \E i \in DOMAIN h.uploads : Due(h, i) /\ h.uploads[i] = e
    /\ h.answer # Nothing => DOMAIN h.answer \subseteq DOMAIN js

\* A row that waits for a job is of a handler that still has its position to answer for.
Owned(row, h) ==
    row.status = "running" /\ ~h.gone => h.step \in {"send", "single"} /\ Due(h, row.id[2])

UploadsInv ==
    /\ UploadTypes
    /\ \A r \in DOMAIN runs : Suits(jobs, runs[r])
    /\ \A row \in rows : row.id[1] # 0 => row.id[1] \in DOMAIN runs /\ Owned(row, runs[row.id[1]])


--------------------------------------------------------------------------------
(* Positions in increasing order. *)

InOrder(q, s) ==
    /\ q \in Bijection(1 .. Cardinality(s), s)
    /\ \A i, j \in 1 .. Cardinality(s) : i < j => q[i] < q[j]

LEMMA LeastOf ==
    ASSUME NEW s, s \subseteq Nat, s # {}
    PROVE  \E m \in s : \A n \in s : m <= n
<1>1. PICK m \in s : \A n \in s : ~(<<n, m>> \in OpToRel(<, Nat))
  BY NatLessThanWellFounded, WFMin
<1>2. ASSUME NEW n \in s PROVE m <= n
  <2>1. m \in Nat /\ n \in Nat
    OBVIOUS
  <2>2. ~(n < m)
    BY <1>1, <2>1 DEF OpToRel
  <2> QED
    BY <2>1, <2>2
<1> QED
  BY <1>2

LEMMA OneMore ==
    ASSUME NEW s, s \subseteq Nat, s # {}, IsFiniteSet(s),
           \A u \in SUBSET Nat : IsFiniteSet(u) /\ Cardinality(u) = Cardinality(s) - 1 => \E q : InOrder(q, u)
    PROVE  \E q : InOrder(q, s)
<1>1. PICK m \in s : \A n \in s : m <= n
  BY LeastOf
<1> DEFINE u == s \ {m}
           n == Cardinality(u)
<1>2. IsFiniteSet(u) /\ n \in Nat /\ Cardinality(s) = n + 1
  <2>1. IsFiniteSet(u) /\ Cardinality(u) = Cardinality(s) - 1
    BY FS_RemoveElement
  <2>2. Cardinality(u) \in Nat /\ Cardinality(s) \in Nat
    BY <2>1, FS_CardinalityType
  <2> QED
    BY <2>1, <2>2
<1>3. PICK q : InOrder(q, u)
  <2>1. u \in SUBSET Nat /\ Cardinality(u) = Cardinality(s) - 1
    BY <1>2
  <2> QED
    BY <1>2, <2>1
<1> HIDE DEF n
<1>4. /\ q \in [1 .. n -> u]
      /\ \A a, b \in 1 .. n : q[a] = q[b] => a = b
      /\ \A x \in u : \E a \in 1 .. n : q[a] = x
      /\ \A a, b \in 1 .. n : a < b => q[a] < q[b]
  <2>1. q \in Injection(1 .. n, u) /\ q \in Surjection(1 .. n, u)
    BY <1>3 DEF InOrder, Bijection, n
  <2>2. \A a, b \in 1 .. n : a < b => q[a] < q[b]
    BY <1>3 DEF InOrder, n
  <2> QED
    BY <2>1, <2>2 DEF Injection, Surjection, IsInjective
<1> DEFINE p == [i \in 1 .. n + 1 |-> IF i = 1 THEN m ELSE q[i - 1]]
<1>5. \A i \in 1 .. n + 1 : /\ i = 1 => p[i] = m
                            /\ i # 1 => i - 1 \in 1 .. n /\ p[i] = q[i - 1] /\ p[i] \in u
  BY <1>2, <1>4
<1>6. \A x \in u : x \in s /\ x # m /\ m < x
  BY <1>1
<1>7. p \in [1 .. n + 1 -> s]
  BY <1>2, <1>5, <1>6
<1>8. ASSUME NEW a \in 1 .. n + 1, NEW b \in 1 .. n + 1, a < b
      PROVE  p[a] < p[b]
  <2>1. b # 1 /\ b - 1 \in 1 .. n /\ p[b] = q[b - 1] /\ p[b] \in u
    BY <1>2, <1>5, <1>8
  <2>2. CASE a = 1
    BY <1>5, <1>6, <2>1, <2>2
  <2>3. CASE a # 1
    BY <1>2, <1>4, <1>5, <1>8, <2>1, <2>3
  <2> QED
    BY <2>2, <2>3
<1>9. ASSUME NEW x \in s PROVE \E a \in 1 .. n + 1 : p[a] = x
  <2>1. CASE x = m
    <3>1. 1 \in 1 .. n + 1 /\ p[1] = m
      BY <1>2
    <3> QED
      BY <2>1, <3>1
  <2>2. CASE x # m
    <3>1. PICK a \in 1 .. n : q[a] = x
      BY <1>4, <2>2
    <3>2. a + 1 \in 1 .. n + 1 /\ a + 1 # 1 /\ (a + 1) - 1 = a
      BY <1>2
    <3>3. p[a + 1] = q[(a + 1) - 1]
      BY <1>5, <3>2
    <3> QED
      BY <3>1, <3>2, <3>3
  <2> QED
    BY <2>1, <2>2
<1> HIDE DEF p
<1>10. ASSUME NEW a \in 1 .. n + 1, NEW b \in 1 .. n + 1, p[a] = p[b] PROVE a = b
  <2>1. p[a] \in Nat /\ p[b] \in Nat
    BY <1>7
  <2> QED
    BY <1>2, <1>8, <1>10, <2>1
<1>11. InOrder(p, s)
  <2>1. p \in Injection(1 .. n + 1, s) /\ p \in Surjection(1 .. n + 1, s)
    BY <1>7, <1>9, <1>10 DEF Injection, Surjection, IsInjective
  <2> QED
    BY <1>2, <1>8, <2>1 DEF InOrder, Bijection
<1> QED
  BY <1>11

LEMMA EveryNumber ==
    ASSUME NEW T, T \subseteq Nat, 0 \in T, \A n \in T : n + 1 \in T
    PROVE  T = Nat
<1> SUFFICES ASSUME Nat \ T # {} PROVE FALSE
  OBVIOUS
<1>1. PICK m \in Nat \ T : \A n \in Nat \ T : m <= n
  BY LeastOf
<1>2. m - 1 \in Nat /\ m - 1 < m
  OBVIOUS
<1>3. m - 1 \in T
  BY <1>1, <1>2
<1> QED
  BY <1>2, <1>3

LEMMA OrderExists ==
    ASSUME NEW s, s \subseteq Nat, IsFiniteSet(s)
    PROVE  \E q : InOrder(q, s)
<1> DEFINE Good(u) == \E q : InOrder(q, u)
           T == {n \in Nat : \A u \in SUBSET Nat : IsFiniteSet(u) /\ Cardinality(u) = n => Good(u)}
<1>1. 0 \in T
  <2>1. ASSUME NEW u \in SUBSET Nat, IsFiniteSet(u), Cardinality(u) = 0 PROVE Good(u)
    <3>1. u = {}
      BY <2>1, FS_EmptySet
    <3>2. [i \in 1 .. 0 |-> i] \in Bijection(1 .. 0, u)
      BY <3>1 DEF Bijection, Injection, Surjection, IsInjective
    <3>3. InOrder([i \in 1 .. 0 |-> i], u)
      BY <2>1, <3>2 DEF InOrder
    <3> QED
      BY <3>3
  <2> QED
    BY <2>1
<1>2. ASSUME NEW n \in T PROVE n + 1 \in T
  <2>1. ASSUME NEW u \in SUBSET Nat, IsFiniteSet(u), Cardinality(u) = n + 1 PROVE Good(u)
    <3>1. u # {} /\ Cardinality(u) - 1 = n
      BY <2>1, FS_EmptySet
    <3>2. \A v \in SUBSET Nat : IsFiniteSet(v) /\ Cardinality(v) = Cardinality(u) - 1 => \E q : InOrder(q, v)
      BY <3>1
    <3> QED
      BY <2>1, <3>1, <3>2, OneMore
  <2> QED
    BY <2>1
<1>3. T = Nat
  <2> HIDE DEF T
  <2>1. T \subseteq Nat
    BY DEF T
  <2> QED
    BY <1>1, <1>2, <2>1, EveryNumber
<1>4. Cardinality(s) \in T
  BY <1>3, FS_CardinalityType
<1> QED
  BY <1>4

\* The positions of a sequence with a property, in order, are those positions.
LEMMA AscendingFacts ==
    ASSUME NEW n \in Nat, NEW s, s \subseteq 1 .. n
    PROVE  /\ Ascending(s) \in Seq(s)
           /\ \A k \in DOMAIN Ascending(s) : Ascending(s)[k] \in s
           /\ \A i \in s : \E k \in DOMAIN Ascending(s) : Ascending(s)[k] = i
<1>1. IsFiniteSet(s) /\ s \subseteq Nat
  <2>1. IsFiniteSet(1 .. n)
    BY FS_Interval
  <2>2. s \subseteq Nat
    OBVIOUS
  <2>3. IsFiniteSet(s)
    BY <2>1, FS_Subset, Zenon
  <2> QED
    BY <2>2, <2>3
<1>2. \E q : InOrder(q, s)
  BY <1>1, OrderExists
<1> DEFINE q == Ascending(s)
<1>3. InOrder(q, s)
  BY <1>2 DEF InOrder, Ascending
<1> HIDE DEF q
<1>4. /\ q \in [1 .. Cardinality(s) -> s] /\ Cardinality(s) \in Nat
      /\ \A i \in s : \E k \in 1 .. Cardinality(s) : q[k] = i
  BY <1>1, <1>3, FS_CardinalityType DEF InOrder, Bijection, Surjection
<1>5. q \in Seq(s) /\ DOMAIN q = 1 .. Cardinality(s)
  BY <1>4
<1> QED
  BY <1>4, <1>5 DEF q

\* The entries of one kind.
LEMMA KindFacts ==
    ASSUME NEW b \in Seq(Entries), NEW kind
    PROVE  /\ OfKind(b, kind) \in Seq(Entries)
           /\ \A k \in DOMAIN OfKind(b, kind) : OfKind(b, kind)[k].kind = kind
           /\ \A e \in Range(b) : e.kind = kind => e \in Range(OfKind(b, kind))
<1> DEFINE at == Ascending({i \in DOMAIN b : b[i].kind = kind})
<1>1. DOMAIN b = 1 .. Len(b) /\ Len(b) \in Nat
  OBVIOUS
<1>2. /\ at \in Seq({i \in DOMAIN b : b[i].kind = kind})
      /\ \A k \in DOMAIN at : at[k] \in {i \in DOMAIN b : b[i].kind = kind}
      /\ \A i \in {j \in DOMAIN b : b[j].kind = kind} : \E k \in DOMAIN at : at[k] = i
  BY <1>1, AscendingFacts
<1> HIDE DEF at
<1>3. OfKind(b, kind) = [k \in DOMAIN at |-> b[at[k]]]
  BY DEF OfKind, EntriesOf, at
<1>4. OfKind(b, kind) \in Seq(Entries)
  <2>1. DOMAIN at = 1 .. Len(at) /\ Len(at) \in Nat
    BY <1>2
  <2>2. \A k \in DOMAIN at : b[at[k]] \in Entries
    BY <1>2
  <2> QED
    BY <1>3, <2>1, <2>2
<1>5. ASSUME NEW e \in Range(b), e.kind = kind PROVE e \in Range(OfKind(b, kind))
  <2>1. PICK i \in DOMAIN b : b[i] = e
    BY DEF Range
  <2>2. PICK k \in DOMAIN at : at[k] = i
    BY <1>2, <1>5, <2>1
  <2> QED
    BY <1>3, <2>1, <2>2 DEF Range
<1> QED
  BY <1>2, <1>3, <1>4, <1>5

\* The groups of a batch are of one folder each, and every position is in one.
LEMMA GroupFacts ==
    ASSUME NEW b \in Seq(Entries)
    PROVE  /\ Groups(b) \in Seq(Seq(Nat))
           /\ \A n \in DOMAIN Groups(b) :
                 /\ Groups(b)[n] # <<>>
                 /\ \A k \in DOMAIN Groups(b)[n] :
                       /\ Groups(b)[n][k] \in DOMAIN b
                       /\ b[Groups(b)[n][k]].folder = b[Groups(b)[n][1]].folder
           /\ \A i \in DOMAIN b : \E n \in DOMAIN Groups(b) : \E k \in DOMAIN Groups(b)[n] : Groups(b)[n][k] = i
<1> DEFINE F == {i \in DOMAIN b : \A j \in 1 .. i - 1 : b[j].folder # b[i].folder}
           firsts == Ascending(F)
           S(i) == {j \in DOMAIN b : b[j].folder = b[i].folder}
           G == [n \in DOMAIN firsts |-> Ascending(S(firsts[n]))]
<1>1. DOMAIN b = 1 .. Len(b) /\ Len(b) \in Nat
  OBVIOUS
<1>2. /\ firsts \in Seq(F)
      /\ \A n \in DOMAIN firsts : firsts[n] \in F
      /\ \A i \in F : \E n \in DOMAIN firsts : firsts[n] = i
  BY <1>1, AscendingFacts
<1>3. ASSUME NEW i PROVE /\ Ascending(S(i)) \in Seq(S(i))
                         /\ \A k \in DOMAIN Ascending(S(i)) : Ascending(S(i))[k] \in S(i)
                         /\ \A j \in S(i) : \E k \in DOMAIN Ascending(S(i)) : Ascending(S(i))[k] = j
  BY <1>1, AscendingFacts
<1> HIDE DEF firsts
<1>4. Groups(b) = G
  BY DEF Groups, firsts
<1>5. ASSUME NEW n \in DOMAIN firsts
      PROVE  /\ G[n] \in Seq(Nat) /\ G[n] # <<>>
             /\ \A k \in DOMAIN G[n] : G[n][k] \in DOMAIN b /\ b[G[n][k]].folder = b[G[n][1]].folder
  <2> DEFINE i == firsts[n]
             q == Ascending(S(i))
  <2>1. i \in DOMAIN b /\ i \in S(i)
    BY <1>2, <1>5
  <2> HIDE DEF i, S
  <2>0. /\ q \in Seq(S(i)) /\ \A k \in DOMAIN q : q[k] \in S(i)
        /\ \A j \in S(i) : \E k \in DOMAIN q : q[k] = j
    BY <1>3
  <2>2. /\ q \in Seq(S(i)) /\ \A k \in DOMAIN q : q[k] \in S(i)
        /\ \E k \in DOMAIN q : q[k] = i
    BY <2>0, <2>1, Zenon
  <2> USE DEF i, S
  <2>3. G[n] = q
    OBVIOUS
  <2> HIDE DEF q, G, i
  <2>4. S(i) \subseteq Nat
    BY <1>1
  <2>5. q \in Seq(Nat)
    BY <2>2, <2>4
  <2>6. q # <<>> /\ 1 \in DOMAIN q
    BY <2>2
  <2>7. \A k \in DOMAIN q : q[k] \in DOMAIN b /\ b[q[k]].folder = b[i].folder
    BY <2>2
  <2> QED
    BY <2>3, <2>5, <2>6, <2>7
<1>6. ASSUME NEW i \in DOMAIN b
      PROVE  \E n \in DOMAIN G : \E k \in DOMAIN G[n] : G[n][k] = i
  <2>1. S(i) \subseteq Nat /\ i \in S(i)
    BY <1>1
  <2>2. PICK m \in S(i) : \A j \in S(i) : m <= j
    BY <2>1, LeastOf
  <2>3. m \in F
    <3>1. m \in DOMAIN b /\ b[m].folder = b[i].folder
      BY <2>2
    <3>2. ASSUME NEW j \in 1 .. m - 1, b[j].folder = b[m].folder PROVE FALSE
      <4>1. j \in DOMAIN b /\ j < m
        BY <1>1, <3>1
      <4>2. j \in S(i)
        BY <3>1, <3>2, <4>1
      <4>3. m \in Nat /\ j \in Nat
        BY <1>1, <3>1
      <4> QED
        BY <2>2, <4>1, <4>2, <4>3
    <3> QED
      BY <3>1, <3>2
  <2>4. PICK n \in DOMAIN firsts : firsts[n] = m
    BY <1>2, <2>3
  <2>5. i \in S(m)
    BY <2>2
  <2>6. PICK k \in DOMAIN Ascending(S(m)) : Ascending(S(m))[k] = i
    BY <1>3, <2>5
  <2>7. n \in DOMAIN G /\ G[n] = Ascending(S(m))
    BY <2>4
  <2> QED
    BY <2>6, <2>7
<1>7. DOMAIN G = DOMAIN firsts /\ G \in Seq(Seq(Nat))
  <2>1. DOMAIN firsts = 1 .. Len(firsts) /\ Len(firsts) \in Nat
    BY <1>2
  <2> HIDE DEF G
  <2>2. DOMAIN G = DOMAIN firsts /\ G = [n \in DOMAIN firsts |-> G[n]]
    BY DEF G
  <2> QED
    BY <1>5, <2>1, <2>2
<1> HIDE DEF G
<1> QED
  BY <1>4, <1>5, <1>6, <1>7

--------------------------------------------------------------------------------
(* Jobs are added and change their status. *)

Grows(js, ks) ==
    \A j \in DOMAIN js : j \in DOMAIN ks /\ ks[j].name = js[j].name /\ ks[j].folder = js[j].folder

LEMMA WithGrows ==
    ASSUME NEW js, NEW ks, Grows(js, ks), NEW e, With(js, e)
    PROVE  With(ks, e)
BY DEF Grows, With

LEMMA SuitsGrows ==
    ASSUME NEW js, NEW ks, Grows(js, ks), NEW h, Suits(js, h)
    PROVE  Suits(ks, h)
<1>1. \A e : With(js, e) => With(ks, e)
  BY WithGrows
<1>2. h.step = "single" => OneByOne(ks, h)
  <2>1. h.step = "single" => OneByOne(js, h)
    BY DEF Suits
  <2> QED
    BY <1>1, <2>1 DEF OneByOne
<1>3. \A e \in Range(h.batch) :
          \/ e \in h.told \/ With(ks, e) \/ e \in Range(h.scans)
          \/ \E i \in DOMAIN h.uploads : Due(h, i) /\ h.uploads[i] = e
  BY <1>1 DEF Suits
<1>4. h.answer # Nothing => DOMAIN h.answer \subseteq DOMAIN ks
  BY DEF Suits, Grows
<1> QED
  BY <1>2, <1>3, <1>4 DEF Suits

LEMMA Appended ==
    ASSUME NEW js \in Seq(JobKinds), NEW new \in Seq(JobKinds)
    PROVE  /\ js \o new \in Seq(JobKinds) /\ Grows(js, js \o new)
           /\ \A k \in DOMAIN new : \E j \in DOMAIN (js \o new) : (js \o new)[j] = new[k]
<1>1. js \o new \in Seq(JobKinds) /\ Len(js \o new) = Len(js) + Len(new)
  OBVIOUS
<1>2. \A j \in 1 .. Len(js) : (js \o new)[j] = js[j]
  OBVIOUS
<1>3. DOMAIN js = 1 .. Len(js) /\ DOMAIN new = 1 .. Len(new) /\ DOMAIN (js \o new) = 1 .. Len(js) + Len(new)
  BY <1>1
<1>4. Len(js) \in Nat /\ Len(new) \in Nat
  OBVIOUS
<1>5. Grows(js, js \o new)
  BY <1>2, <1>3, <1>4 DEF Grows
<1>6. ASSUME NEW k \in DOMAIN new PROVE \E j \in DOMAIN (js \o new) : (js \o new)[j] = new[k]
  <2>1. Len(js) + k \in DOMAIN (js \o new)
    BY <1>3, <1>4
  <2>2. (js \o new)[Len(js) + k] = new[k]
    BY <1>3, <1>4
  <2> QED
    BY <2>1, <2>2
<1> QED
  BY <1>1, <1>5, <1>6

--------------------------------------------------------------------------------
(* What a step has to show. *)

LEMMA HandlersAre ==
    ASSUME UploadTypes
    PROVE  /\ DOMAIN runs = 1 .. Len(runs) /\ Len(runs) \in Nat
           /\ \A r \in DOMAIN runs : runs[r] \in HandlerKinds
BY DEF UploadTypes

\* One handler goes on.
LEMMA HandlerGoesOn ==
    ASSUME UploadsInv, UploadTypes', Grows(jobs, jobs'),
           NEW r \in DOMAIN runs, NEW h, runs' = [runs EXCEPT ![r] = h], Suits(jobs', h),
           \A row \in rows' : row.id[1] # 0 => \/ row \in rows /\ row.id[1] # r
                                               \/ row.id[1] = r /\ Owned(row, h)
    PROVE  UploadsInv'
<1>1. DOMAIN runs' = DOMAIN runs /\ runs'[r] = h /\ \A x \in DOMAIN runs : x # r => runs'[x] = runs[x]
  BY HandlersAre DEF UploadsInv
<1>2. ASSUME NEW x \in DOMAIN runs' PROVE Suits(jobs', runs'[x])
  <2>1. CASE x = r
    BY <1>1, <2>1
  <2>2. CASE x # r
    <3>1. Suits(jobs, runs[x])
      BY <1>1 DEF UploadsInv
    <3> QED
      BY <1>1, <2>2, <3>1, SuitsGrows
  <2> QED
    BY <2>1, <2>2
<1>3. ASSUME NEW row \in rows', row.id[1] # 0
      PROVE  row.id[1] \in DOMAIN runs' /\ Owned(row, runs'[row.id[1]])
  <2>1. CASE row.id[1] = r
    BY <1>1, <1>3, <2>1
  <2>2. CASE row.id[1] # r
    <3>1. row \in rows
      BY <1>3, <2>2
    <3>2. row.id[1] \in DOMAIN runs /\ Owned(row, runs[row.id[1]])
      BY <1>3, <3>1 DEF UploadsInv
    <3> QED
      BY <1>1, <2>2, <3>2
  <2> QED
    BY <2>1, <2>2
<1> QED
  BY <1>2, <1>3 DEF UploadsInv

\* No handler goes on.
LEMMA HandlersStay ==
    ASSUME UploadsInv, UploadTypes', Grows(jobs, jobs'), runs' = runs, rows' \subseteq rows
    PROVE  UploadsInv'
<1>1. \A r \in DOMAIN runs' : Suits(jobs', runs'[r])
  BY SuitsGrows DEF UploadsInv
<1>2. \A row \in rows' : row.id[1] # 0 => row.id[1] \in DOMAIN runs' /\ Owned(row, runs'[row.id[1]])
  BY DEF UploadsInv
<1> QED
  BY <1>1, <1>2 DEF UploadsInv

\* A handler begins.
LEMMA HandlerBegins ==
    ASSUME UploadsInv, UploadTypes', jobs' = jobs, rows' = rows,
           NEW old, Len(old) = Len(runs), old \in Seq(HandlerKinds), NEW h, runs' = Append(old, h), Suits(jobs, h),
           \A r \in DOMAIN runs : Suits(jobs, old[r]),
           \A row \in rows : row.id[1] # 0 => Owned(row, old[row.id[1]])
    PROVE  UploadsInv'
<1>1. DOMAIN runs = 1 .. Len(runs) /\ Len(runs) \in Nat
  BY HandlersAre DEF UploadsInv
<1>2. DOMAIN runs' = 1 .. Len(runs) + 1 /\ runs'[Len(runs) + 1] = h
  BY <1>1
<1>3. \A r \in 1 .. Len(runs) : runs'[r] = old[r]
  BY <1>1
<1>4. ASSUME NEW r \in DOMAIN runs' PROVE Suits(jobs', runs'[r])
  <2>1. CASE r = Len(runs) + 1
    BY <1>2, <2>1
  <2>2. CASE r # Len(runs) + 1
    <3>1. r \in DOMAIN runs
      BY <1>1, <1>2, <2>2
    <3> QED
      BY <1>1, <1>3, <3>1
  <2> QED
    BY <2>1, <2>2
<1>5. ASSUME NEW row \in rows', row.id[1] # 0
      PROVE  row.id[1] \in DOMAIN runs' /\ Owned(row, runs'[row.id[1]])
  <2>1. row.id[1] \in DOMAIN runs /\ Owned(row, old[row.id[1]])
    BY <1>5 DEF UploadsInv
  <2>2. row.id[1] \in DOMAIN runs' /\ runs'[row.id[1]] = old[row.id[1]]
    BY <1>1, <1>2, <1>3, <2>1
  <2> QED
    BY <2>1, <2>2
<1> QED
  BY <1>4, <1>5 DEF UploadsInv

\* The panel hears as before of jobs that have become no fewer.
LEMMA PanelGrows ==
    ASSUME PanelTypes, Grows(jobs, jobs'), UNCHANGED <<open, seed, fetched, poll, clearing>>,
           rows' \subseteq RowKinds
    PROVE  PanelTypes'
BY DEF PanelTypes, Grows

--------------------------------------------------------------------------------
(* Handlers that begin. *)

LEMMA HandlerSuits ==
    ASSUME NEW b \in Seq(Entries), NEW js
    PROVE  Handler(b) \in HandlerKinds /\ Suits(js, Handler(b))
<1> DEFINE up == OfKind(b, "upload")
           ocr == OfKind(b, "ocr")
           tra == OfKind(b, "transcribe")
           g == Groups(up)
           h == Handler(b)
<1>1. /\ up \in Seq(Entries) /\ \A k \in DOMAIN up : up[k].kind = "upload"
      /\ \A e \in Range(b) : e.kind = "upload" => e \in Range(up)
  BY KindFacts
<1>2. ocr \in Seq(Entries) /\ tra \in Seq(Entries)
  BY KindFacts
<1>3. \A e \in Range(b) : (e.kind = "ocr" => e \in Range(ocr)) /\ (e.kind = "transcribe" => e \in Range(tra))
  BY KindFacts
<1> HIDE DEF up, ocr, tra
<1>4. /\ g \in Seq(Seq(Nat))
      /\ \A n \in DOMAIN g : /\ g[n] # <<>>
                             /\ \A k \in DOMAIN g[n] : g[n][k] \in DOMAIN up /\ up[g[n][k]].folder = up[g[n][1]].folder
      /\ \A i \in DOMAIN up : \E n \in DOMAIN g : \E k \in DOMAIN g[n] : g[n][k] = i
  BY <1>1, GroupFacts
<1> HIDE DEF g
<1>5. /\ h.step = (IF up = <<>> THEN "scan" ELSE "seed") /\ h.batch = b /\ h.uploads = up /\ h.groups = g
      /\ h.single = <<>> /\ h.ids = <<>> /\ h.scans = ocr \o tra /\ h.answer = Nothing
      /\ h.told = {} /\ h.gone = FALSE
  BY DEF Handler, up, ocr, tra, g
<1>6. h = [step |-> IF up = <<>> THEN "scan" ELSE "seed", batch |-> b, uploads |-> up,
           groups |-> g, single |-> <<>>, ids |-> <<>>, scans |-> ocr \o tra,
           answer |-> Nothing, told |-> {}, gone |-> FALSE]
  BY DEF Handler, up, ocr, tra, g
<1>7. h \in HandlerKinds
  <2>1. ocr \o tra \in Seq(Entries) /\ <<>> \in Seq(Nat)
    BY <1>2
  <2> QED
    BY <1>1, <1>4, <1>6, <2>1 DEF HandlerKinds
<1> HIDE DEF h
<1>8. up = <<>> => g = <<>>
  <2>1. SUFFICES ASSUME up = <<>>, g # <<>> PROVE FALSE
    OBVIOUS
  <2>2. 1 \in DOMAIN g /\ g[1] # <<>> /\ g[1] \in Seq(Nat)
    BY <1>4, <2>1
  <2>3. 1 \in DOMAIN g[1]
    BY <2>2
  <2>4. g[1][1] \in DOMAIN up
    BY <1>4, <2>2, <2>3
  <2> QED
    BY <2>1, <2>4
<1>9. \A i \in DOMAIN up : Due(h, i)
  BY <1>4, <1>5 DEF Due
<1>10. ASSUME NEW e \in Range(b)
       PROVE  e \in Range(ocr \o tra) \/ \E i \in DOMAIN up : up[i] = e
  <2>1. e \in Entries
    BY DEF Range
  <2>2. CASE e.kind = "upload"
    BY <1>1, <2>2 DEF Range
  <2>3. CASE e.kind = "ocr"
    <3>1. PICK k \in DOMAIN ocr : ocr[k] = e
      BY <1>3, <2>3 DEF Range
    <3>2. k \in DOMAIN (ocr \o tra) /\ (ocr \o tra)[k] = e
      BY <1>2, <3>1
    <3> QED
      BY <3>2 DEF Range
  <2>4. CASE e.kind = "transcribe"
    <3>1. PICK k \in DOMAIN tra : tra[k] = e
      BY <1>3, <2>4 DEF Range
    <3>2. Len(ocr) + k \in DOMAIN (ocr \o tra) /\ (ocr \o tra)[Len(ocr) + k] = e
      BY <1>2, <3>1
    <3> QED
      BY <3>2 DEF Range
  <2> QED
    BY <2>1, <2>2, <2>3, <2>4 DEF Entries, Uses
<1>11. Suits(js, h)
  BY <1>1, <1>4, <1>5, <1>8, <1>9, <1>10 DEF Suits
<1> QED
  BY <1>7, <1>11 DEF h

LEMMA MountSuits ==
    ASSUME NEW asks, NEW js
    PROVE  Mount(asks) \in HandlerKinds /\ Suits(js, Mount(asks))
<1>1. Mount(asks) \in HandlerKinds
  BY DEF Mount, HandlerKinds
<1>2. Suits(js, Mount(asks))
  BY DEF Mount, Suits, Range
<1> QED
  BY <1>1, <1>2

--------------------------------------------------------------------------------
(* Steps in which no handler goes on. *)

LEMMA SpendTypes ==
    ASSUME left \in Lefts, NEW what \in {"picks", "faults", "clears", "clicks", "leaves"}, Spend(what)
    PROVE  left' \in Lefts
BY DEF Spend, Lefts

LEMMA ListingFacts ==
    ASSUME UploadTypes
    PROVE  Listing \in Heards /\ DOMAIN Listing \subseteq DOMAIN jobs
<1>1. DOMAIN jobs = 1 .. Len(jobs) /\ \A j \in DOMAIN jobs : jobs[j] \in JobKinds
  BY DEF UploadTypes
<1> DEFINE d == {k \in DOMAIN jobs : jobs[k].listed}
<1>2. d \in SUBSET Nat /\ DOMAIN Listing = d
  BY <1>1 DEF Listing
<1>3. Listing \in [d -> Statuses]
  BY <1>1 DEF Listing, JobKinds
<1> QED
  BY <1>2, <1>3 DEF Heards

LEMMA GrowsItself == Grows(jobs, jobs)
BY DEF Grows

LEMMA RunningFacts ==
    ASSUME NEW list \in Heards
    PROVE  Running(list) \in Heards /\ DOMAIN Running(list) \subseteq DOMAIN list
<1>1. PICK d \in SUBSET Nat : list \in [d -> Statuses]
  BY DEF Heards
<1> DEFINE e == {k \in DOMAIN list : list[k] = "running"}
<1>2. e \in SUBSET Nat /\ Running(list) \in [e -> Statuses] /\ DOMAIN Running(list) = e
  BY <1>1 DEF Running, Statuses
<1> QED
  BY <1>2 DEF Heards

LEMMA PickStep ==
    ASSUME UploadsInv, NEW b \in left.batches, Pick(b)
    PROVE  UploadsInv'
<1>1. left \in Lefts /\ b \in Seq(Entries)
  BY DEF UploadsInv, UploadTypes, Lefts
<1>2. left' \in Lefts
  BY <1>1, SpendTypes DEF Pick
<1>3. PanelTypes'
  BY PanelGrows, GrowsItself DEF Pick, tracker, UploadsInv, UploadTypes, PanelTypes
<1>4. UploadTypes'
  BY <1>1, <1>2, <1>3 DEF Pick, tracker, UploadsInv, UploadTypes
<1> QED
  BY <1>4, GrowsItself, HandlersStay DEF Pick, tracker

LEMMA DialogStep ==
    ASSUME UploadsInv, Dismiss \/ \E b \in preparing : Prepared(b)
    PROVE  UploadsInv'
<1>1. UNCHANGED <<jobs, runs, tracker, left>> /\ UploadTypes'
  <2>1. CASE Dismiss
    <3>1. PanelTypes'
      BY <2>1, PanelGrows, GrowsItself DEF Dismiss, tracker, UploadsInv, UploadTypes, PanelTypes
    <3> QED
      BY <2>1, <3>1 DEF Dismiss, tracker, UploadsInv, UploadTypes
  <2>2. CASE \E b \in preparing : Prepared(b)
    <3>1. PanelTypes'
      BY <2>2, PanelGrows, GrowsItself DEF Prepared, tracker, UploadsInv, UploadTypes, PanelTypes
    <3> QED
      BY <2>2, <3>1 DEF Prepared, tracker, UploadsInv, UploadTypes
  <2> QED
    BY <2>1, <2>2
<1> QED
  BY <1>1, GrowsItself, HandlersStay DEF tracker

LEMMA ToggleStep ==
    ASSUME UploadsInv, Toggle
    PROVE  UploadsInv'
<1>1. left' \in Lefts
  BY SpendTypes DEF Toggle, UploadsInv, UploadTypes
<1>2. UploadTypes'
  BY <1>1 DEF Toggle, batch, UploadsInv, UploadTypes, PanelTypes
<1> QED
  BY <1>2, GrowsItself, HandlersStay DEF Toggle

LEMMA ClearStep ==
    ASSUME UploadsInv, NEW scope \in {"done", "all"}, Clear(scope)
    PROVE  UploadsInv'
<1>1. left' \in Lefts
  BY SpendTypes DEF Clear, UploadsInv, UploadTypes
<1>2. DOMAIN jobs = 1 .. Len(jobs) /\ Len(jobs) \in Nat /\ \A j \in DOMAIN jobs : jobs[j] \in JobKinds
  BY DEF UploadsInv, UploadTypes
<1>3. /\ DOMAIN jobs' = DOMAIN jobs
      /\ \A j \in DOMAIN jobs : jobs'[j] = [jobs[j] EXCEPT !.listed = @ /\ scope = "done" /\ jobs[j].status = "running"]
  BY DEF Clear
<1>4. \A j \in DOMAIN jobs : jobs'[j] \in JobKinds /\ jobs'[j].name = jobs[j].name /\ jobs'[j].folder = jobs[j].folder
  <2> SUFFICES ASSUME NEW j \in DOMAIN jobs
               PROVE  jobs'[j] \in JobKinds /\ jobs'[j].name = jobs[j].name /\ jobs'[j].folder = jobs[j].folder
    OBVIOUS
  <2> DEFINE l == jobs[j].listed /\ scope = "done" /\ jobs[j].status = "running"
  <2>1. jobs'[j] = [jobs[j] EXCEPT !.listed = l] /\ jobs[j] \in JobKinds
    BY <1>2, <1>3
  <2>2. l \in BOOLEAN
    OBVIOUS
  <2> HIDE DEF l
  <2> QED
    BY <2>1, <2>2 DEF JobKinds
<1>5. jobs' \in Seq(JobKinds)
  <2>1. jobs' = [j \in 1 .. Len(jobs) |-> jobs'[j]]
    BY <1>2 DEF Clear
  <2> QED
    BY <1>2, <1>4, <2>1
<1>6. Grows(jobs, jobs')
  BY <1>3, <1>4 DEF Grows
<1>7. PanelTypes'
  BY <1>3 DEF Clear, UploadsInv, UploadTypes, PanelTypes
<1>8. UploadTypes'
  BY <1>1, <1>5, <1>7 DEF Clear, batch, UploadsInv, UploadTypes
<1> QED
  BY <1>6, <1>8, HandlersStay DEF Clear

LEMMA JobEndsStep ==
    ASSUME UploadsInv, NEW j \in DOMAIN jobs, JobEnds(j)
    PROVE  UploadsInv'
<1>1. jobs \in Seq(JobKinds) /\ jobs[j] \in JobKinds
  BY DEF UploadsInv, UploadTypes
<1>2. PICK status \in {"done", "error"} : jobs' = [jobs EXCEPT ![j] = [jobs[j] EXCEPT !.status = status]]
  BY DEF JobEnds
<1>3. [jobs[j] EXCEPT !.status = status] \in JobKinds
  BY <1>1 DEF JobKinds, Statuses
<1>4. jobs' \in Seq(JobKinds)
  BY <1>1, <1>2, <1>3
<1>5. Grows(jobs, jobs')
  BY <1>1, <1>2 DEF Grows, JobKinds
<1>6. PanelTypes'
  BY <1>5, PanelGrows DEF JobEnds, tracker, UploadsInv, UploadTypes, PanelTypes
<1>7. UploadTypes'
  BY <1>4, <1>6 DEF JobEnds, batch, UploadsInv, UploadTypes
<1> QED
  BY <1>5, <1>7, HandlersStay DEF JobEnds, tracker

LEMMA PollStep ==
    ASSUME UploadsInv, AskJobs \/ ShowJobs \/ LoseJobs
    PROVE  UploadsInv'
<1>1. CASE AskJobs
  <2>1. Listing \in Heards /\ DOMAIN Listing \subseteq DOMAIN jobs
    BY ListingFacts DEF UploadsInv
  <2>2. UploadTypes'
    BY <1>1, <2>1 DEF AskJobs, batch, UploadsInv, UploadTypes, PanelTypes
  <2> QED
    BY <1>1, <2>2, GrowsItself, HandlersStay DEF AskJobs
<1>2. CASE ShowJobs
  <2>1. UploadTypes'
    BY <1>2 DEF ShowJobs, batch, UploadsInv, UploadTypes, PanelTypes
  <2> QED
    BY <1>2, <2>1, GrowsItself, HandlersStay DEF ShowJobs
<1>3. CASE LoseJobs
  <2>1. left' \in Lefts
    BY <1>3, SpendTypes DEF LoseJobs, UploadsInv, UploadTypes
  <2>2. UploadTypes'
    BY <1>3, <2>1 DEF LoseJobs, batch, UploadsInv, UploadTypes, PanelTypes
  <2> QED
    BY <1>3, <2>2, GrowsItself, HandlersStay DEF LoseJobs
<1> QED
  BY <1>1, <1>2, <1>3

LEMMA ClearedStep ==
    ASSUME UploadsInv, Cleared \/ LoseClear
    PROVE  UploadsInv'
<1>1. CASE Cleared
  <2>1. seed \in Heards /\ fetched \in Heards /\ DOMAIN seed \subseteq DOMAIN jobs /\ DOMAIN fetched \subseteq DOMAIN jobs
    BY DEF UploadsInv, UploadTypes, PanelTypes
  <2>2. /\ Running(seed) \in Heards /\ DOMAIN Running(seed) \subseteq DOMAIN jobs
        /\ Running(fetched) \in Heards /\ DOMAIN Running(fetched) \subseteq DOMAIN jobs
    BY <2>1, RunningFacts
  <2>3. <<>> \in Heards /\ DOMAIN <<>> = {}
    BY DEF Heards
  <2>4. /\ seed' \in Heards /\ DOMAIN seed' \subseteq DOMAIN jobs
        /\ fetched' \in Heards /\ DOMAIN fetched' \subseteq DOMAIN jobs
        /\ rows' \subseteq rows
    <3>1. CASE clearing = "all"
      BY <1>1, <2>3, <3>1 DEF Cleared
    <3>2. CASE clearing # "all"
      BY <1>1, <2>2, <3>2 DEF Cleared
    <3> QED
      BY <3>1, <3>2
  <2>5. PanelTypes'
    BY <1>1, <2>4 DEF Cleared, UploadsInv, UploadTypes, PanelTypes
  <2>6. UploadTypes'
    BY <1>1, <2>5 DEF Cleared, batch, UploadsInv, UploadTypes
  <2> QED
    BY <1>1, <2>4, <2>6, GrowsItself, HandlersStay DEF Cleared
<1>2. CASE LoseClear
  <2>1. left' \in Lefts
    BY <1>2, SpendTypes DEF LoseClear, UploadsInv, UploadTypes
  <2>2. UploadTypes'
    BY <1>2, <2>1 DEF LoseClear, batch, UploadsInv, UploadTypes, PanelTypes
  <2> QED
    BY <1>2, <2>2, GrowsItself, HandlersStay DEF LoseClear
<1> QED
  BY <1>1, <1>2

LEMMA IdleUploads ==
    ASSUME UploadsInv, UNCHANGED uploadsVars
    PROVE  UploadsInv'
<1>1. UploadTypes'
  BY DEF uploadsVars, batch, tracker, UploadsInv, UploadTypes, PanelTypes
<1> QED
  BY <1>1, GrowsItself, HandlersStay DEF uploadsVars, batch, tracker

--------------------------------------------------------------------------------
(* A batch is confirmed; the page is left. *)

LEMMA ConfirmStep ==
    ASSUME UploadsInv, Confirm
    PROVE  UploadsInv'
<1>1. PanelTypes'
  BY PanelGrows, GrowsItself DEF Confirm, tracker, UploadsInv, UploadTypes, PanelTypes
<1>2. CASE pending = <<>>
  <2>1. UploadTypes'
    BY <1>1, <1>2 DEF Confirm, tracker, UploadsInv, UploadTypes
  <2> QED
    BY <1>2, <2>1, GrowsItself, HandlersStay DEF Confirm, tracker
<1>3. CASE pending # <<>>
  <2>1. Handler(pending) \in HandlerKinds /\ Suits(jobs, Handler(pending))
    BY HandlerSuits DEF UploadsInv, UploadTypes
  <2>2. runs' = Append(runs, Handler(pending)) /\ runs \in Seq(HandlerKinds)
    BY <1>3 DEF Confirm, UploadsInv, UploadTypes
  <2>3. runs' \in Seq(HandlerKinds) /\ uploading' \in BOOLEAN
    BY <1>3, <2>1, <2>2 DEF Confirm
  <2>4. UploadTypes'
    BY <1>1, <2>3 DEF Confirm, tracker, UploadsInv, UploadTypes
  <2>5. jobs' = jobs /\ rows' = rows
    BY DEF Confirm, tracker
  <2>6. /\ \A r \in DOMAIN runs : Suits(jobs, runs[r])
        /\ \A row \in rows : row.id[1] # 0 => Owned(row, runs[row.id[1]])
    BY DEF UploadsInv
  <2> QED
    BY <2>1, <2>2, <2>4, <2>5, <2>6, HandlerBegins
<1> QED
  BY <1>2, <1>3

LEMMA LeftSuits ==
    ASSUME NEW h \in HandlerKinds, NEW js, Suits(js, h), NEW cut \in BOOLEAN
    PROVE  LET g == [h EXCEPT !.gone = TRUE, !.step = IF cut /\ @ # "end" THEN "cut" ELSE @]
           IN  g \in HandlerKinds /\ Suits(js, g) /\ g.gone
<1> DEFINE s == IF cut /\ h.step # "end" THEN "cut" ELSE h.step
           g == [h EXCEPT !.gone = TRUE, !.step = s]
<1>1. s \in {"seed", "seeded", "send", "single", "scan", "end", "cut"} /\ (s = "cut" \/ s = h.step)
  BY DEF HandlerKinds
<1> HIDE DEF s
<1>2. /\ g \in HandlerKinds /\ g.gone = TRUE /\ g.step = s
      /\ g.batch = h.batch /\ g.uploads = h.uploads /\ g.groups = h.groups /\ g.single = h.single
      /\ g.ids = h.ids /\ g.scans = h.scans /\ g.answer = h.answer /\ g.told = h.told
  BY <1>1 DEF HandlerKinds
<1> HIDE DEF g
<1>3. Suits(js, g)
  <2>1. \A i : Due(g, i) <=> Due(h, i)
    BY <1>2 DEF Due
  <2>2. OneByOne(js, g) <=> OneByOne(js, h)
    BY <1>2 DEF OneByOne
  <2>3. g.step # "cut" => g.step = h.step
    BY <1>1, <1>2
  <2>4. \A e \in Range(g.batch) :
            \/ e \in g.told \/ With(js, e) \/ e \in Range(g.scans)
            \/ \E i \in DOMAIN g.uploads : Due(g, i) /\ g.uploads[i] = e
    BY <1>2, <2>1 DEF Suits
  <2>5. /\ \A i \in DOMAIN g.uploads : g.uploads[i].kind = "upload"
        /\ \A n \in DOMAIN g.groups :
              /\ g.groups[n] # <<>>
              /\ \A k \in DOMAIN g.groups[n] :
                    /\ g.groups[n][k] \in DOMAIN g.uploads
                    /\ g.uploads[g.groups[n][k]].folder = g.uploads[g.groups[n][1]].folder
        /\ g.answer # Nothing => DOMAIN g.answer \subseteq DOMAIN js
    BY <1>2 DEF Suits
  <2>6. /\ g.step \in {"seed", "seeded", "send"} => g.ids = <<>>
        /\ g.step \in {"seed", "seeded"} => \A i \in DOMAIN g.uploads : Due(g, i)
        /\ g.step = "single" => OneByOne(js, g)
        /\ g.step = "scan" => g.groups = <<>>
        /\ g.step = "end" => g.batch = <<>> \/ (g.groups = <<>> /\ g.scans = <<>>)
    BY <1>2, <2>1, <2>2, <2>3 DEF Suits
  <2> QED
    BY <2>4, <2>5, <2>6 DEF Suits
<1> QED
  BY <1>2, <1>3 DEF g, s

LEMMA LeaveStep ==
    ASSUME UploadsInv, Leave
    PROVE  UploadsInv'
<1> DEFINE Away(h) == [h EXCEPT !.gone = TRUE, !.step = IF left.reload /\ @ # "end" THEN "cut" ELSE @]
           old == [r \in DOMAIN runs |-> Away(runs[r])]
<1>1. left \in Lefts /\ left.reload \in BOOLEAN /\ DOMAIN runs = 1 .. Len(runs) /\ Len(runs) \in Nat
  BY HandlersAre DEF UploadsInv, UploadTypes, Lefts
<1>2. ASSUME NEW r \in DOMAIN runs
      PROVE  old[r] \in HandlerKinds /\ Suits(jobs, old[r]) /\ old[r].gone
  <2>1. runs[r] \in HandlerKinds /\ Suits(jobs, runs[r])
    BY HandlersAre DEF UploadsInv
  <2>2. old[r] = Away(runs[r])
    OBVIOUS
  <2> QED
    BY <1>1, <2>1, <2>2, LeftSuits
<1>3. runs' = Append(old, Mount(open))
  BY DEF Leave
<1>4. DOMAIN old = 1 .. Len(runs)
  BY <1>1
<1>5. old = [r \in 1 .. Len(runs) |-> old[r]]
  BY <1>1
<1> HIDE DEF old
<1>6. old \in Seq(HandlerKinds) /\ Len(old) = Len(runs)
  BY <1>1, <1>2, <1>4, <1>5
<1>7. Mount(open) \in HandlerKinds /\ Suits(jobs, Mount(open))
  BY MountSuits
<1>8. left' \in Lefts
  BY <1>1, SpendTypes DEF Leave
<1>9. PanelTypes'
  <2>1. <<>> \in Heards /\ DOMAIN <<>> = {}
    BY DEF Heards
  <2> QED
    BY <2>1 DEF Leave, UploadsInv, UploadTypes, PanelTypes
<1>10. UploadTypes'
  <2>1. runs' \in Seq(HandlerKinds)
    BY <1>3, <1>6, <1>7
  <2>2. /\ jobs' \in Seq(JobKinds) /\ pending' \in Seq(Entries) /\ preparing' \subseteq Seq(Entries)
        /\ computing' \in BOOLEAN /\ confirm' \in BOOLEAN /\ uploading' \in BOOLEAN
    <3>1. /\ jobs' = jobs /\ pending' = <<>> /\ preparing' = {}
          /\ computing' = FALSE /\ confirm' = FALSE /\ uploading' = FALSE
      BY DEF Leave
    <3>2. <<>> \in Seq(Entries) /\ {} \subseteq Seq(Entries)
      OBVIOUS
    <3>3. jobs \in Seq(JobKinds)
      BY DEF UploadsInv, UploadTypes
    <3> QED
      BY <3>1, <3>2, <3>3
  <2> QED
    BY <1>8, <1>9, <2>1, <2>2 DEF UploadTypes
<1>11. \A row \in rows : row.id[1] # 0 => Owned(row, old[row.id[1]])
  BY <1>2 DEF UploadsInv, Owned
<1>12. jobs' = jobs /\ rows' = rows
  BY DEF Leave
<1> QED
  BY <1>2, <1>3, <1>6, <1>7, <1>10, <1>11, <1>12, HandlerBegins

--------------------------------------------------------------------------------
(* Steps of a handler. *)

LEMMA HandlerTypes ==
    ASSUME UploadTypes, NEW r \in DOMAIN runs, NEW h \in HandlerKinds, runs' = [runs EXCEPT ![r] = h],
           jobs' \in Seq(JobKinds), UNCHANGED <<preparing, computing, confirm>>,
           pending' \in Seq(Entries), uploading' \in BOOLEAN, PanelTypes', left' \in Lefts
    PROVE  UploadTypes'
<1>1. runs' \in Seq(HandlerKinds)
  BY DEF UploadTypes
<1>2. preparing' \subseteq Seq(Entries) /\ computing' \in BOOLEAN /\ confirm' \in BOOLEAN
  BY DEF UploadTypes
<1> QED
  BY <1>1, <1>2 DEF UploadTypes

\* A handler that sent nothing and dropped nothing.
LEMMA SuitsFrom ==
    ASSUME NEW js, NEW h, NEW g, Suits(js, h),
           g.batch = h.batch, g.uploads = h.uploads, g.groups = h.groups, g.scans = h.scans, g.told = h.told,
           g.step \in {"seed", "seeded", "send"} => g.ids = <<>>,
           g.step \in {"seed", "seeded"} => h.step \in {"seed", "seeded"},
           g.step = "single" => OneByOne(js, g),
           g.step = "scan" => g.groups = <<>>,
           g.step = "end" => g.batch = <<>> \/ (g.groups = <<>> /\ g.scans = <<>>),
           g.answer # Nothing => DOMAIN g.answer \subseteq DOMAIN js
    PROVE  Suits(js, g)
<1>1. \A i : Due(g, i) <=> Due(h, i)
  BY DEF Due
<1>2. \A e \in Range(g.batch) :
          \/ e \in g.told \/ With(js, e) \/ e \in Range(g.scans)
          \/ \E i \in DOMAIN g.uploads : Due(g, i) /\ g.uploads[i] = e
  BY <1>1 DEF Suits
<1>3. /\ \A i \in DOMAIN g.uploads : g.uploads[i].kind = "upload"
      /\ \A n \in DOMAIN g.groups :
            /\ g.groups[n] # <<>>
            /\ \A k \in DOMAIN g.groups[n] :
                  /\ g.groups[n][k] \in DOMAIN g.uploads
                  /\ g.uploads[g.groups[n][k]].folder = g.uploads[g.groups[n][1]].folder
  BY DEF Suits
<1>4. g.step \in {"seed", "seeded"} => \A i \in DOMAIN g.uploads : Due(g, i)
  BY <1>1 DEF Suits
<1> QED
  BY <1>2, <1>3, <1>4 DEF Suits

\* A group is with the service.
LEMMA SuitsSent ==
    ASSUME NEW js, NEW h \in HandlerKinds, NEW g, Suits(js, h), h.groups # <<>>,
           \A k \in DOMAIN Head(h.groups) : With(js, h.uploads[Head(h.groups)[k]]),
           g.batch = h.batch, g.uploads = h.uploads, g.groups = Tail(h.groups), g.scans = h.scans,
           g.told = h.told, g.step = "send", g.ids = <<>>, g.answer = h.answer
    PROVE  /\ Suits(js, g)
           /\ \A i : Due(h, i) => Due(g, i) \/ \E k \in DOMAIN Head(h.groups) : Head(h.groups)[k] = i
<1>1. h.groups \in Seq(Seq(Nat)) /\ DOMAIN h.groups = 1 .. Len(h.groups) /\ Len(h.groups) \in Nat
  BY DEF HandlerKinds
<1>2. /\ DOMAIN g.groups = 1 .. Len(h.groups) - 1
      /\ \A n \in DOMAIN g.groups : n + 1 \in DOMAIN h.groups /\ g.groups[n] = h.groups[n + 1]
  BY <1>1
<1>3. Head(h.groups) = h.groups[1]
  BY <1>1
<1>4. ASSUME NEW i, Due(h, i)
      PROVE  Due(g, i) \/ \E k \in DOMAIN Head(h.groups) : Head(h.groups)[k] = i
  <2>1. PICK n \in DOMAIN h.groups : \E k \in DOMAIN h.groups[n] : h.groups[n][k] = i
    BY <1>4 DEF Due
  <2>2. CASE n = 1
    BY <1>3, <2>1, <2>2
  <2>3. CASE n # 1
    <3>1. n - 1 \in DOMAIN g.groups /\ (n - 1) + 1 = n
      BY <1>1, <1>2, <2>3
    <3>2. g.groups[n - 1] = h.groups[n]
      BY <1>2, <3>1
    <3> QED
      BY <2>1, <3>1, <3>2 DEF Due
  <2> QED
    BY <2>2, <2>3
<1>5. \A n \in DOMAIN g.groups :
          /\ g.groups[n] # <<>>
          /\ \A k \in DOMAIN g.groups[n] :
                /\ g.groups[n][k] \in DOMAIN g.uploads
                /\ g.uploads[g.groups[n][k]].folder = g.uploads[g.groups[n][1]].folder
  BY <1>2 DEF Suits
<1>6. ASSUME NEW e \in Range(g.batch)
      PROVE  \/ e \in g.told \/ With(js, e) \/ e \in Range(g.scans)
             \/ \E i \in DOMAIN g.uploads : Due(g, i) /\ g.uploads[i] = e
  <2>1. \/ e \in h.told \/ With(js, e) \/ e \in Range(h.scans)
        \/ \E i \in DOMAIN h.uploads : Due(h, i) /\ h.uploads[i] = e
    BY <1>6 DEF Suits
  <2>2. CASE \E i \in DOMAIN h.uploads : Due(h, i) /\ h.uploads[i] = e
    <3>1. PICK i \in DOMAIN h.uploads : Due(h, i) /\ h.uploads[i] = e
      BY <2>2
    <3> QED
      BY <1>4, <3>1
  <2> QED
    BY <2>1, <2>2
<1>7. /\ \A i \in DOMAIN g.uploads : g.uploads[i].kind = "upload"
      /\ g.answer # Nothing => DOMAIN g.answer \subseteq DOMAIN js
  BY DEF Suits
<1>8. Suits(js, g)
  BY <1>5, <1>6, <1>7 DEF Suits
<1> QED
  BY <1>4, <1>8

\* The batch failed: the user is told of all its uploads.
LEMMA SuitsFailed ==
    ASSUME NEW js, NEW h, NEW g, Suits(js, h),
           g.batch = h.batch, g.uploads = h.uploads, g.groups = <<>>, g.scans = h.scans,
           g.told = h.told \cup Range(h.uploads), g.step = "scan", g.answer = h.answer
    PROVE  Suits(js, g)
<1>1. ASSUME NEW e \in Range(g.batch)
      PROVE  e \in g.told \/ With(js, e) \/ e \in Range(g.scans)
  <2>1. \/ e \in h.told \/ With(js, e) \/ e \in Range(h.scans)
        \/ \E i \in DOMAIN h.uploads : Due(h, i) /\ h.uploads[i] = e
    BY <1>1 DEF Suits
  <2>2. (\E i \in DOMAIN h.uploads : Due(h, i) /\ h.uploads[i] = e) => e \in Range(h.uploads)
    BY DEF Range
  <2> QED
    BY <2>1, <2>2
<1>2. /\ \A i \in DOMAIN g.uploads : g.uploads[i].kind = "upload"
      /\ g.answer # Nothing => DOMAIN g.answer \subseteq DOMAIN js
  BY DEF Suits
<1> QED
  BY <1>1, <1>2 DEF Suits

\* A picture or a recording is with the service, or the user was told that it is not.
LEMMA SuitsScanned ==
    ASSUME NEW js, NEW h \in HandlerKinds, NEW g, Suits(js, h), h.scans # <<>>, h.step = "scan",
           With(js, Head(h.scans)) \/ Head(h.scans) \in g.told,
           g.batch = h.batch, g.uploads = h.uploads, g.groups = h.groups, g.scans = Tail(h.scans),
           h.told \subseteq g.told, g.step = "scan", g.answer = h.answer
    PROVE  Suits(js, g)
<1>1. h.groups = <<>> /\ h.scans \in Seq(Entries)
  BY DEF Suits, HandlerKinds
<1>2. \A i : ~Due(h, i)
  BY <1>1 DEF Due
<1>3. ASSUME NEW e \in Range(g.batch)
      PROVE  e \in g.told \/ With(js, e) \/ e \in Range(g.scans)
  <2>1. e \in h.told \/ With(js, e) \/ e \in Range(h.scans)
    BY <1>2, <1>3 DEF Suits
  <2>2. CASE e \in Range(h.scans)
    <3>1. PICK k \in DOMAIN h.scans : h.scans[k] = e
      BY <2>2 DEF Range
    <3>2. CASE k = 1
      BY <1>1, <3>1, <3>2
    <3>3. CASE k # 1
      <4>1. k - 1 \in DOMAIN Tail(h.scans) /\ Tail(h.scans)[k - 1] = e
        BY <1>1, <3>1, <3>3
      <4> QED
        BY <4>1 DEF Range
    <3> QED
      BY <3>2, <3>3
  <2> QED
    BY <2>1, <2>2
<1>4. /\ \A i \in DOMAIN g.uploads : g.uploads[i].kind = "upload"
      /\ g.answer # Nothing => DOMAIN g.answer \subseteq DOMAIN js
  BY DEF Suits
<1> QED
  BY <1>1, <1>3, <1>4 DEF Suits

\* The rows of a handler that leaves them alone.
LEMMA OwnedStill ==
    ASSUME UploadsInv, NEW r \in DOMAIN runs, NEW h, h.gone = runs[r].gone,
           \/ runs[r].step \notin {"send", "single"}
           \/ h.step \in {"send", "single"} /\ h.groups = runs[r].groups
    PROVE  \A row \in rows : row.id[1] # 0 => (row \in rows /\ row.id[1] # r) \/ (row.id[1] = r /\ Owned(row, h))
<1> SUFFICES ASSUME NEW row \in rows, row.id[1] = r PROVE Owned(row, h) \/ row.id[1] = 0
  OBVIOUS
<1>1. row.id[1] # 0 => Owned(row, runs[r])
  BY DEF UploadsInv
<1> QED
  BY <1>1 DEF Owned, Due

\* The jobs of the first n files of a group.
LEMMA NewJobsFacts ==
    ASSUME UploadTypes, NEW r \in DOMAIN runs, NEW at \in Seq(Nat), at # <<>>,
           \A k \in DOMAIN at : at[k] \in DOMAIN runs[r].uploads, NEW n \in 0 .. Len(at)
    PROVE  /\ NewJobs(at, r, n) \in Seq(JobKinds) /\ DOMAIN NewJobs(at, r, n) = 1 .. n
           /\ \A k \in 1 .. n :
                 /\ NewJobs(at, r, n)[k].name = <<runs[r].uploads[at[k]].file, runs[r].uploads[at[k]].kind>>
                 /\ NewJobs(at, r, n)[k].folder = runs[r].uploads[at[1]].folder
<1> DEFINE up == runs[r].uploads
           E(k) == [EntriesOf(up, at)[k] EXCEPT !.folder = up[at[1]].folder]
           new == NewJobs(at, r, n)
<1>1. runs[r] \in HandlerKinds /\ up \in Seq(Entries)
  <2>1. runs[r] \in HandlerKinds
    BY HandlersAre
  <2> QED
    BY <2>1 DEF HandlerKinds
<1>2. DOMAIN at = 1 .. Len(at) /\ Len(at) \in Nat /\ 1 \in DOMAIN at
  OBVIOUS
<1>3. \A k \in 1 .. n : k \in DOMAIN at
  BY <1>2
<1>4. \A k \in DOMAIN at : up[at[k]] \in Entries
  BY <1>1
<1>5. new = [k \in 1 .. n |-> Accepted(E(k))]
  BY DEF NewJobs
<1> HIDE DEF up
<1>6. ASSUME NEW k \in DOMAIN at
      PROVE  E(k).file = up[at[k]].file /\ E(k).kind = up[at[k]].kind /\ E(k).folder = up[at[1]].folder /\ E(k) \in Entries
  <2>1. EntriesOf(up, at)[k] = up[at[k]]
    BY <1>6 DEF EntriesOf
  <2>2. up[at[k]] \in Entries /\ up[at[1]] \in Entries
    BY <1>2, <1>4, <1>6
  <2> QED
    BY <2>1, <2>2 DEF Entries
<1> HIDE DEF E
<1>7. \A e \in Entries : /\ Accepted(e) \in JobKinds
                         /\ Accepted(e).name = <<e.file, e.kind>> /\ Accepted(e).folder = e.folder
  BY DEF Accepted, Job, JobKinds, Entries, Statuses
<1> HIDE DEF new
<1>8. \A k \in 1 .. n : new[k] = Accepted(E(k)) /\ new[k] \in JobKinds
  BY <1>3, <1>5, <1>6, <1>7
<1>9. new \in Seq(JobKinds) /\ DOMAIN new = 1 .. n
  <2>1. DOMAIN new = 1 .. n /\ new = [k \in 1 .. n |-> new[k]]
    BY <1>5
  <2>2. n \in Nat
    BY <1>2
  <2>3. new \in [1 .. n -> JobKinds]
    BY <1>8, <2>1
  <2> QED
    BY <2>1, <2>2, <2>3
<1>10. \A k \in 1 .. n : new[k].name = <<up[at[k]].file, up[at[k]].kind>> /\ new[k].folder = up[at[1]].folder
  BY <1>3, <1>6, <1>7, <1>8
<1> QED
  BY <1>9, <1>10 DEF new, up

LEMMA AcceptedFacts ==
    ASSUME NEW e \in Entries
    PROVE  Accepted(e) \in JobKinds /\ Accepted(e).name = <<e.file, e.kind>> /\ Accepted(e).folder = e.folder
BY DEF Accepted, Job, JobKinds, Entries, Statuses

LEMMA LosingTypes ==
    ASSUME left \in Lefts, NEW lost \in BOOLEAN, Losing(lost)
    PROVE  left' \in Lefts
BY SpendTypes DEF Losing

LEMMA SeedReadStep ==
    ASSUME UploadsInv, NEW r \in DOMAIN runs, SeedRead(r)
    PROVE  UploadsInv'
<1>1. PICK lost \in BOOLEAN :
          /\ Losing(lost)
          /\ runs' = [runs EXCEPT ![r].step = "seeded", ![r].answer = IF lost THEN Nothing ELSE Listing]
  BY DEF SeedRead
<1> DEFINE a == IF lost THEN Nothing ELSE Listing
           h == [runs[r] EXCEPT !.step = "seeded", !.answer = a]
<1>2. runs[r] \in HandlerKinds /\ Suits(jobs, runs[r]) /\ runs[r].step = "seed"
  BY HandlersAre DEF UploadsInv, SeedRead
<1>3. a \in Heards \cup {Nothing} /\ (a # Nothing => DOMAIN a \subseteq DOMAIN jobs)
  BY ListingFacts DEF UploadsInv
<1>4. runs' = [runs EXCEPT ![r] = h]
  BY <1>1
<1> HIDE DEF a
<1>5. /\ h \in HandlerKinds /\ h.step = "seeded" /\ h.answer = a
      /\ h.batch = runs[r].batch /\ h.uploads = runs[r].uploads /\ h.groups = runs[r].groups
      /\ h.scans = runs[r].scans /\ h.told = runs[r].told /\ h.ids = runs[r].ids /\ h.gone = runs[r].gone
  BY <1>2, <1>3 DEF HandlerKinds
<1> HIDE DEF h
<1>6. h.ids = <<>>
  BY <1>2, <1>5 DEF Suits
<1>7. Suits(jobs, h)
  BY <1>2, <1>3, <1>5, <1>6, SuitsFrom
<1>8. UNCHANGED <<jobs, pending, preparing, computing, confirm, uploading, tracker>>
  BY DEF SeedRead, batch
<1>9. PanelTypes'
  BY <1>8, PanelGrows, GrowsItself DEF tracker, UploadsInv, UploadTypes, PanelTypes
<1>10. left' \in Lefts
  BY <1>1, LosingTypes DEF UploadsInv, UploadTypes
<1>11. UploadTypes'
  BY <1>4, <1>5, <1>8, <1>9, <1>10, HandlerTypes DEF UploadsInv, UploadTypes
<1>12. jobs' = jobs /\ rows' = rows
  BY <1>8 DEF tracker
<1>13. \A row \in rows : row.id[1] # 0 => (row \in rows /\ row.id[1] # r) \/ (row.id[1] = r /\ Owned(row, h))
  BY <1>2, <1>5, OwnedStill
<1> QED
  BY <1>4, <1>7, <1>11, <1>12, <1>13, GrowsItself, HandlerGoesOn

LEMMA SeedShownStep ==
    ASSUME UploadsInv, NEW r \in DOMAIN runs, SeedShown(r)
    PROVE  UploadsInv'
<1> DEFINE s == IF runs[r].batch = <<>> THEN "end" ELSE "send"
           h == [runs[r] EXCEPT !.step = s, !.answer = Nothing]
<1>1. runs[r] \in HandlerKinds /\ Suits(jobs, runs[r]) /\ runs[r].step = "seeded" /\ r \in Nat /\ r # 0
  BY HandlersAre DEF UploadsInv, SeedShown
<1>2. runs' = [runs EXCEPT ![r] = h]
  BY DEF SeedShown
<1>3. s \in {"end", "send"} /\ (s = "end" => runs[r].batch = <<>>) /\ (s = "send" => runs[r].batch # <<>>)
  OBVIOUS
<1> HIDE DEF s
<1>4. /\ h \in HandlerKinds /\ h.step = s /\ h.answer = Nothing
      /\ h.batch = runs[r].batch /\ h.uploads = runs[r].uploads /\ h.groups = runs[r].groups
      /\ h.scans = runs[r].scans /\ h.told = runs[r].told /\ h.ids = runs[r].ids /\ h.gone = runs[r].gone
  BY <1>1, <1>3 DEF HandlerKinds
<1> HIDE DEF h
<1>5. h.ids = <<>> /\ \A i \in DOMAIN h.uploads : Due(h, i)
  BY <1>1, <1>4 DEF Suits, Due
<1>6. Suits(jobs, h)
  BY <1>1, <1>3, <1>4, <1>5, SuitsFrom
<1>7. UNCHANGED <<jobs, pending, preparing, computing, confirm, uploading, poll, clearing, left>>
  BY DEF SeedShown, batch
<1>8. runs[r].uploads \in Seq(Entries) /\ \A i \in DOMAIN runs[r].uploads : runs[r].uploads[i].file \in Locals
  <2>1. runs[r].uploads \in Seq(Entries)
    BY <1>1 DEF HandlerKinds
  <2>2. \A i \in DOMAIN runs[r].uploads : runs[r].uploads[i] \in Entries
    BY <2>1
  <2>3. \A x \in Entries : x.file \in Locals
    BY DEF Entries
  <2> QED
    BY <2>1, <2>2, <2>3
<1>9. rows' = rows \/ (rows' = TempRows(r) /\ s = "send")
  BY <1>3 DEF SeedShown
<1>10. rows' \subseteq RowKinds
  <2>1. rows \subseteq RowKinds
    BY DEF UploadsInv, UploadTypes, PanelTypes
  <2>2. DOMAIN runs[r].uploads \subseteq Nat
    BY <1>8
  <2>3. TempRows(r) \subseteq RowKinds
    BY <1>1, <1>8, <2>2 DEF TempRows, RowKinds, Uses
  <2> QED
    BY <1>9, <2>1, <2>3
<1>11. /\ open' \in BOOLEAN /\ seed' \in Heards /\ fetched' \in Heards
       /\ DOMAIN seed' \subseteq DOMAIN jobs /\ DOMAIN fetched' \subseteq DOMAIN jobs
  <2>1. /\ open \in BOOLEAN /\ seed \in Heards /\ fetched \in Heards
        /\ DOMAIN seed \subseteq DOMAIN jobs /\ DOMAIN fetched \subseteq DOMAIN jobs
    BY DEF UploadsInv, UploadTypes, PanelTypes
  <2>2. runs[r].answer # Nothing => runs[r].answer \in Heards /\ DOMAIN runs[r].answer \subseteq DOMAIN jobs
    BY <1>1 DEF Suits, HandlerKinds
  <2>3. open' \in {open, TRUE}
    BY DEF SeedShown
  <2>4. \/ UNCHANGED <<seed, fetched>>
        \/ runs[r].answer # Nothing /\ Seeded(runs[r].answer)
    BY DEF SeedShown
  <2>5. CASE UNCHANGED <<seed, fetched>>
    BY <2>1, <2>3, <2>5
  <2>6. CASE runs[r].answer # Nothing /\ Seeded(runs[r].answer)
    BY <2>1, <2>2, <2>3, <2>6 DEF Seeded
  <2> QED
    BY <2>4, <2>5, <2>6
<1>12. PanelTypes'
  BY <1>7, <1>10, <1>11 DEF UploadsInv, UploadTypes, PanelTypes
<1>13. UploadTypes'
  BY <1>2, <1>4, <1>7, <1>12, HandlerTypes DEF UploadsInv, UploadTypes
<1>14. \A row \in rows' : row.id[1] # 0 => (row \in rows /\ row.id[1] # r) \/ (row.id[1] = r /\ Owned(row, h))
  <2>1. CASE rows' = rows
    BY <1>1, <1>4, <2>1, OwnedStill
  <2>2. CASE rows' = TempRows(r) /\ s = "send"
    <3>1. ASSUME NEW row \in rows' PROVE row.id[1] = r /\ Owned(row, h)
      <4>1. PICK i \in DOMAIN runs[r].uploads :
                row = [id |-> <<r, i>>, name |-> <<runs[r].uploads[i].file, "upload">>, status |-> "running"]
        BY <2>2, <3>1 DEF TempRows
      <4>2. row.id = <<r, i>>
        BY <4>1
      <4>3. row.id[1] = r /\ row.id[2] = i
        BY <4>2
      <4> QED
        BY <1>4, <1>5, <2>2, <4>3 DEF Owned
    <3> QED
      BY <3>1
  <2> QED
    BY <1>9, <2>1, <2>2
<1>15. Grows(jobs, jobs') /\ Suits(jobs', h)
  BY <1>6, <1>7, GrowsItself
<1> QED
  BY <1>2, <1>13, <1>14, <1>15, HandlerGoesOn

\* The explorer is reloaded, or the handler ends.
LEMMA LastSteps ==
    ASSUME UploadsInv, NEW r \in DOMAIN runs, Reloaded(r) \/ Finish(r)
    PROVE  UploadsInv'
<1> DEFINE s == IF Reloaded(r) THEN "scan" ELSE "end"
           h == [runs[r] EXCEPT !.step = s]
<1>1. runs[r] \in HandlerKinds /\ Suits(jobs, runs[r])
  BY HandlersAre DEF UploadsInv
<1>2. runs' = [runs EXCEPT ![r] = h]
  BY DEF Reloaded, Finish
<1>3. s \in {"scan", "end"} /\ (s = "end" => runs[r].scans = <<>>)
  BY DEF Finish
<1>4. runs[r].groups = <<>>
  BY <1>1 DEF Reloaded, Finish, Suits
<1> HIDE DEF s
<1>5. /\ h \in HandlerKinds /\ h.step = s /\ h.answer = runs[r].answer
      /\ h.batch = runs[r].batch /\ h.uploads = runs[r].uploads /\ h.groups = runs[r].groups
      /\ h.scans = runs[r].scans /\ h.told = runs[r].told /\ h.ids = runs[r].ids /\ h.gone = runs[r].gone
  BY <1>1, <1>3 DEF HandlerKinds
<1> HIDE DEF h
<1>6. h.answer # Nothing => DOMAIN h.answer \subseteq DOMAIN jobs
  BY <1>1, <1>5 DEF Suits
<1>7. Suits(jobs, h)
  BY <1>1, <1>3, <1>4, <1>5, <1>6, SuitsFrom
<1>8. UNCHANGED <<jobs, preparing, computing, confirm, tracker, left>>
  BY DEF Reloaded, Finish
<1>9. pending' \in Seq(Entries) /\ uploading' \in BOOLEAN
  <2>1. pending' \in {pending, <<>>} /\ uploading' \in {uploading, FALSE}
    BY DEF Reloaded, Finish
  <2>2. pending \in Seq(Entries) /\ uploading \in BOOLEAN /\ <<>> \in Seq(Entries)
    BY DEF UploadsInv, UploadTypes
  <2> QED
    BY <2>1, <2>2
<1>10. PanelTypes'
  BY <1>8, PanelGrows, GrowsItself DEF tracker, UploadsInv, UploadTypes, PanelTypes
<1>11. UploadTypes'
  BY <1>2, <1>5, <1>8, <1>9, <1>10, HandlerTypes DEF UploadsInv, UploadTypes
<1>12. jobs' = jobs /\ rows' = rows
  BY <1>8 DEF tracker
<1>13. \A row \in rows : row.id[1] # 0 => (row \in rows /\ row.id[1] # r) \/ (row.id[1] = r /\ Owned(row, h))
  <2>1. ASSUME NEW row \in rows, row.id[1] = r, r # 0 PROVE Owned(row, h)
    <3>1. Owned(row, runs[r])
      BY <2>1 DEF UploadsInv
    <3>2. ~Due(runs[r], row.id[2])
      BY <1>4 DEF Due
    <3> QED
      BY <1>5, <3>1, <3>2 DEF Owned
  <2> QED
    BY <2>1
<1> QED
  BY <1>2, <1>7, <1>11, <1>12, <1>13, GrowsItself, HandlerGoesOn

LEMMA ScanStep ==
    ASSUME UploadsInv, NEW r \in DOMAIN runs, Scan(r)
    PROVE  UploadsInv'
<1> DEFINE e == Head(runs[r].scans)
           read(status) == Append(jobs, Job(e, "upload", status))
           Goes(t) == [runs EXCEPT ![r] = [runs[r] EXCEPT !.scans = Tail(@), !.told = @ \cup t]]
<1>1. runs[r] \in HandlerKinds /\ Suits(jobs, runs[r]) /\ runs[r].step = "scan" /\ runs[r].scans # <<>>
  BY HandlersAre DEF UploadsInv, Scan
<1>2. runs[r].scans \in Seq(Entries) /\ e \in Entries /\ Tail(runs[r].scans) \in Seq(Entries)
  BY <1>1 DEF HandlerKinds
<1>3. PICK t \in SUBSET {e} :
          /\ runs' = Goes(t)
          /\ jobs' \in {jobs, read("error"), read("done"), Append(read("done"), Accepted(e))}
          /\ t = {} => jobs' = Append(read("done"), Accepted(e))
          /\ left' = left \/ Spend("faults")
  <2>1. CASE /\ jobs' = Append(read("done"), Accepted(e))
             /\ runs' = [runs EXCEPT ![r].scans = Tail(@)] /\ UNCHANGED left
    <3>1. runs' = Goes({})
      <4>1. runs[r].told \cup {} = runs[r].told
        OBVIOUS
      <4>2. [runs[r] EXCEPT !.scans = Tail(@)] = [runs[r] EXCEPT !.scans = Tail(@), !.told = runs[r].told]
        BY <1>1 DEF HandlerKinds
      <4>3. runs' = [runs EXCEPT ![r] = [runs[r] EXCEPT !.scans = Tail(@)]]
        BY <2>1
      <4> QED
        BY <4>1, <4>2, <4>3
    <3>2. {} \in SUBSET {e} /\ left' = left
      BY <2>1
    <3> HIDE DEF Goes, e, read
    <3> QED
      BY <2>1, <3>1, <3>2
  <2>2. CASE /\ Spend("faults")
             /\ jobs' \in {jobs, read("error"), read("done"), Append(read("done"), Accepted(e))}
             /\ runs' = [runs EXCEPT ![r].scans = Tail(@), ![r].told = @ \cup {e}]
    <3>1. runs' = Goes({e})
      BY <2>2
    <3>2. {e} \in SUBSET {e} /\ {e} # {}
      OBVIOUS
    <3> HIDE DEF Goes, e, read
    <3> QED
      BY <2>2, <3>1, <3>2
  <2> QED
    BY <2>1, <2>2 DEF Scan
<1> DEFINE h == [runs[r] EXCEPT !.scans = Tail(@), !.told = @ \cup t]
<1>4. runs' = [runs EXCEPT ![r] = h]
  BY <1>3
<1>5. jobs \in Seq(JobKinds)
  BY DEF UploadsInv, UploadTypes
<1>6. \A status \in {"done", "error"} : Job(e, "upload", status) \in JobKinds
  BY <1>2 DEF Job, JobKinds, Entries, Uses, Statuses
<1>7. Accepted(e) \in JobKinds /\ Accepted(e).name = <<e.file, e.kind>> /\ Accepted(e).folder = e.folder
  BY <1>2, AcceptedFacts
<1>8. \A status \in {"done", "error"} : read(status) \in Seq(JobKinds) /\ Grows(jobs, read(status))
  BY <1>5, <1>6 DEF Grows
<1> DEFINE both == Append(read("done"), Accepted(e))
<1>9. both \in Seq(JobKinds) /\ Grows(jobs, both) /\ With(both, e)
  <2>1. read("done") \in Seq(JobKinds) /\ Grows(jobs, read("done"))
    BY <1>8
  <2> HIDE DEF read
  <2>2. both \in Seq(JobKinds) /\ Grows(read("done"), both)
    BY <1>7, <2>1 DEF Grows
  <2>3. Len(both) \in DOMAIN both /\ both[Len(both)] = Accepted(e)
    BY <1>7, <2>1
  <2>4. With(both, e)
    BY <1>7, <2>3 DEF With
  <2>5. Grows(jobs, both)
    BY <2>1, <2>2 DEF Grows
  <2> QED
    BY <2>2, <2>4, <2>5
<1>10. jobs' \in Seq(JobKinds) /\ Grows(jobs, jobs') /\ (With(jobs', e) \/ t = {e})
  <2>1. jobs' \in {jobs, read("error"), read("done"), both} /\ (t = {} => jobs' = both)
    BY <1>3
  <2> HIDE DEF both, read
  <2> QED
    BY <1>3, <1>5, <1>8, <1>9, <2>1, GrowsItself
<1> HIDE DEF e, read, both
<1>11. /\ h \in HandlerKinds /\ h.step = "scan" /\ h.answer = runs[r].answer
       /\ h.batch = runs[r].batch /\ h.uploads = runs[r].uploads /\ h.groups = runs[r].groups
       /\ h.scans = Tail(runs[r].scans) /\ h.told = runs[r].told \cup t /\ h.gone = runs[r].gone
  <2>1. t \subseteq Entries
    BY <1>2, <1>3
  <2> QED
    BY <1>1, <1>2, <2>1 DEF HandlerKinds
<1> HIDE DEF h
<1>12. Suits(jobs', h)
  <2>1. Suits(jobs', runs[r])
    BY <1>1, <1>10, SuitsGrows
  <2>2. With(jobs', Head(runs[r].scans)) \/ Head(runs[r].scans) \in h.told
    BY <1>10, <1>11 DEF e
  <2>3. runs[r].told \subseteq h.told
    BY <1>11
  <2> QED
    BY <1>1, <1>11, <2>1, <2>2, <2>3, SuitsScanned
<1>13. UNCHANGED <<pending, preparing, computing, confirm, uploading, tracker>>
  BY DEF Scan, batch
<1>14. left' \in Lefts
  BY <1>3, SpendTypes DEF UploadsInv, UploadTypes
<1>15. PanelTypes'
  BY <1>10, <1>13, PanelGrows DEF tracker, UploadsInv, UploadTypes, PanelTypes
<1>16. UploadTypes'
  BY <1>4, <1>10, <1>11, <1>13, <1>14, <1>15, HandlerTypes DEF UploadsInv, UploadTypes
<1>17. \A row \in rows : row.id[1] # 0 => (row \in rows /\ row.id[1] # r) \/ (row.id[1] = r /\ Owned(row, h))
  BY <1>1, <1>11, OwnedStill
<1>18. rows' = rows
  BY <1>13 DEF tracker
<1> QED
  BY <1>4, <1>10, <1>12, <1>16, <1>17, <1>18, HandlerGoesOn

--------------------------------------------------------------------------------
(* The requests of a batch. *)

\* The group that is being sent.
LEMMA GroupOf ==
    ASSUME UploadsInv, NEW r \in DOMAIN runs, runs[r].groups # <<>>
    PROVE  LET at == Head(runs[r].groups) IN
           /\ at \in Seq(Nat) /\ at # <<>> /\ DOMAIN at = 1 .. Len(at) /\ Len(at) \in Nat
           /\ \A k \in DOMAIN at :
                 /\ at[k] \in DOMAIN runs[r].uploads
                 /\ runs[r].uploads[at[k]].folder = runs[r].uploads[at[1]].folder
<1>1. runs[r] \in HandlerKinds /\ Suits(jobs, runs[r])
  BY HandlersAre DEF UploadsInv
<1>2. runs[r].groups \in Seq(Seq(Nat))
  BY <1>1 DEF HandlerKinds
<1>3. 1 \in DOMAIN runs[r].groups /\ Head(runs[r].groups) = runs[r].groups[1] /\ runs[r].groups[1] \in Seq(Nat)
  BY <1>2
<1>4. /\ runs[r].groups[1] # <<>>
      /\ \A k \in DOMAIN runs[r].groups[1] :
            /\ runs[r].groups[1][k] \in DOMAIN runs[r].uploads
            /\ runs[r].uploads[runs[r].groups[1][k]].folder = runs[r].uploads[runs[r].groups[1][1]].folder
  BY <1>1, <1>3 DEF Suits
<1> QED
  BY <1>3, <1>4

\* What the service made of a request is of the entries asked for, in their folder.
LEMMA SentWith ==
    ASSUME UploadsInv, NEW r \in DOMAIN runs, NEW at \in Seq(Nat), at # <<>>,
           \A k \in DOMAIN at : /\ at[k] \in DOMAIN runs[r].uploads
                                /\ runs[r].uploads[at[k]].folder = runs[r].uploads[at[1]].folder,
           NEW n \in 0 .. Len(at)
    PROVE  LET after == jobs \o NewJobs(at, r, n)
           IN  /\ after \in Seq(JobKinds) /\ Grows(jobs, after)
               /\ \A k \in 1 .. n : With(after, runs[r].uploads[at[k]])
<1> DEFINE new == NewJobs(at, r, n)
           after == jobs \o new
<1>1. /\ new \in Seq(JobKinds) /\ DOMAIN new = 1 .. n
      /\ \A k \in 1 .. n : /\ new[k].name = <<runs[r].uploads[at[k]].file, runs[r].uploads[at[k]].kind>>
                           /\ new[k].folder = runs[r].uploads[at[1]].folder
  BY NewJobsFacts DEF UploadsInv
<1> HIDE DEF new
<1>2. jobs \in Seq(JobKinds)
  BY DEF UploadsInv, UploadTypes
<1>3. /\ after \in Seq(JobKinds) /\ Grows(jobs, after)
      /\ \A k \in DOMAIN new : \E j \in DOMAIN after : after[j] = new[k]
  BY <1>1, <1>2, Appended
<1> HIDE DEF after
<1>4. ASSUME NEW k \in 1 .. n PROVE With(after, runs[r].uploads[at[k]])
  <2>1. PICK j \in DOMAIN after : after[j] = new[k]
    BY <1>1, <1>3
  <2>2. k \in DOMAIN at
    OBVIOUS
  <2>3. after[j].folder = runs[r].uploads[at[k]].folder
    BY <1>1, <2>1, <2>2
  <2> QED
    BY <1>1, <2>1, <2>3 DEF With
<1> QED
  BY <1>3, <1>4 DEF after, new

\* The rows of the group are numbered by the jobs of the answer.
LEMMA NumberedRows ==
    ASSUME NEW r \in Nat, NEW at \in Seq(Nat), NEW ids \in Seq(Nat), Len(ids) = Len(at), rows \subseteq RowKinds
    PROVE  /\ Numbered(r, at, ids) \subseteq RowKinds
           /\ ~runs[r].gone => \A row \in Numbered(r, at, ids) : row.id[1] # 0 =>
                 row \in rows /\ ~\E n \in DOMAIN at : row.id = <<r, at[n]>>
<1> DEFINE n(row) == CHOOSE k \in DOMAIN at : row.id = <<r, at[k]>>
           Hit(row) == \E k \in DOMAIN at : row.id = <<r, at[k]>>
           new(row) == [row EXCEPT !.id = <<0, ids[n(row)]>>]
<1>1. DOMAIN at = 1 .. Len(at) /\ DOMAIN ids = 1 .. Len(at) /\ \A k \in DOMAIN ids : ids[k] \in Nat
  OBVIOUS
<1>2. ASSUME NEW row \in rows, Hit(row) PROVE new(row) \in RowKinds /\ new(row).id[1] = 0
  <2>1. n(row) \in DOMAIN at
    BY <1>2
  <2> HIDE DEF n
  <2>2. ids[n(row)] \in Nat /\ row \in RowKinds
    BY <1>1, <2>1
  <2> QED
    BY <2>2 DEF RowKinds
<1>3. ASSUME NEW row \in Numbered(r, at, ids)
      PROVE  /\ row \in RowKinds
             /\ ~runs[r].gone /\ row.id[1] # 0 => row \in rows /\ ~Hit(row)
  <2>1. CASE runs[r].gone
    BY <1>3, <2>1 DEF Numbered
  <2>2. CASE ~runs[r].gone
    <3>1. PICK old \in rows : row = IF Hit(old) THEN new(old) ELSE old
      BY <1>3, <2>2 DEF Numbered
    <3> HIDE DEF Hit, new
    <3> QED
      BY <1>2, <2>2, <3>1
  <2> QED
    BY <2>1, <2>2
<1> QED
  BY <1>3

\* The last request of a group is answered.
LEMMA SentStep ==
    ASSUME UploadsInv, NEW r \in DOMAIN runs, runs[r].groups # <<>>, NEW new, NEW ids \in Seq(Nat),
           Sent(r, Head(runs[r].groups), new, ids), Len(ids) = Len(Head(runs[r].groups)),
           runs[r].step \in {"send", "single"},
           jobs \o new \in Seq(JobKinds), Grows(jobs, jobs \o new),
           \A k \in DOMAIN Head(runs[r].groups) : With(jobs \o new, runs[r].uploads[Head(runs[r].groups)[k]]),
           UNCHANGED <<pending, preparing, computing, confirm, open, seed, fetched, poll, clearing>>,
           left' \in Lefts
    PROVE  UploadsInv'
<1> DEFINE at == Head(runs[r].groups)
           h == [runs[r] EXCEPT !.groups = Tail(@), !.step = "send", !.ids = <<>>]
<1>1. /\ runs[r] \in HandlerKinds /\ Suits(jobs, runs[r]) /\ r \in Nat /\ r # 0
      /\ DOMAIN runs = 1 .. Len(runs)
  BY HandlersAre DEF UploadsInv
<1>2. runs' = [runs EXCEPT ![r] = h]
  BY DEF Sent
<1>3. jobs' \in Seq(JobKinds) /\ Grows(jobs, jobs') /\ \A k \in DOMAIN at : With(jobs', runs[r].uploads[at[k]])
  BY DEF Sent
<1>4. /\ h \in HandlerKinds /\ h.step = "send" /\ h.ids = <<>> /\ h.groups = Tail(runs[r].groups)
      /\ h.batch = runs[r].batch /\ h.uploads = runs[r].uploads /\ h.answer = runs[r].answer
      /\ h.scans = runs[r].scans /\ h.told = runs[r].told /\ h.gone = runs[r].gone
  <2>1. Tail(runs[r].groups) \in Seq(Seq(Nat)) /\ <<>> \in Seq(Nat)
    BY <1>1 DEF HandlerKinds
  <2> QED
    BY <1>1, <2>1 DEF HandlerKinds
<1> HIDE DEF h
<1>5. Suits(jobs', runs[r])
  BY <1>1, <1>3, SuitsGrows
<1>6. /\ Suits(jobs', h)
      /\ \A i : Due(runs[r], i) => Due(h, i) \/ \E k \in DOMAIN at : at[k] = i
  BY <1>1, <1>3, <1>4, <1>5, SuitsSent
<1>7. at \in Seq(Nat) /\ rows \subseteq RowKinds
  BY GroupOf DEF UploadsInv, UploadTypes, PanelTypes
<1> HIDE DEF at
<1>8. rows' = Numbered(r, at, ids) /\ uploading' = uploading
  BY DEF Sent, at
<1>9. /\ rows' \subseteq RowKinds
      /\ ~runs[r].gone => \A row \in rows' : row.id[1] # 0 =>
            row \in rows /\ ~\E n \in DOMAIN at : row.id = <<r, at[n]>>
  <2>1. Len(ids) = Len(at)
    BY DEF at
  <2> QED
    BY <1>1, <1>7, <1>8, <2>1, NumberedRows
<1>10. PanelTypes'
  BY <1>3, <1>9, PanelGrows DEF UploadsInv, UploadTypes
<1>11. UploadTypes'
  <2>1. pending' \in Seq(Entries) /\ uploading' \in BOOLEAN
    BY <1>8 DEF UploadsInv, UploadTypes
  <2> QED
    BY <1>2, <1>3, <1>4, <1>10, <2>1, HandlerTypes DEF UploadsInv
<1>12. ASSUME NEW row \in rows', row.id[1] # 0
       PROVE  (row \in rows /\ row.id[1] # r) \/ (row.id[1] = r /\ Owned(row, h))
  <2>1. CASE runs[r].gone
    <3>1. rows' = rows
      BY <1>8, <2>1 DEF Numbered
    <3>2. Owned(row, h)
      BY <1>4, <2>1 DEF Owned
    <3> QED
      BY <3>1, <3>2
  <2>2. CASE ~runs[r].gone /\ row.id[1] = r
    <3>1. row \in rows /\ ~\E n \in DOMAIN at : row.id = <<r, at[n]>>
      BY <1>9, <1>12, <2>2
    <3>2. row.id \in Nat \X Nat
      BY <1>7, <3>1 DEF RowKinds
    <3>3. row.id = <<r, row.id[2]>>
      BY <2>2, <3>2
    <3>4. ~\E n \in DOMAIN at : at[n] = row.id[2]
      BY <3>1, <3>3
    <3>5. Owned(row, runs[r])
      BY <1>1, <2>2, <3>1 DEF UploadsInv
    <3>6. Owned(row, h)
      BY <1>4, <1>6, <3>4, <3>5 DEF Owned
    <3> QED
      BY <2>2, <3>6
  <2>3. CASE ~runs[r].gone /\ row.id[1] # r
    BY <1>9, <1>12, <2>3
  <2> QED
    BY <2>1, <2>2, <2>3
<1> QED
  BY <1>2, <1>3, <1>6, <1>11, <1>12, HandlerGoesOn

\* A request of a batch failed.
LEMMA BatchFailsStep ==
    ASSUME UploadsInv, NEW r \in DOMAIN runs, BatchFails(r),
           jobs' \in Seq(JobKinds), Grows(jobs, jobs'),
           UNCHANGED <<pending, preparing, computing, confirm, open, seed, fetched, poll, clearing>>,
           left' \in Lefts
    PROVE  UploadsInv'
<1> DEFINE h == [runs[r] EXCEPT !.step = "scan", !.groups = <<>>, !.single = <<>>,
                                !.told = @ \cup Range(runs[r].uploads)]
           bad(row) == IF row.id[1] = r THEN [row EXCEPT !.status = "error"] ELSE row
<1>1. runs[r] \in HandlerKinds /\ Suits(jobs, runs[r])
  BY HandlersAre DEF UploadsInv
<1>2. runs' = [runs EXCEPT ![r] = h]
  BY DEF BatchFails
<1>3. /\ h \in HandlerKinds /\ h.step = "scan" /\ h.groups = <<>>
      /\ h.batch = runs[r].batch /\ h.uploads = runs[r].uploads /\ h.answer = runs[r].answer
      /\ h.scans = runs[r].scans /\ h.told = runs[r].told \cup Range(runs[r].uploads) /\ h.gone = runs[r].gone
  <2>1. Range(runs[r].uploads) \subseteq Entries
    BY <1>1 DEF HandlerKinds, Range
  <2>2. <<>> \in Seq(Nat) /\ <<>> \in Seq(Seq(Nat))
    OBVIOUS
  <2> QED
    BY <1>1, <2>1, <2>2 DEF HandlerKinds
<1> HIDE DEF h
<1>4. Suits(jobs', h)
  <2>1. Suits(jobs', runs[r])
    BY <1>1, SuitsGrows
  <2> QED
    BY <1>3, <2>1, SuitsFailed
<1>5. rows \subseteq RowKinds
  BY DEF UploadsInv, UploadTypes, PanelTypes
<1>6. rows' = IF runs[r].gone THEN rows ELSE {bad(row) : row \in rows}
  BY DEF BatchFails
<1>7. \A row \in rows : bad(row) \in RowKinds /\ bad(row).id = row.id /\ (row.id[1] = r => bad(row).status = "error")
                        /\ (row.id[1] # r => bad(row) = row)
  BY <1>5 DEF RowKinds
<1> HIDE DEF bad
<1>8. ASSUME NEW row \in rows'
      PROVE  row \in RowKinds /\ ((row \in rows /\ row.id[1] # r) \/ (row.id[1] = r /\ Owned(row, h)))
  <2>1. CASE runs[r].gone
    BY <1>3, <1>5, <1>6, <2>1 DEF Owned
  <2>2. CASE ~runs[r].gone
    <3>1. PICK old \in rows : row = bad(old)
      BY <1>6, <2>2
    <3> QED
      BY <1>7, <3>1 DEF Owned
  <2> QED
    BY <2>1, <2>2
<1>9. PanelTypes'
  BY <1>8, PanelGrows DEF UploadsInv, UploadTypes
<1>10. UploadTypes'
  <2>1. pending' \in Seq(Entries) /\ uploading' \in BOOLEAN
    BY DEF BatchFails, UploadsInv, UploadTypes
  <2> QED
    BY <1>2, <1>3, <1>9, <2>1, HandlerTypes DEF UploadsInv
<1> QED
  BY <1>2, <1>4, <1>8, <1>10, HandlerGoesOn

LEMMA NextIdsFacts ==
    ASSUME jobs \in Seq(JobKinds), NEW n \in Nat
    PROVE  NextIds(n) \in Seq(Nat) /\ Len(NextIds(n)) = n
<1>1. NextIds(n) = [i \in 1 .. n |-> Len(jobs) + i] /\ Len(jobs) \in Nat
  BY DEF NextIds
<1>2. NextIds(n) \in [1 .. n -> Nat]
  BY <1>1
<1> QED
  BY <1>2

LEMMA SendStep ==
    ASSUME UploadsInv, NEW r \in DOMAIN runs, Send(r)
    PROVE  UploadsInv'
<1> DEFINE at == Head(runs[r].groups)
<1>1. runs[r].step = "send" /\ runs[r].groups # <<>>
  BY DEF Send
<1>2. /\ at \in Seq(Nat) /\ at # <<>> /\ DOMAIN at = 1 .. Len(at) /\ Len(at) \in Nat
      /\ \A k \in DOMAIN at : /\ at[k] \in DOMAIN runs[r].uploads
                              /\ runs[r].uploads[at[k]].folder = runs[r].uploads[at[1]].folder
  BY <1>1, GroupOf
<1>3. UNCHANGED <<pending, preparing, computing, confirm, open, seed, fetched, poll, clearing>>
  BY DEF Send
<1>4. jobs \in Seq(JobKinds) /\ left \in Lefts
  BY DEF UploadsInv, UploadTypes
<1>5. ASSUME NEW n \in 0 .. Len(at)
      PROVE  /\ jobs \o NewJobs(at, r, n) \in Seq(JobKinds) /\ Grows(jobs, jobs \o NewJobs(at, r, n))
             /\ \A k \in 1 .. n : With(jobs \o NewJobs(at, r, n), runs[r].uploads[at[k]])
  <2> HIDE DEF at
  <2> QED
    BY <1>2, SentWith
<1>6. CASE Sent(r, at, NewJobs(at, r, Len(at)), NextIds(Len(at))) /\ UNCHANGED left
  <2>1. Len(at) \in 0 .. Len(at)
    BY <1>2
  <2>2. NextIds(Len(at)) \in Seq(Nat) /\ Len(NextIds(Len(at))) = Len(at)
    BY <1>2, <1>4, NextIdsFacts
  <2>3. \A k \in DOMAIN at : With(jobs \o NewJobs(at, r, Len(at)), runs[r].uploads[at[k]])
    BY <1>2, <1>5, <2>1
  <2>4. jobs \o NewJobs(at, r, Len(at)) \in Seq(JobKinds) /\ Grows(jobs, jobs \o NewJobs(at, r, Len(at)))
    BY <1>5, <2>1
  <2>5. left' \in Lefts
    BY <1>4, <1>6
  <2> QED
    BY <1>1, <1>3, <1>6, <2>2, <2>3, <2>4, <2>5, SentStep
<1>7. CASE /\ Spend("faults")
           /\ \E n \in 0 .. Len(at) : jobs' = jobs \o NewJobs(at, r, n)
           /\ IF Len(at) = 1
              THEN BatchFails(r)
              ELSE runs' = [runs EXCEPT ![r].step = "single", ![r].single = at] /\ UNCHANGED <<rows, uploading>>
  <2>1. left' \in Lefts
    BY <1>4, <1>7, SpendTypes
  <2>2. jobs' \in Seq(JobKinds) /\ Grows(jobs, jobs')
    BY <1>5, <1>7
  <2>3. CASE Len(at) = 1
    <3>1. BatchFails(r)
      BY <1>7, <2>3
    <3> QED
      BY <1>3, <2>1, <2>2, <3>1, BatchFailsStep
  <2>4. CASE Len(at) # 1
    <3> DEFINE h == [runs[r] EXCEPT !.step = "single", !.single = at]
    <3>1. runs' = [runs EXCEPT ![r] = h] /\ UNCHANGED <<rows, uploading>>
      BY <1>7, <2>4
    <3>2. runs[r] \in HandlerKinds /\ Suits(jobs, runs[r])
      BY HandlersAre DEF UploadsInv
    <3> HIDE DEF at
    <3>3. /\ h \in HandlerKinds /\ h.step = "single" /\ h.single = at /\ h.ids = runs[r].ids
          /\ h.groups = runs[r].groups
          /\ h.batch = runs[r].batch /\ h.uploads = runs[r].uploads /\ h.answer = runs[r].answer
          /\ h.scans = runs[r].scans /\ h.told = runs[r].told /\ h.gone = runs[r].gone
      BY <1>2, <3>2 DEF HandlerKinds
    <3> HIDE DEF h
    <3>4. h.ids = <<>>
      BY <1>1, <3>2, <3>3 DEF Suits
    <3>5. OneByOne(jobs', h)
      <4>1. Head(h.groups) = at
        BY <3>3 DEF at
      <4>2. Len(at) - Len(h.single) = 0 /\ Len(h.ids) = 0 /\ \A k \in DOMAIN h.single : 0 + k = k
        BY <1>2, <3>3, <3>4
      <4> QED
        BY <1>1, <1>2, <3>3, <4>1, <4>2 DEF OneByOne
    <3>6. Suits(jobs', runs[r])
      BY <2>2, <3>2, SuitsGrows
    <3>7. h.answer # Nothing => DOMAIN h.answer \subseteq DOMAIN jobs'
      BY <3>3, <3>6 DEF Suits
    <3>8. Suits(jobs', h)
      BY <3>3, <3>5, <3>6, <3>7, SuitsFrom
    <3>9. PanelTypes'
      BY <1>3, <2>2, <3>1, PanelGrows DEF UploadsInv, UploadTypes, PanelTypes
    <3>10. UploadTypes'
      <4>1. pending' \in Seq(Entries) /\ uploading' \in BOOLEAN
        BY <1>3, <3>1 DEF UploadsInv, UploadTypes
      <4> QED
        BY <1>3, <2>1, <2>2, <3>1, <3>3, <3>9, <4>1, HandlerTypes DEF UploadsInv
    <3>11. \A row \in rows : row.id[1] # 0 => (row \in rows /\ row.id[1] # r) \/ (row.id[1] = r /\ Owned(row, h))
      BY <3>3, OwnedStill
    <3> QED
      BY <2>2, <3>1, <3>8, <3>10, <3>11, HandlerGoesOn
  <2> QED
    BY <2>3, <2>4
<1> QED
  BY <1>6, <1>7 DEF Send

\* The rest of a group that is sent one file after the other.
LEMMA RestFacts ==
    ASSUME NEW at \in Seq(Nat), NEW single \in Seq(Nat), single # <<>>, Len(single) <= Len(at),
           \A k \in DOMAIN single : single[k] = at[(Len(at) - Len(single)) + k]
    PROVE  LET sent == Len(at) - Len(single) IN
           /\ sent \in Nat /\ sent + 1 \in DOMAIN at /\ Head(single) = at[sent + 1] /\ at[sent + 1] \in Nat
           /\ Len(single) = 1 => Len(at) = sent + 1
           /\ Len(single) # 1 =>
                 /\ Tail(single) # <<>> /\ Tail(single) \in Seq(Nat)
                 /\ Len(at) - Len(Tail(single)) = sent + 1 /\ Len(Tail(single)) <= Len(at)
                 /\ \A k \in DOMAIN Tail(single) : Tail(single)[k] = at[(sent + 1) + k]
<1> DEFINE sent == Len(at) - Len(single)
<1>1. Len(at) \in Nat /\ Len(single) \in Nat /\ Len(single) > 0 /\ DOMAIN at = 1 .. Len(at)
  OBVIOUS
<1>5. Head(single) = single[1] /\ 1 \in DOMAIN single
  BY <1>1
<1>2. sent \in Nat /\ sent + Len(single) = Len(at)
  BY <1>1
<1>6. \A k \in DOMAIN single : single[k] = at[sent + k]
  OBVIOUS
<1> HIDE DEF sent
<1>3. sent + 1 \in 1 .. Len(at)
  BY <1>1, <1>2
<1>4. at[sent + 1] \in Nat
  BY <1>1, <1>3
<1>7. ASSUME Len(single) # 1
      PROVE  /\ Tail(single) # <<>> /\ Tail(single) \in Seq(Nat)
             /\ Len(at) - Len(Tail(single)) = sent + 1 /\ Len(Tail(single)) <= Len(at)
             /\ \A k \in DOMAIN Tail(single) : Tail(single)[k] = at[(sent + 1) + k]
  <2>1. /\ Tail(single) \in Seq(Nat) /\ Len(Tail(single)) = Len(single) - 1
        /\ DOMAIN Tail(single) = 1 .. Len(single) - 1
    BY <1>1
  <2>2. Tail(single) # <<>>
    <3>1. Len(Tail(single)) # 0 /\ Len(<<>>) = 0
      BY <1>1, <1>7, <2>1
    <3> QED
      BY <3>1
  <2>3. ASSUME NEW k \in 1 .. Len(single) - 1 PROVE Tail(single)[k] = at[(sent + 1) + k]
    <3>1. Tail(single)[k] = single[k + 1] /\ k + 1 \in DOMAIN single
      BY <1>1
    <3>2. single[k + 1] = at[sent + (k + 1)]
      BY <1>6, <3>1
    <3>3. sent + (k + 1) = (sent + 1) + k
      BY <1>2
    <3> QED
      BY <3>1, <3>2, <3>3
  <2>4. Len(at) - Len(Tail(single)) = sent + 1 /\ Len(Tail(single)) <= Len(at)
    <3> DEFINE a == Len(at)
               b == Len(single)
               c == Len(Tail(single))
    <3>1. a \in Nat /\ b \in Nat /\ b > 0 /\ c = b - 1 /\ sent \in Nat /\ sent + b = a
      BY <1>1, <1>2, <2>1
    <3> HIDE DEF a, b, c
    <3>2. a - c = sent + 1 /\ c <= a
      BY <3>1
    <3> QED
      BY <3>2 DEF a, c
  <2>5. \A k \in DOMAIN Tail(single) : Tail(single)[k] = at[(sent + 1) + k]
    BY <2>1, <2>3
  <2> QED
    BY <2>1, <2>2, <2>4, <2>5
<1>8. Len(single) = 1 => Len(at) = sent + 1
  BY <1>2
<1> QED
  BY <1>1, <1>2, <1>3, <1>4, <1>5, <1>6, <1>7, <1>8 DEF sent

LEMMA SendSingleStep ==
    ASSUME UploadsInv, NEW r \in DOMAIN runs, SendSingle(r)
    PROVE  UploadsInv'
<1> DEFINE at == Head(runs[r].groups)
           sent == Len(at) - Len(runs[r].single)
           one == <<Head(runs[r].single)>>
           new == NewJobs(one, r, 1)
           ids == Append(runs[r].ids, Len(jobs) + 1)
<1>1. /\ runs[r].step = "single" /\ runs[r] \in HandlerKinds /\ Suits(jobs, runs[r]) /\ OneByOne(jobs, runs[r])
  BY HandlersAre DEF UploadsInv, SendSingle, Suits
<1>2. runs[r].groups # <<>>
  BY <1>1 DEF OneByOne
<1>3. /\ at \in Seq(Nat) /\ at # <<>> /\ DOMAIN at = 1 .. Len(at) /\ Len(at) \in Nat
      /\ \A k \in DOMAIN at : /\ at[k] \in DOMAIN runs[r].uploads
                              /\ runs[r].uploads[at[k]].folder = runs[r].uploads[at[1]].folder
  BY <1>2, GroupOf
<1>4. UNCHANGED <<pending, preparing, computing, confirm, open, seed, fetched, poll, clearing>>
  BY DEF SendSingle
<1>5. jobs \in Seq(JobKinds) /\ left \in Lefts /\ Len(jobs) \in Nat
  BY DEF UploadsInv, UploadTypes
<1>6. /\ runs[r].single # <<>> /\ Len(runs[r].single) <= Len(at) /\ Len(runs[r].ids) = sent
      /\ \A k \in DOMAIN runs[r].single : runs[r].single[k] = at[sent + k]
      /\ \A k \in 1 .. sent : With(jobs, runs[r].uploads[at[k]])
  BY <1>1 DEF OneByOne
<1>7. runs[r].single \in Seq(Nat) /\ runs[r].ids \in Seq(Nat)
  BY <1>1 DEF HandlerKinds
<1> HIDE DEF at, new, ids
<1> HIDE DEF one
<1>8. /\ sent \in Nat /\ sent + 1 \in DOMAIN at /\ Head(runs[r].single) = at[sent + 1] /\ at[sent + 1] \in Nat
      /\ ids \in Seq(Nat) /\ Len(ids) = sent + 1
      /\ Len(runs[r].single) = 1 => Len(at) = sent + 1
      /\ Len(runs[r].single) # 1 =>
            /\ Tail(runs[r].single) # <<>> /\ Tail(runs[r].single) \in Seq(Nat)
            /\ Len(at) - Len(Tail(runs[r].single)) = sent + 1 /\ Len(Tail(runs[r].single)) <= Len(at)
            /\ \A k \in DOMAIN Tail(runs[r].single) : Tail(runs[r].single)[k] = at[(sent + 1) + k]
  <2>1. ids \in Seq(Nat) /\ Len(ids) = Len(runs[r].ids) + 1
    BY <1>5, <1>7, AppendProperties DEF ids
  <2> DEFINE single == runs[r].single
  <2>2. /\ at \in Seq(Nat) /\ single \in Seq(Nat) /\ single # <<>> /\ Len(single) <= Len(at)
        /\ \A k \in DOMAIN single : single[k] = at[(Len(at) - Len(single)) + k]
    BY <1>3, <1>6, <1>7
  <2> HIDE DEF single
  <2>3. LET gone == Len(at) - Len(single) IN
        /\ gone \in Nat /\ gone + 1 \in DOMAIN at /\ Head(single) = at[gone + 1] /\ at[gone + 1] \in Nat
        /\ Len(single) = 1 => Len(at) = gone + 1
        /\ Len(single) # 1 =>
              /\ Tail(single) # <<>> /\ Tail(single) \in Seq(Nat)
              /\ Len(at) - Len(Tail(single)) = gone + 1 /\ Len(Tail(single)) <= Len(at)
              /\ \A k \in DOMAIN Tail(single) : Tail(single)[k] = at[(gone + 1) + k]
    BY <2>2, RestFacts
  <2>4. sent = Len(at) - Len(single)
    BY DEF single
  <2>5. Len(ids) = sent + 1
    BY <1>6, <2>1
  <2> HIDE DEF sent
  <2> QED
    BY <2>1, <2>3, <2>4, <2>5 DEF single
<1>9. one = <<at[sent + 1]>>
  BY <1>8 DEF one
<1> HIDE DEF sent
<1>10. /\ jobs \o new \in Seq(JobKinds) /\ Grows(jobs, jobs \o new)
       /\ With(jobs \o new, runs[r].uploads[at[sent + 1]])
  <2>1. /\ one \in Seq(Nat) /\ one # <<>> /\ DOMAIN one = {1} /\ one[1] = at[sent + 1] /\ Len(one) = 1
        /\ at[sent + 1] \in DOMAIN runs[r].uploads
    <3>1. at[sent + 1] \in Nat /\ at[sent + 1] \in DOMAIN runs[r].uploads
      BY <1>3, <1>8
    <3> QED
      BY <1>9, <3>1
  <2>2. 1 \in 0 .. Len(one) /\ 1 \in 1 .. 1
    BY <2>1
  <2>3. \A k \in DOMAIN one : /\ one[k] \in DOMAIN runs[r].uploads
                              /\ runs[r].uploads[one[k]].folder = runs[r].uploads[one[1]].folder
    BY <2>1
  <2>4. /\ jobs \o new \in Seq(JobKinds) /\ Grows(jobs, jobs \o new)
        /\ \A k \in 1 .. 1 : With(jobs \o new, runs[r].uploads[one[k]])
    BY <2>1, <2>2, <2>3, SentWith DEF new
  <2> QED
    BY <2>1, <2>2, <2>4
<1>11. \A k \in 1 .. sent + 1 : With(jobs \o new, runs[r].uploads[at[k]])
  <2>1. \A k \in 1 .. sent : With(jobs \o new, runs[r].uploads[at[k]])
    BY <1>6, <1>10, WithGrows
  <2>2. \A k \in 1 .. sent + 1 : k \in 1 .. sent \/ k = sent + 1
    BY <1>8
  <2> QED
    BY <1>10, <2>1, <2>2
<1>12. CASE UNCHANGED left /\ Len(runs[r].single) = 1 /\ Sent(r, at, new, ids)
  <2>1. Len(ids) = Len(at) /\ left' \in Lefts
    BY <1>5, <1>8, <1>12
  <2>2. DOMAIN at = 1 .. sent + 1
    BY <1>3, <1>8, <1>12
  <2>3. \A k \in DOMAIN at : With(jobs \o new, runs[r].uploads[at[k]])
    BY <1>11, <2>2
  <2> QED
    BY <1>1, <1>2, <1>4, <1>8, <1>10, <1>12, <2>1, <2>3, SentStep DEF at
<1>13. CASE /\ UNCHANGED left /\ Len(runs[r].single) # 1
            /\ jobs' = jobs \o new
            /\ runs' = [runs EXCEPT ![r].single = Tail(@), ![r].ids = ids]
            /\ UNCHANGED <<rows, uploading>>
  <2> DEFINE h == [runs[r] EXCEPT !.single = Tail(@), !.ids = ids]
  <2>1. runs' = [runs EXCEPT ![r] = h]
    BY <1>13
  <2>2. /\ h \in HandlerKinds /\ h.step = "single" /\ h.single = Tail(runs[r].single) /\ h.ids = ids
        /\ h.groups = runs[r].groups
        /\ h.batch = runs[r].batch /\ h.uploads = runs[r].uploads /\ h.answer = runs[r].answer
        /\ h.scans = runs[r].scans /\ h.told = runs[r].told /\ h.gone = runs[r].gone
    BY <1>1, <1>8, <1>13 DEF HandlerKinds
  <2> HIDE DEF h
  <2>3. Grows(jobs, jobs') /\ jobs' \in Seq(JobKinds)
    BY <1>10, <1>13
  <2>4. /\ h.single # <<>> /\ Len(at) - Len(h.single) = sent + 1 /\ Len(h.single) <= Len(at)
        /\ \A k \in DOMAIN h.single : h.single[k] = at[(sent + 1) + k]
    BY <1>8, <1>13, <2>2
  <2>5. OneByOne(jobs', h)
    <3>1. Head(h.groups) = at /\ h.groups # <<>>
      BY <1>2, <2>2 DEF at
    <3>2. \A k \in 1 .. sent + 1 : With(jobs', h.uploads[at[k]])
      BY <1>11, <1>13, <2>2
    <3> QED
      BY <1>8, <2>2, <2>4, <3>1, <3>2 DEF OneByOne
  <2>6. Suits(jobs', runs[r])
    BY <1>1, <2>3, SuitsGrows
  <2>7. h.answer # Nothing => DOMAIN h.answer \subseteq DOMAIN jobs'
    BY <2>2, <2>6 DEF Suits
  <2>8. Suits(jobs', h)
    BY <2>2, <2>5, <2>6, <2>7, SuitsFrom
  <2>9. rows' = rows /\ uploading' = uploading /\ left' \in Lefts
    BY <1>5, <1>13
  <2>10. PanelTypes'
    BY <1>4, <2>3, <2>9, PanelGrows DEF UploadsInv, UploadTypes, PanelTypes
  <2>11. UploadTypes'
    <3>1. pending' \in Seq(Entries) /\ uploading' \in BOOLEAN
      BY <1>4, <2>9 DEF UploadsInv, UploadTypes
    <3> QED
      BY <1>4, <2>1, <2>2, <2>3, <2>9, <2>10, <3>1, HandlerTypes DEF UploadsInv
  <2>12. \A row \in rows : row.id[1] # 0 => (row \in rows /\ row.id[1] # r) \/ (row.id[1] = r /\ Owned(row, h))
    BY <2>2, OwnedStill
  <2> QED
    BY <2>1, <2>3, <2>8, <2>9, <2>11, <2>12, HandlerGoesOn
<1>14. CASE Spend("faults") /\ jobs' \in {jobs, jobs \o new} /\ BatchFails(r)
  <2>1. left' \in Lefts
    BY <1>5, <1>14, SpendTypes
  <2>2. jobs' \in Seq(JobKinds) /\ Grows(jobs, jobs')
    BY <1>5, <1>10, <1>14, GrowsItself
  <2> QED
    BY <1>4, <1>14, <2>1, <2>2, BatchFailsStep
<1> QED
  BY <1>12, <1>13, <1>14 DEF SendSingle, at, new, ids, one

--------------------------------------------------------------------------------
LEMMA UploadsStart ==
    ASSUME UploadsInit
    PROVE  UploadsInv
<1>1. left \in Lefts
  BY UploadsAssumption DEF UploadsInit, Lefts
<1>2. <<>> \in Heards /\ DOMAIN <<>> = {}
  BY DEF Heards
<1>3. PanelTypes
  BY <1>2 DEF UploadsInit, PanelTypes
<1>4. <<>> \in Seq(JobKinds) /\ <<>> \in Seq(HandlerKinds) /\ <<>> \in Seq(Entries)
  OBVIOUS
<1>5. UploadTypes
  BY <1>1, <1>3, <1>4 DEF UploadsInit, UploadTypes
<1> QED
  BY <1>5 DEF UploadsInit, UploadsInv

LEMMA UploadsKept ==
    ASSUME UploadsInv, [UploadsNext]_uploadsVars
    PROVE  UploadsInv'
<1>1. CASE Uploader
  <2>1. CASE \E b \in left.batches : Pick(b)
    BY <2>1, PickStep
  <2>2. CASE \E scope \in {"done", "all"} : Clear(scope)
    BY <2>2, ClearStep
  <2> QED
    BY <1>1, <2>1, <2>2, DialogStep, ConfirmStep, ToggleStep, LeaveStep DEF Uploader
<1>2. CASE \E b \in preparing : Prepared(b)
  BY <1>2, DialogStep
<1>3. CASE \E r \in DOMAIN runs : Handle(r)
  BY <1>3, SeedReadStep, SeedShownStep, SendStep, SendSingleStep, LastSteps, ScanStep DEF Handle
<1>4. CASE \E j \in DOMAIN jobs : JobEnds(j)
  BY <1>4, JobEndsStep
<1>5. CASE AskJobs \/ ShowJobs \/ LoseJobs
  BY <1>5, PollStep
<1>6. CASE Cleared \/ LoseClear
  BY <1>6, ClearedStep
<1>7. CASE UNCHANGED uploadsVars
  BY <1>7, IdleUploads
<1> QED
  BY <1>1, <1>2, <1>3, <1>4, <1>5, <1>6, <1>7 DEF UploadsNext

\* The invariant holds of every state of the uploads.
THEOREM UploadsInductive == UploadsSpec => []UploadsInv
<1>1. UploadsInit => UploadsInv
  BY UploadsStart
<1>2. UploadsInv /\ [UploadsNext]_uploadsVars => UploadsInv'
  BY UploadsKept
<1> QED
  BY <1>1, <1>2, PTL DEF UploadsSpec

\* executePending, handleUploads and the upload tracker: every file of a confirmed batch is
\* accounted for, and so is every row the panel shows before there is a job.
THEOREM UploadsAreSafe == UploadsSpec => []UploadsSafe
<1>1. UploadsInv => UploadsSafe
  <2> SUFFICES ASSUME UploadsInv PROVE UploadsSafe
    OBVIOUS
  <2>1. UploadsTypeOK
    <3>1. \A j \in DOMAIN jobs : jobs[j] \in JobKinds
      BY DEF UploadsInv, UploadTypes
    <3>2. \A r \in DOMAIN runs : runs[r].step \in {"seed", "seeded", "send", "single", "scan", "end", "cut"}
      BY HandlersAre DEF UploadsInv, HandlerKinds
    <3>3. \A row \in rows : row.status \in {"running", "error"}
      BY DEF UploadsInv, UploadTypes, PanelTypes, RowKinds
    <3>4. ASSUME NEW list \in Heards PROVE Range(list) \subseteq Statuses
      <4>1. PICK d \in SUBSET Nat : list \in [d -> Statuses]
        BY DEF Heards
      <4> QED
        BY <4>1 DEF Range
    <3>5. \A list \in {seed, fetched} : DOMAIN list \subseteq DOMAIN jobs /\ Range(list) \subseteq {"running", "done", "error"}
      <4>1. \A list \in {seed, fetched} : list \in Heards /\ DOMAIN list \subseteq DOMAIN jobs
        BY DEF UploadsInv, UploadTypes, PanelTypes
      <4> QED
        BY <3>4, <4>1 DEF Statuses
    <3>6. /\ pending \in Seq(Entries) /\ preparing \subseteq Seq(Entries)
          /\ {computing, confirm, uploading, open} \subseteq BOOLEAN
          /\ clearing \in {Nothing, "done", "all"}
      BY DEF UploadsInv, UploadTypes, PanelTypes
    <3> QED
      BY <3>1, <3>2, <3>3, <3>5, <3>6 DEF UploadsTypeOK, JobKinds, Statuses
  <2>2. Accounted
    <3> SUFFICES ASSUME NEW r \in DOMAIN runs, runs[r].step = "end", NEW e \in Range(runs[r].batch)
                 PROVE  e \in runs[r].told \/ With(jobs, e)
      BY DEF Accounted, With
    <3>1. Suits(jobs, runs[r]) /\ runs[r] \in HandlerKinds
      BY HandlersAre DEF UploadsInv
    <3>2. runs[r].batch # <<>>
      BY DEF Range
    <3>3. runs[r].groups = <<>> /\ runs[r].scans = <<>>
      BY <3>1, <3>2 DEF Suits
    <3>4. \A i : ~Due(runs[r], i)
      BY <3>3 DEF Due
    <3>5. Range(runs[r].scans) = {}
      BY <3>3 DEF Range
    <3> QED
      BY <3>1, <3>4, <3>5 DEF Suits
  <2>3. RowsOwned
    BY DEF RowsOwned, UploadsInv, Owned
  <2> QED
    BY <2>1, <2>2, <2>3 DEF UploadsSafe
<1> QED
  BY <1>1, UploadsInductive, PTL
================================================================================
