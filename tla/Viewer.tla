--------------------------------- MODULE Viewer ---------------------------------
(***************************************************************************)
(* The preview of a file on the files page (features/files/FilesPage.tsx   *)
(* with components/FileViewer.tsx): the file that is open, what was        *)
(* fetched of it, the search inside it, and the way in from the panel of   *)
(* the uploads, which looks the upload up in the listing or asks for one.  *)
(*                                                                         *)
(* The preview and the panel shut out the rest of the page; the page's own *)
(* deletion of a file reads as one from elsewhere, because the handler has *)
(* seen no preview open.  An upload has the id of its file.                *)
(***************************************************************************)
EXTENDS Naturals, FiniteSets

CONSTANTS
    Docs,     \* files
    Written,  \* those with a text
    DocName,  \* their names
    Queries,  \* texts to search for
    Matches,  \* how often a text is found in a file
    MaxLooks  \* bound: what the user does, and files deleted or requests failed

NoDoc == "no file"
NoQuery == "no query"

VARIABLES
    there,   \* the service's files
    seen,    \* files: the page's listing
    viewer,  \* viewerId
    held,    \* content: the files whose content the page has
    fetches, \* getFileContent calls under way
    query,   \* infileQuery
    place,   \* infileIdx
    tracker, \* trackerOpen
    seeking, \* uploads looked for in a new listing
    typedIn, \* history: the file that was open when the query was typed
    swapped, \* history: an upload was opened over the file that was open
    looks    \* what is left of the bound

viewerVars == <<there, seen, viewer, held, fetches, query, place, tracker, seeking, typedIn,
                swapped, looks>>

--------------------------------------------------------------------------------
ViewerInit ==
    /\ there = Docs /\ seen \in SUBSET Docs
    /\ viewer = NoDoc /\ held = {} /\ fetches = {}
    /\ query = NoQuery /\ place = 0
    /\ tracker = FALSE /\ seeking = {}
    /\ typedIn = NoDoc /\ swapped = FALSE
    /\ looks = MaxLooks

Look == looks > 0 /\ looks' = looks - 1

\* canSearchInFile: a text, once it is there.
Searchable(v, h) == v \in Written \cap h

\* matchCount
Count(v, h, q) == IF Searchable(v, h) /\ q # NoQuery THEN Matches[v, q] ELSE 0

\* The two effects on infileIdx run after one render: the first goes to the first match of a
\* new query or file; the second, which still sees the old place, overrules it with the last
\* match when that place is too high and the count is another.
Placed(v, h, q) ==
    LET count == Count(v, h, q) IN
    IF count # Count(viewer, held, query) /\ place >= count
    THEN IF count > 0 THEN count - 1 ELSE 0
    ELSE IF <<v, q>> # <<viewer, query>> THEN 0 ELSE place

Shows(v, h, q) == viewer' = v /\ held' = h /\ query' = q /\ place' = Placed(v, h, q)

\* openViewer
Opens(v) ==
    /\ Shows(v, held, query)
    /\ fetches' = IF v \in held THEN fetches ELSE fetches \cup {v}

--------------------------------------------------------------------------------
(* Files come and go. *)

DeletedFromService(v) ==
    /\ v \in there /\ Look
    /\ there' = there \ {v}
    /\ UNCHANGED <<seen, viewer, held, fetches, query, place, tracker, seeking, typedIn, swapped>>

Relist ==
    /\ seen # there /\ seen' = there
    /\ UNCHANGED <<there, viewer, held, fetches, query, place, tracker, seeking, typedIn, swapped,
                   looks>>

Fetched(v) ==
    /\ v \in fetches \cap there
    /\ fetches' = fetches \ {v}
    /\ Shows(viewer, held \cup {v}, query)
    /\ UNCHANGED <<there, seen, tracker, seeking, typedIn, swapped, looks>>

\* The preview goes on waiting until it is opened again.
FetchFails(v) ==
    /\ v \in fetches /\ (v \in there => Look) /\ (v \notin there => UNCHANGED looks)
    /\ fetches' = fetches \ {v}
    /\ UNCHANGED <<there, seen, viewer, held, query, place, tracker, seeking, typedIn, swapped>>

--------------------------------------------------------------------------------
(* The preview. *)

Open(v) ==
    /\ viewer = NoDoc /\ ~tracker /\ v \in seen
    /\ Look
    /\ Opens(v)
    /\ UNCHANGED <<there, seen, tracker, seeking, typedIn, swapped>>

Close ==
    /\ viewer # NoDoc
    /\ viewer' = NoDoc /\ query' = NoQuery /\ place' = 0
    /\ swapped' = FALSE
    /\ UNCHANGED <<there, seen, held, fetches, tracker, seeking, typedIn, looks>>

InputOffered == viewer \in seen /\ Searchable(viewer, held)

Type(q) ==
    /\ InputOffered /\ q # query
    /\ Look
    /\ Shows(viewer, held, q)
    /\ typedIn' = viewer /\ swapped' = FALSE
    /\ UNCHANGED <<there, seen, fetches, tracker, seeking>>

Clear ==
    /\ viewer # NoDoc /\ query # NoQuery
    /\ query' = NoQuery /\ place' = 0
    /\ UNCHANGED <<there, seen, viewer, held, fetches, tracker, seeking, typedIn, swapped, looks>>

MatchCount == Count(viewer, held, query)

GoTo(i) ==
    /\ MatchCount > 0
    /\ place' = i
    /\ UNCHANGED <<there, seen, viewer, held, fetches, query, tracker, seeking, typedIn, swapped,
                   looks>>

\* Mutation of NextMatch: no way round from the last match.
NextOnward == GoTo(place + 1)

NextMatch == GoTo((place + 1) % MatchCount)
PrevMatch == GoTo((place + MatchCount - 1) % MatchCount)

--------------------------------------------------------------------------------
(* The panel of the uploads. *)

TurnPanel ==
    /\ viewer = NoDoc /\ Look
    /\ tracker' = ~tracker
    /\ UNCHANGED <<there, seen, viewer, held, fetches, query, place, seeking, typedIn, swapped>>

\* findUploadedFile: the upload's own file, else one of the same name.
Finds(items, u) ==
    IF u \in items THEN {u} ELSE {v \in items : DocName[v] = DocName[u]}

ShowsUpload(v) ==
    /\ tracker' = FALSE
    /\ Opens(v)
    /\ swapped' = (viewer # NoDoc)
    /\ UNCHANGED typedIn

OpenUpload(u) ==
    /\ viewer = NoDoc /\ tracker /\ Look
    /\ UNCHANGED <<there, seen>>
    /\ IF Finds(seen, u) = {}
       THEN /\ seeking' = seeking \cup {[upload |-> u, step |-> "asked", found |-> {}]}
            /\ UNCHANGED <<viewer, held, fetches, query, place, tracker, typedIn, swapped>>
       ELSE UNCHANGED seeking /\ \E v \in Finds(seen, u) : ShowsUpload(v)

ServeListing(s) ==
    /\ s.step = "asked"
    /\ seeking' = (seeking \ {s}) \cup {[s EXCEPT !.step = "answered", !.found = there]}
    /\ UNCHANGED <<there, seen, viewer, held, fetches, query, place, tracker, typedIn, swapped,
                   looks>>

\* The answer replaces the page's listing, and opens over what is open by then.
UploadListed(s) ==
    /\ s.step = "answered"
    /\ seeking' = seeking \ {s} /\ seen' = s.found
    /\ UNCHANGED <<there, looks>>
    /\ IF Finds(s.found, s.upload) = {}
       THEN UNCHANGED <<viewer, held, fetches, query, place, tracker, typedIn, swapped>>
       ELSE \E v \in Finds(s.found, s.upload) : ShowsUpload(v)

ListingFails(s) ==
    /\ Look
    /\ seeking' = seeking \ {s}
    /\ UNCHANGED <<there, seen, viewer, held, fetches, query, place, tracker, typedIn, swapped>>

--------------------------------------------------------------------------------
ViewerNext ==
    \/ \E v \in Docs : DeletedFromService(v) \/ Fetched(v) \/ FetchFails(v)
    \/ \E v \in Docs : Open(v) \/ OpenUpload(v)
    \/ \E q \in Queries : Type(q)
    \/ Relist \/ Close \/ Clear \/ NextMatch \/ PrevMatch \/ TurnPanel
    \/ \E s \in seeking : ServeListing(s) \/ UploadListed(s) \/ ListingFails(s)

--------------------------------------------------------------------------------
(* Properties. *)

\* The mark the viewer highlights and scrolls to (highlightHtml): none when nothing is found.
Marked == IF MatchCount > 0 THEN {place} \cap 0..MatchCount - 1 ELSE {}

\* A match is marked whenever there is one, although the place and the matches change apart:
\* with the query, with the file and when the text comes in late.
MatchMarked == MatchCount > 0 => Marked # {}

\* A search ends with the preview it was made in: what is searched for was typed while this
\* file was open, unless an upload was opened over it.
SearchEnds == query # NoQuery => viewer # NoDoc /\ (swapped \/ typedIn = viewer)
================================================================================
