-------------------------------- MODULE Uploads --------------------------------
(***************************************************************************)
(* features/files/FilesPage.tsx (batches of picked or dropped files) and   *)
(* components/UploadTracker.tsx (the rows of the running uploads), against *)
(* the upload tracker of backend/core/tracker.py.                          *)
(*                                                                         *)
(* A picked file is an entry: its file, its folder and what is done with   *)
(* it.  The name of a stored file is its file and kind (b.ocr.txt for the  *)
(* picture b).  The explorer, which reloads after a batch, is FilesPage;   *)
(* a request and the service's work on it are one step.                    *)
(***************************************************************************)
EXTENDS Naturals, Sequences, FiniteSets, Functions, TLC

CONSTANTS
    Locals,       \* files on the user's disk
    Destinations, \* destination folders
    Nothing,      \* no answer, no clearing
    Outsets       \* bounds: the batches that may be picked; how many are, how many requests are
                  \* refused or lost, how often the history is cleared, the tracker opened or closed
                  \* and the page left; and whether leaving ends the handlers (a reload)

Uses == {"upload", "ocr", "transcribe"}
Entries == [file : Locals, folder : Destinations, kind : Uses]

ASSUME UploadsAssumption ==
    Outsets \subseteq [batches : SUBSET Seq(Entries), picks : Nat, faults : Nat, clears : Nat,
                      clicks : Nat, leaves : Nat, reload : BOOLEAN]

VARIABLES
    jobs,       \* the service's jobs, in the order they were created
    pending,    \* pendingFiles
    preparing,  \* batches whose quota preview is being computed
    computing,  \* pendingComputing
    confirm,    \* uploadConfirmOpen
    uploading,  \* uploading
    runs,       \* executePending handlers, and the listing a mount asks for
    rows,       \* optimisticJobs, also in local storage
    open,       \* trackerOpen, also in local storage
    seed,       \* seedFetched
    fetched,    \* jobsFetched: the status of each job listed (prevStatusRef holds the same)
    poll,       \* the answer of the refresh in flight
    clearing,   \* scope of the clearing in flight
    left        \* what is left of the bounds

batch == <<pending, preparing, computing, confirm, uploading>>
tracker == <<rows, open, seed, fetched, poll, clearing>>
uploadsVars == <<jobs, batch, runs, tracker, left>>

--------------------------------------------------------------------------------
(* The service: list_jobs, and what it makes of an upload. *)

Job(e, kind, status) ==
    [name |-> <<e.file, kind>>, folder |-> e.folder, status |-> status, listed |-> TRUE]

Accepted(e) == Job(e, e.kind, "running")

Listing == [j \in {k \in DOMAIN jobs : jobs[k].listed} |-> jobs[j].status]

JobEnds(j) ==
    /\ jobs[j].status = "running"
    /\ \E status \in {"done", "error"} : jobs' = [jobs EXCEPT ![j].status = status]
    /\ UNCHANGED <<batch, runs, tracker, left>>

Spend(what) == left[what] > 0 /\ left' = [left EXCEPT ![what] = @ - 1]
Losing(lost) == IF lost THEN Spend("faults") ELSE UNCHANGED left

--------------------------------------------------------------------------------
(* Choosing a batch. *)

UploadsInit ==
    /\ jobs = <<>> /\ pending = <<>> /\ preparing = {}
    /\ computing = FALSE /\ confirm = FALSE /\ uploading = FALSE
    /\ runs = <<>> /\ rows = {} /\ open = FALSE
    /\ seed = <<>> /\ fetched = <<>> /\ poll = Nothing /\ clearing = Nothing
    /\ left \in Outsets

Pick(b) ==
    /\ ~confirm
    /\ Spend("picks")
    /\ preparing' = preparing \cup {b}
    /\ computing' = TRUE
    /\ pending' = <<>>
    /\ UNCHANGED <<jobs, confirm, uploading, runs, tracker>>

Prepared(b) ==
    /\ b \in preparing
    /\ preparing' = preparing \ {b}
    /\ pending' = b
    /\ computing' = FALSE
    /\ confirm' = TRUE
    /\ UNCHANGED <<jobs, uploading, runs, tracker, left>>

Dismiss ==
    /\ confirm
    /\ confirm' = FALSE
    /\ UNCHANGED <<jobs, pending, preparing, computing, uploading, runs, tracker, left>>

\* The positions in increasing order.
Ascending(at) ==
    CHOOSE order \in Bijection(1 .. Cardinality(at), at) :
        \A i, j \in 1 .. Cardinality(at) : i < j => order[i] < order[j]

EntriesOf(b, at) == [n \in DOMAIN at |-> b[at[n]]]
OfKind(b, kind) == EntriesOf(b, Ascending({i \in DOMAIN b : b[i].kind = kind}))

\* Mutation of Groups: one request for all folders.
GroupsInOne(b) == <<Ascending(DOMAIN b)>>

\* The positions of the uploads in each folder, in the order the folders first occur.
Groups(b) ==
    LET firsts == Ascending({i \in DOMAIN b : \A j \in 1 .. i - 1 : b[j].folder # b[i].folder})
    IN [n \in DOMAIN firsts |-> Ascending({i \in DOMAIN b : b[i].folder = b[firsts[n]].folder})]

Handler(b) ==
    LET uploads == OfKind(b, "upload")
    IN [step |-> IF uploads = <<>> THEN "scan" ELSE "seed", batch |-> b, uploads |-> uploads,
        groups |-> Groups(uploads), single |-> <<>>, ids |-> <<>>,
        scans |-> OfKind(b, "ocr") \o OfKind(b, "transcribe"),
        answer |-> Nothing, told |-> {}, gone |-> FALSE]

Confirm ==
    /\ confirm /\ ~computing /\ ~uploading
    /\ confirm' = FALSE
    /\ IF pending = <<>>
       THEN UNCHANGED <<uploading, runs>>
       ELSE /\ runs' = Append(runs, Handler(pending))
            /\ uploading' = (OfKind(pending, "upload") # <<>>)
    /\ UNCHANGED <<jobs, pending, preparing, computing, tracker, left>>

--------------------------------------------------------------------------------
(* executePending and handleUploads.  The row of the i-th upload of handler r has the id <<r, i>>  *)
(* until the service has answered with job j, and the id <<0, j>> from then on.                    *)

TempRows(r) ==
    {[id |-> <<r, i>>, name |-> <<runs[r].uploads[i].file, "upload">>, status |-> "running"] :
        i \in DOMAIN runs[r].uploads}

SeedRead(r) ==
    /\ runs[r].step = "seed"
    /\ \E lost \in BOOLEAN :
          /\ Losing(lost)
          /\ runs' = [runs EXCEPT ![r].step = "seeded", ![r].answer = IF lost THEN Nothing ELSE Listing]
    /\ UNCHANGED <<jobs, batch, tracker>>

\* The effect on seedFetched: an empty list leaves the rows alone.
Seeded(list) == seed' = list /\ fetched' = IF list = <<>> THEN fetched ELSE list

SeedShown(r) ==
    /\ runs[r].step = "seeded"
    /\ runs' = [runs EXCEPT ![r].step = IF runs[r].batch = <<>> THEN "end" ELSE "send", ![r].answer = Nothing]
    /\ IF runs[r].gone
       THEN UNCHANGED <<rows, open, seed, fetched>>
       ELSE /\ IF runs[r].answer = Nothing THEN UNCHANGED <<seed, fetched>> ELSE Seeded(runs[r].answer)
            /\ IF runs[r].batch = <<>>
               THEN UNCHANGED <<rows, open>>
               ELSE rows' = TempRows(r) /\ open' = TRUE
    /\ UNCHANGED <<jobs, batch, poll, clearing, left>>

\* A group's requests carry the folder of the group.
NewJobs(at, r, n) ==
    [i \in 1 .. n |-> Accepted([EntriesOf(runs[r].uploads, at)[i] EXCEPT !.folder = runs[r].uploads[at[1]].folder])]

\* The answer names a job for every position of the group.
Numbered(r, at, ids) ==
    IF runs[r].gone THEN rows
    ELSE {IF \E n \in DOMAIN at : row.id = <<r, at[n]>>
          THEN [row EXCEPT !.id = <<0, ids[CHOOSE n \in DOMAIN at : row.id = <<r, at[n]>>]>>]
          ELSE row : row \in rows}

BatchFails(r) ==
    /\ runs' = [runs EXCEPT ![r].step = "scan", ![r].groups = <<>>, ![r].single = <<>>,
                            ![r].told = @ \cup Range(runs[r].uploads)]
    /\ rows' = IF runs[r].gone THEN rows
               ELSE {IF row.id[1] = r THEN [row EXCEPT !.status = "error"] ELSE row : row \in rows}
    /\ uploading' = IF runs[r].gone THEN uploading ELSE FALSE

Sent(r, at, new, ids) ==
    /\ jobs' = jobs \o new
    /\ rows' = Numbered(r, at, ids)
    /\ runs' = [runs EXCEPT ![r].groups = Tail(@), ![r].step = "send", ![r].ids = <<>>]
    /\ UNCHANGED uploading

NextIds(n) == [i \in 1 .. n |-> Len(jobs) + i]

\* A group of one file, or the first attempt at a larger group: one request.
Send(r) ==
    /\ runs[r].step = "send" /\ runs[r].groups # <<>>
    /\ LET at == Head(runs[r].groups)
       IN \/ Sent(r, at, NewJobs(at, r, Len(at)), NextIds(Len(at))) /\ UNCHANGED left
          \/ /\ Spend("faults")
             /\ \E n \in 0 .. Len(at) : jobs' = jobs \o NewJobs(at, r, n)
             /\ IF Len(at) = 1
                THEN BatchFails(r)
                ELSE runs' = [runs EXCEPT ![r].step = "single", ![r].single = at] /\ UNCHANGED <<rows, uploading>>
    /\ UNCHANGED <<pending, preparing, computing, confirm, open, seed, fetched, poll, clearing>>

\* uploadFilesToFolder, after the batch endpoint failed: every file by itself.
SendSingle(r) ==
    /\ runs[r].step = "single"
    /\ LET new == NewJobs(<<Head(runs[r].single)>>, r, 1)
           ids == Append(runs[r].ids, Len(jobs) + 1)
       IN \/ /\ UNCHANGED left
             /\ IF Len(runs[r].single) = 1
                THEN Sent(r, Head(runs[r].groups), new, ids)
                ELSE /\ jobs' = jobs \o new
                     /\ runs' = [runs EXCEPT ![r].single = Tail(@), ![r].ids = ids]
                     /\ UNCHANGED <<rows, uploading>>
          \/ /\ Spend("faults")
             /\ jobs' \in {jobs, jobs \o new}
             /\ BatchFails(r)
    /\ UNCHANGED <<pending, preparing, computing, confirm, open, seed, fetched, poll, clearing>>

\* The explorer has been reloaded after the last group.
Reloaded(r) ==
    /\ runs[r].step = "send" /\ runs[r].groups = <<>>
    /\ runs' = [runs EXCEPT ![r].step = "scan"]
    /\ uploading' = IF runs[r].gone THEN uploading ELSE FALSE
    /\ UNCHANGED <<jobs, pending, preparing, computing, confirm, tracker, left>>

\* runOcr or transcribeAudio, whose job is in the tracker too, then the upload of the text.
Scan(r) ==
    /\ runs[r].step = "scan" /\ runs[r].scans # <<>>
    /\ LET e == Head(runs[r].scans)
           read(status) == Append(jobs, Job(e, "upload", status))
       IN \/ /\ jobs' = Append(read("done"), Accepted(e))
             /\ runs' = [runs EXCEPT ![r].scans = Tail(@)]
             /\ UNCHANGED left
          \/ /\ Spend("faults")
             /\ jobs' \in {jobs, read("error"), read("done"), Append(read("done"), Accepted(e))}
             /\ runs' = [runs EXCEPT ![r].scans = Tail(@), ![r].told = @ \cup {e}]
    /\ UNCHANGED <<batch, tracker>>

Finish(r) ==
    /\ runs[r].step = "scan" /\ runs[r].scans = <<>>
    /\ runs' = [runs EXCEPT ![r].step = "end"]
    /\ pending' = IF runs[r].gone THEN pending ELSE <<>>
    /\ UNCHANGED <<jobs, preparing, computing, confirm, uploading, tracker, left>>

--------------------------------------------------------------------------------
(* UploadTrackerPanel. *)

\* mergedJobs: a row of the page stands in until the service lists its job, or one with its name.
Waiting(row) ==
    IF row.id[1] = 0 THEN row.id[2] \notin DOMAIN fetched
    ELSE \A j \in DOMAIN fetched : jobs[j].name # row.name

Shown ==
    {[id |-> <<0, j>>, name |-> jobs[j].name, status |-> fetched[j]] : j \in DOMAIN fetched}
    \cup {row \in rows : Waiting(row)}

ShouldTrack == open \/ \E row \in Shown \cup rows : row.status = "running"

AskJobs ==
    /\ ShouldTrack /\ poll = Nothing
    /\ poll' = Listing
    /\ UNCHANGED <<jobs, batch, runs, rows, open, seed, fetched, clearing, left>>

\* Mutation of ShowJobs: a job that is shown is not shown again.
ShowNewJobs ==
    /\ poll # Nothing
    /\ fetched' = fetched @@ poll
    /\ poll' = Nothing
    /\ UNCHANGED <<jobs, batch, runs, rows, open, seed, clearing, left>>

ShowJobs ==
    /\ poll # Nothing
    /\ fetched' = poll
    /\ poll' = Nothing
    /\ UNCHANGED <<jobs, batch, runs, rows, open, seed, clearing, left>>

LoseJobs ==
    /\ poll # Nothing
    /\ Spend("faults")
    /\ poll' = Nothing
    /\ UNCHANGED <<jobs, batch, runs, rows, open, seed, fetched, clearing>>

Toggle ==
    /\ Spend("clicks")
    /\ open' = ~open
    /\ UNCHANGED <<jobs, batch, runs, rows, seed, fetched, poll, clearing>>

Clear(scope) ==
    /\ open /\ clearing = Nothing
    /\ Spend("clears")
    /\ clearing' = scope
    /\ jobs' = [j \in DOMAIN jobs |->
                  [jobs[j] EXCEPT !.listed = @ /\ scope = "done" /\ jobs[j].status = "running"]]
    /\ UNCHANGED <<batch, runs, rows, open, seed, fetched, poll>>

Running(list) == [j \in {k \in DOMAIN list : list[k] = "running"} |-> list[j]]

Cleared ==
    /\ clearing # Nothing
    /\ clearing' = Nothing
    /\ IF clearing = "all"
       THEN rows' = {} /\ seed' = <<>> /\ fetched' = <<>>
       ELSE /\ rows' = {row \in rows : row.status = "running"}
            /\ seed' = Running(seed)
            /\ fetched' = IF Running(seed) = <<>> THEN Running(fetched) ELSE Running(seed)
    /\ UNCHANGED <<jobs, batch, runs, open, poll, left>>

LoseClear ==
    /\ clearing # Nothing
    /\ Spend("faults")
    /\ clearing' = Nothing
    /\ UNCHANGED <<jobs, batch, runs, rows, open, seed, fetched, poll>>

\* Another route, or a reload, and back: the rows and the open panel come from local storage.  A
\* handler goes on without the page, unless the reload ended it.
Mount(asks) ==
    [step |-> IF asks THEN "seed" ELSE "end", batch |-> <<>>, uploads |-> <<>>, groups |-> <<>>,
     single |-> <<>>, ids |-> <<>>, scans |-> <<>>, answer |-> Nothing, told |-> {}, gone |-> FALSE]

Leave ==
    /\ Spend("leaves")
    /\ pending' = <<>> /\ preparing' = {}
    /\ computing' = FALSE /\ confirm' = FALSE /\ uploading' = FALSE
    /\ runs' = Append([r \in DOMAIN runs |->
                         [runs[r] EXCEPT !.gone = TRUE,
                                         !.step = IF left.reload /\ @ # "end" THEN "cut" ELSE @]],
                      Mount(open))
    /\ seed' = <<>> /\ fetched' = <<>> /\ poll' = Nothing /\ clearing' = Nothing
    /\ UNCHANGED <<jobs, rows, open>>

--------------------------------------------------------------------------------
Uploader ==
    \/ \E b \in left.batches : Pick(b)
    \/ Dismiss \/ Confirm \/ Toggle \/ Leave
    \/ \E scope \in {"done", "all"} : Clear(scope)

Handle(r) ==
    SeedRead(r) \/ SeedShown(r) \/ Send(r) \/ SendSingle(r) \/ Reloaded(r) \/ Scan(r) \/ Finish(r)

UploadsNext ==
    \/ Uploader
    \/ \E b \in preparing : Prepared(b)
    \/ \E r \in DOMAIN runs : Handle(r)
    \/ \E j \in DOMAIN jobs : JobEnds(j)
    \/ AskJobs \/ ShowJobs \/ LoseJobs \/ Cleared \/ LoseClear

\* The panel's timer, the browser and the service go on by themselves; a user need not act.
Workers == 1 .. 6
Fairness ==
    /\ WF_uploadsVars(AskJobs) /\ WF_uploadsVars(ShowJobs \/ LoseJobs) /\ WF_uploadsVars(Cleared)
    /\ \A r \in Workers : WF_uploadsVars(r \in DOMAIN runs /\ Handle(r))
    /\ \A j \in Workers : WF_uploadsVars(j \in DOMAIN jobs /\ JobEnds(j))

UploadsSpec == UploadsInit /\ [][UploadsNext]_uploadsVars /\ Fairness

--------------------------------------------------------------------------------
\* Types of the state of the service, the dialog, the handlers and the panel.
UploadsTypeOK ==
    /\ \A j \in DOMAIN jobs :
          jobs[j] \in [name : Locals \X Uses, folder : Destinations, status : {"running", "done", "error"},
                       listed : BOOLEAN]
    /\ pending \in Seq(Entries) /\ preparing \subseteq Seq(Entries)
    /\ {computing, confirm, uploading, open} \subseteq BOOLEAN
    /\ \A r \in DOMAIN runs :
          runs[r].step \in {"seed", "seeded", "send", "single", "scan", "end", "cut"}
    /\ \A row \in rows : row.status \in {"running", "error"}
    /\ \A list \in {seed, fetched} :
          DOMAIN list \subseteq DOMAIN jobs /\ Range(list) \subseteq {"running", "done", "error"}
    /\ clearing \in {Nothing, "done", "all"}

\* Every file of a confirmed batch whose handler ran to its end is with the service, in the folder
\* it was dropped on, or the user was told that it failed: whichever groups the batch was sent in,
\* and whatever the service had accepted when a request was refused or its answer lost.
Accounted ==
    \A r \in DOMAIN runs :
        runs[r].step = "end" =>
            \A e \in Range(runs[r].batch) :
                \/ e \in runs[r].told
                \/ \E j \in DOMAIN jobs : jobs[j].name = <<e.file, e.kind>> /\ jobs[j].folder = e.folder

\* A row without a job stays "running" only while the handler that made it can still turn it into
\* a job's row or into an error, unless the page was left meanwhile.
RowsOwned ==
    \A row \in rows :
        (row.id[1] # 0 /\ row.status = "running" /\ ~runs[row.id[1]].gone) =>
            runs[row.id[1]].step \in {"send", "single"}

\* A confirmed batch (uploadToFolder) is accounted for file by file, and so is each row the
\* panel shows for it before there is a job.
UploadsSafe == UploadsTypeOK /\ Accounted /\ RowsOwned

\* While the panel tracks uploads it ends up showing every job the service lists, with the job's
\* own status: lost requests, a seed that overtook a poll and a clearing do not leave it behind.
TrackerSettles ==
    <>[](ShouldTrack =>
            \A j \in DOMAIN jobs : jobs[j].listed => j \in DOMAIN fetched /\ fetched[j] = jobs[j].status)
================================================================================
