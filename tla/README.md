# LexBot Pro: TLA+ models and proofs

LexBot Pro (`src/`) is a FastAPI backend (`src/backend`) with a React application
(`src/static/spa`): users upload documents, ask questions over them and run
*workflows* (a job that reads documents and writes a structured result, which the
user then edits, refines, branches and saves). Redis keeps quotas, sessions and
upload progress; Firestore keeps subscriptions, runs, conversations and the file
index; Cloud Storage keeps the files; Pinecone keeps the vectors.

Little of it happens one step after the other. In the backend requests interleave on an
event loop or in a thread pool, jobs run in a pool of two threads, and several server
processes share Redis and Firestore. In the browser every handler of a page waits for
answers while timers poll, other handlers run, other tabs change the same data and the
page may be left. The models in this directory are about what that does to the state.

Contents: 1 inventory, 2 plan, 3 modules, 4 runs, 5 bounds, 6 fairness, 7 proofs,
8 what the code does against its documents, 9 what is not modelled.

## 1. Inventory

Backend:

| Component | State | Operations | Hard because |
|---|---|---|---|
| Usage counters (`core/rate_limit.py`) | `rl:{uid}:meta`, `rl:{uid}:usage:{period}` | charge messages, uploads, workflows, transcription, OCR; set caps, plan, anchor; reset; snapshot | two Lua scripts are atomic, all else is a chain of commands; it admits what it cannot count |
| Plan synchronisation (`core/plan.py`, `routers/limits.py`) | `plan:{uid}:last`, `plan:{uid}:anchor_last`, the meta hash above; reads `customers/{uid}/subscriptions`, `users/{uid}.plan_override` | one refresh before every charge | 10 to 15 commands per refresh, refreshes of one user overlap, errors are swallowed block by block |
| Workflow runs (`features/workflows/service.py`) | a document per run with its versions, a document per artifact, three dictionaries of the process | create, execute, rename, select, edit, refine, branch, save, lay out, delete | load, change, store without lock or transaction; a job and requests at once; restart loses jobs and tombstones |
| Job pool (`core/background_jobs.py`) | one executor | start, stop, submit | submission against shutdown |
| Redis clients (`core/redis_utils.py`) | a client per event loop | get, init, close | loops end and their addresses are used again |
| Upload pipeline (`features/files/service.py`, `core/tracker.py`) | `ut:job:{id}`, `ut:user:{uid}:jobs`, a temporary file | receive, queue, extract, charge, store, index, ingest, clear | each step may fail, most failures are swallowed; the job is lost at a restart |
| Files and folders (`features/files/service.py`, `index_store.py`) | blobs, index documents, folder documents, markers, chunks, vectors | list, rename, move, paste, delete | five stores changed one after the other |
| Account deletion (`features/profile/account_deletion.py`) | all of the above | delete | order of the stores, retry, requests running meanwhile |
| Sessions, invites (`features/auth`) | `s:{sid}`, `su:{uid}`, `ml:{code}` | create, update, revoke, revoke all, consume | expiry and revocation against writes |
| Chat history (`features/chat_history`) | a document per conversation, its messages | create, append, rename, delete | append against delete and rename |
| Coverage ledger (`features/context_engine/ledger.py`) | a status per target, passes | record pass, mark, continue? | statuses that go back, termination |
| PII vault (`core/pii.py`) | a hash document and a token document per value | get or create a token | two documents, concurrent creation, crash |
| Billing checkout (`features/billing/router.py`) | `checkout_sessions/{id}` | choose a price, poll for the URL | an answer after the timeout |

Web application (`src/static/spa/src/features`):

| Component | State | Operations | Hard because |
|---|---|---|---|
| Workflows page (`workflows/WorkflowsPage.tsx`) | the list of runs, the linked run, the selection, filters, dialogs | poll, link, select, launch, rename, delete, change | polls and calls answer in any order and each replaces the list |
| Output drafts (same page) | drafts in `sessionStorage` and in a ref, locks of AI edits and saves | type, ask an AI edit, cancel, save, leave, reload | a page that was left keeps its copy and its requests |
| Versions of a result (`WorkflowResultDetails.tsx`) | the page's copy of the run, dragged positions, one busy slot per call | drag, label, select, refine, edit | every call answers with the whole run |
| Runs pane and notices | lists compared with the last, filters, panels | poll, tell, select, filter | an end is told by comparing two lists that may be stale |
| Launchers (`LegalWorkflowLauncher.tsx`, ...) | the form, the list of files, the request | open, fill in, submit, close | lists arrive while the form is filled in |
| Markdown editor (`MarkdownRichEditor.tsx`) | blocks, the last markdown sent | type, focus, blur | text is converted both ways at each visit |
| Chat client (`chat/chatStore.ts`, `ChatPage.tsx`) | cached threads and lists of a tab, fetches, timers, broadcasts | send, create, rename, delete, migrate | several tabs; a fetch shared while it is under way; a migration call by call |
| Chat view (`ChatPage.tsx`) | composer, rows, marks and sources, dialogs | type, send, switch, open a source | marks name sources that are dropped and renumbered |
| Files page (`files/FilesPage.tsx`) | files, folders, tree, open folder, clipboard, moves shown ahead | list, move, paste, rename, delete | optimistic moves, overlapping handlers, another tab |
| Explorer rows, desktop drop, preview (same page) | selection, menus, drags; overlay and dropped items; search in a file | click, drag, drop, open, search | the list changes below a gesture; effects run after one another |
| Uploads client (`FilesPage.tsx`, `UploadTracker.tsx`) | batches, optimistic rows in `localStorage`, polls | confirm, send, fall back, clear, leave | a batch refused or lost half-way is sent again file by file |
| Sessions of the browser (`auth/`) | Firebase's account, the cookie, the page's user, one shared exchange | sign in five ways, change the account, sign out, reload | callbacks, loads and exchanges overlap |
| Profile page | methods, the change waiting for a verification, dialogs | add, remove, change, verify, delete | a change waits in a ref |
| Billing page | limits, subscription, catalog in two copies | load, poll, listen, check out | answers overtake each other; listeners outlive their account |
| Internal evaluation page | jobs, results, the review | start, poll, load, save | loads overtake each other |

What makes each correct:

* **Counters**: no counter passes its cap; what is admitted is counted; a period's
  usage is independent of other periods.
* **Synchronisation**: the hash follows the subscription in the end; usage is wiped
  when a paid period starts and at no other time; the free quota never comes back.
* **Runs**: a run ends; no version is lost; a deleted run stays deleted and leaves no
  artifact; nothing is shown as completed without having been paid for.
* **Uploads**: a job ends as done or error; a file that is done is stored, indexed and
  searchable; tokens charged correspond to files stored.
* **Files**: index and Storage agree when nobody is at work; a rename or move loses no
  file; a deletion leaves nothing.
* **Account deletion**: once it has ended nothing of the user is left, and it can be retried
  after any failure.
* **Sessions**: a revoked session never comes back; an invite is used once.
* **Chat history**: a deleted conversation stays deleted; renames are not undone.
* **Ledger**: covered stays covered; retrieval ends.
* **Vault**: one token per value, and every token that was handed out can be turned back.
* **Pages**: what is shown is what the service holds, once calls that are under way have
  answered; nothing the user typed or asked for is overwritten, lost, applied twice or applied
  elsewhere; a call that fails is reported and leaves nothing behind; what is polled arrives.
* **Browser sessions**: Firebase, cookie and page come to rest with one account, and no
  session is opened for an unverified e-mail.

How they interact: every request that costs something first calls
`sync_caps_and_plan` and then one `add_*` function (`rag/router.py:33,67`,
`rag/contracts_router.py:233`, `transcription/router.py:48`, `ocr/router.py:59`,
`files/service.py:218`, `workflows/service.py:1012,1132,1829`). Uploads and workflow
runs do so from a job. Account deletion removes the keys and documents of all of
them. The browser's pages call the routers of the same name; a page shares nothing with another page
but the service, the storage of the browser and the user of `AuthProvider`.
`PROJECT.json` lists the hazards of each component, at their lines.

## 2. Plan

Done, in this order:

1. `RateLimit`, `PlanSync` (extends `RateLimit`): the quota, on the path of every request.
2. `PlanSyncProofs`: types, caps and the free quota, for all values of the constants.
3. `WorkflowRuns`: the product's central object, at the service.
4. The web application, which is most of the code: first what several pages, tabs or
   handlers share (`WorkflowsPage`, `OutputDrafts`, `ChatStore` and `ChatPage`, `FilesPage`,
   `Uploads`, `Session`), then the pages and views whose state is their own (`Pages`, `Views` and their twelve).
5. `ThreadCopies`, the abstract promise of the chat store; `ChatProofs`, that the tabs keep it.
6. The proofs: `RunsProofs`, `PageProofs` (the page and its drafts), `SessionProofs`, `FilesProofs`, and for the
   pages and views `ChangeProofs` and `ViewProofs`; section 7 says what each proves.

Left:

7. `RedisClients`: the registry, with loops whose addresses are used again; used by jobs.
8. The service's side of uploads, step by step (extract, charge, store, index, ingest), and of
   files (index, Storage, chunks, vectors); `AccountDeletion`, the order of the stores.
9. `PiiVault`, `CoverageLedger`, `JobPool`: small ones.
10. `Quota`, an abstract counter that `CheckAndAdd` implements, as a refinement theorem.

## 3. Modules

### RateLimit (`core/rate_limit.py`)

One user. `meta` is the hash `rl:{uid}:meta`, `usage[p]` the hash of period `p`, `charge[c]`
the locals of request `c` between its commands, `now` the clock. One action is one Redis
command or one script: `LoadMeta` (HGETALL), `WriteDefault` (HSET of the defaults by a
request that saw none), `CheckAndAdd` and `CheckAndAddFileProcessing` (the scripts),
`RecordBreakdown` (HINCRBY), `FailOpen` (the script raises and the charge is admitted),
`Abandon` (a request that fails or dies). The period of a charge is computed when the hash is
loaded and used later, as in the code.

Abstractions: the six caps are always written together and are one number; of the plain
counters, which have the same script, `messages` and `workflow` stand for all; the three
`workflow_*_tokens` fields matter only by being there, which is `wfSeen`; the field
`upload_tokens` of old data is never written and is zero. `anchor = 0` with a paid plan is
period 0, as `_period_id_for_user` answers.

### PlanSync (`core/plan.py`)

Extends `RateLimit` with the refresh. `sub` is what Firestore says; `Subscribe`,
`Cancel`, `Renew` and `Override` change it (code outside the repository: Stripe's
extension and support). `sync[s]` holds the locals of refresh `s`; its program points are
the commands of `_refresh_and_handle_transition`, in order:

    idle -> getPlan -> getAnchor -> [upFlag upLoad upZero] -> [reAnchor reFlag reLoad reZero]
         -> caps -> plan -> [flag] -> [anchor] -> cachePlan -> [cacheAnchor] -> idle

`RedisError` goes to the block after the one that raised, as the `except` clauses do;
`FetchSnapshotFails` answers FREE; `Die` ends the request anywhere. `ExpireCache` lets one of
the cached keys expire. `wiped` is a history variable: resets done for each anchor.
`get_user_plan` reads a key that is never written, so it is one more refresh.

### WorkflowRuns (`features/workflows/service.py`)

One run of one user. `doc` is its document, `arts` the artifact documents, `cached`,
`artCache` and `tomb` the three dictionaries of the process; `act[a]` is the program counter
and the copy of each thread: the job and the requests. `phase` and `billed` are history
variables.

Every operation loads the document, changes its copy and stores the copy, so each is one
action that loads and computes (`Rename`, `Touch`, `Select`, `AddVersion`, `Overwrite`,
`SaveRun`, `SaveVersion`, and `Start`, `Generate...` of the job) followed by the steps of
`_persist_artifact` and `_persist_run` that all of them share:

    [art -> artWrite] -> check -> cache -> write

`check` looks at the tombstone, `cache` looks again under the lock, `write` does not.
`delete_run` is `mark -> uncache -> delDoc -> delArts`. `AddVersion` is both a manual edit saved
as a new version, which is free, and a refinement or branch, which stores nothing unless its
tokens are accepted. `Touch` is the operations that change labels and layout only.

Abstractions: a version has an id, a number, a parent, a text and an artifact; titles, labels,
layout and metadata are left out, and `set(merge=True)` of all fields is an assignment (nested
metadata that Firestore would merge is not told apart). Firestore answers reads. A get that
finds no document falls back on the cache; a run without a document is in creation or behind
its tombstone, where that finds nothing. The two locked sections of `Uncache` are one step: no
other action reads both. Charging is a choice here (`Generate` or `GenerateRefused`); what decides
it is `RateLimit`.

### WorkflowsPage (`WorkflowsPage.tsx`)

`srv` is what the service holds, `runs` the page's list, `linked` the run in the address,
`selected` the details pane. `AskList` asks, `AnswerList` fixes the answer, `ShowList` replaces the list; the fetch of a linked run
starts, and is cancelled, by the effect on the list, which belongs to every action that sets
the list, as does the repair of the selection. The filters see a run that is being refined (`refining`) as running, as `workflowDisplayStatus` does. Calls (`SubmitLaunch`, `SubmitRename`, `SubmitDelete`,
`ChangeVersion`, `Refine`) are served and answered, refused or lost in steps of their own. The first 24 runs are what a poll
returns; `Old` are those beyond.

### OutputDrafts (`WorkflowsPage.tsx`, `WorkflowResultDetails.tsx`)

Drafts live in `sessionStorage` and in the ref of each instance of the page. An instance that was
left keeps its ref and its requests, and an answer that reaches it writes the whole ref. `foreign`
records that one did: from then on the locks need not hold (section 8), and the properties speak of what
comes before. `control` is the abort controller of each run; the catch of an aborted edit runs later
than the abort. `slot` is `artifactBusyRunId`, one for the page: the last save takes it, and the end of a save
frees it when it names that save's run. A run is locked by it only as long as no other save has taken it.

### ChatStore, ChatPage, ThreadCopies (`chatStore.ts`, `ChatPage.tsx`, `features/chat_history`)

`ChatStore` is one store per tab: lists, threads, the fetch of each key (one under way), timers,
broadcasts between tabs and `Move*`, the migration of the conversations an older release kept, call by
call. `ChatPage` adds the page: the selected conversation, sending (append, ask, append), new,
rename, delete, the typing flags and `Reload`. Every action of the store that emits includes what the
page's callback does (`Settle`). `version[c]` counts the writes to a thread and each copy carries the
version it was read at, for the refinement.

`ThreadCopies` is the promise: a reader's copy of a thread only moves forward, or is forgotten.
`Copies == INSTANCE ThreadCopies WITH held <- ...ver` is the mapping, and `ReadsForward == Copies!Spec`.

### FilesPage (`FilesPage.tsx`, `features/files/service.py`)

`place` and `made` are the index; `files`, `folders` and `tree` what the page shows. Each handler is a
record that goes through its calls and the two reads of the reload after it. A move shows its result
at once, with a snapshot that a failure restores. `Elsewhere` is another tab. `crossed`, `mixed` and
`astray` are history: two optimistic moves overlapped; anything at all overlapped, was lost or came from elsewhere; the last reload
checked another folder than the one that was open.

### Uploads (`FilesPage.tsx`, `api.ts`, `UploadTracker.tsx`, `core/tracker.py`)

A batch goes from `pending` over the quota preview and the confirmation to its handler, which sends it as a
whole, falls back to file by file, reloads and scans. Rows before there is a job are kept in `localStorage`; the
panel's polls, the seed of a mount and `Clear` answer in any order. The service's jobs end as done or error.
Its constants and actions have names of their own (`Locals`, `Destinations`, `Nothing`, `UploadsNext`), so that the proofs can extend it beside `FilesPage`.

### Session (`features/auth`, both sides)

`fb`, `cookie` and `user` are the three accounts; `exchange` is the shared exchange of
`AuthProvider`, `events` the callbacks of Firebase that wait for the first load, `flow` the handlers of the sign-in
pages, the profile page and the menu. `mishaps` is history: a request failed, an exchange or sign-out was
overtaken by a change of account, a callback threw an account out.

### Route, Pages, Views, Visits (`App.tsx`, `routes.tsx`)

A page is mounted with its initial state and dies with its `route`, so a behaviour is one visit to
one of twelve. `Pages` composes those in which the user changes something, `Views` those that show what happens elsewhere;
they share `route` and nothing else. `Visits` is both, for the run: each of its steps is a step of the one and leaves the other
as it is, so that what is proved of `PagesSpec` and of `ViewsSpec` holds of it. Each page is a module of its own, the first five and
`Versions` in `Pages`, the others in `Views`:

| Module | View |
|---|---|
| `Profile` | sign-in methods, e-mail, password, the verification in between (`ReauthDialog.tsx`), deletion of the account |
| `Billing` | limits loaded and polled, the listener to the subscription, checkout and portal |
| `PlanCatalog` | product and prices mirrored to Firestore document by document, two listeners, the server's lookup (the mirrored product, the mirrored prices, then Stripe), the price a checkout picks |
| `Launcher` | both launchers and the catalog dialog, from opening to the submitted request |
| `RichEditor` | `markdownToEditableHtml` and back, block by block, and the visits of the editor |
| `Versions` | the map of versions, labels, dragging, refinement, which outputs are being edited, the dialog that edits a text |
| `InternalEvals` | jobs, polls, refreshes, loads and reviews; a result is written before its job ends and stays if the job then fails or is lost |
| `RunsPane` | notices of a run's end, search, filters, phone layout, follow-ups |
| `Explorer` | selection by click, key, rubber band and menu; navigation; dragging of rows |
| `ChatPane` | composer, marks and the sources they open, dialogs, titles that arrive, switching |
| `OsDrop` | the overlay's counter, drops here and elsewhere, the reading of dropped files and directories |
| `Viewer` | the preview, late contents, search in a file, the way in from the uploads panel |

The `MC...` modules declare the model values, the data of the starts and the symmetry sets. Operators whose
comment starts with "Mutation of" are wrong variants of the operator after them; `PROJECT.json` says which
property rejects which. Variables marked "history" in their declaration are read by properties alone.

## 4. Runs

| Run | Properties | Shows |
|---|---|---|
| `RateLimit_pair` | `CountersWithinCap`, `UploadsCounted` | two requests, sizes 1 and 2, a fault anywhere, a window ending: no counter passes the account's own cap; the two upload fields differ by what is in flight; uploads overshoot by no more than that |
| `PlanSync_single` | `RenewalWipesOnce`, `EventuallyInSync` | one refresh at a time against a reader that writes the defaults, a fault, an expired key, two changes in three windows: a renewal wipes once, the hash follows the subscription |
| `Runs_pair` | `RunsCoherent`, `DeletedNotCached` | the job, two requests of any kind, one fault or restart: copies are coherent, the cache never holds a deleted run |
| `Runs_single` | `NoOrphanArtifacts`, `NoVersionLost`, `DeletionLeavesNothing`, `RunFinishes` | the job and one request at a time: the run ends, no version or artifact is lost or left |
| `Page_list` | `PageCoherent`, `LinkedRunStays`, `ListFollowsService`, `ResultAppears` | two runs, one beyond the newest 24 and perhaps linked, a poll, a call and a lost request or a deletion in another tab: selection, address and list agree; the linked run survives older polls; the list follows |
| `Drafts_pages` | `DraftsSafe`, `CancelledNeverApplied` | the page opened twice, two texts, an AI edit, two saves or deletions: no answer overwrites typing, a cancelled edit is not applied |
| `Chat_tabs` | `ChatSafe`, `LegacyKept`, `ReadsForward`, `TabsCatchUp` | one tab or two: answers stay with their questions, the old conversation is not lost in its migration, copies refine `ThreadCopies`, the tabs catch up |
| `Files_page` | `MovesSafe`, `InStep` | two handlers, a lost request, another tab, a folder opened while the page reloads: what is shown ahead is marked and taken back; handlers that run alone leave page and index equal |
| `Uploads_panel` | `UploadsSafe`, `TrackerSettles` | batches of one or two files, refused or lost half-way, cleared, left: each confirmed file is stored or reported; the panel comes to show the service's jobs |
| `Session_tab` | `SessionSafe`, `VerifiedSessions`, `SessionFollows` | sign-ins, links, profile changes, sign-outs here and elsewhere, reloads: the three accounts agree at rest, no session for an unverified e-mail, a sign-in gets its session |
| `Page_visits` | one for each page or view, two for the launcher | a visit to each of the twelve |
| `PlanSync_expiry` (violation) | `WipedOncePerPeriod` | section 8 |

Several properties are conjunctions of named parts, each with its comment: `UploadsCounted` (`UploadAccounting`,
`UploadOvershootBounded`), `RunsCoherent` (`TypeOK`, `CopiesCoherent`), `PageCoherent` (`PageTypeOK`, `SelectionListed`),
`DraftsSafe` (`DraftsTypeOK`, `CopyCoherent`, `LocksHold`), `ChatSafe` (`ChatTypeOK`, `RepliesFollow`, `SessionListed`),
`MovesSafe` (`FilesTypeOK`, `FlagsOwned`, `OptimismEnds`), `UploadsSafe` (`UploadsTypeOK`, `Accounted`, `RowsOwned`) and
`SessionSafe` (`SessionTypeOK`, `NeverAnother`, `Agreement`, `CodeOnce`). The type invariants of `RateLimit` and `PlanSync`
are proved (section 7).

In `Page_visits`: `AccountKept` (a method is changed as asked, one to sign in with is kept), `PriceFollows` (the price on
offer is Stripe's once all have answered, and the one a checkout charges), `NoSecondPlan` (a subscriber is offered the checkout only while the page has not been
told), `RunAsShown` and `FilledKept` (a run is started as shown; a late list empties no form), `EvalsShown` (the result in
view is the one selected; that of a finished job is listed), `DocumentKept` (every word survives conversion, but
the items of a list that switches between bullets and numbers with no blank line, and visits without an edit change nothing more), `VersionsShown`
(labels, artifacts and texts are those of their version), `EndsTold` (an end that was due is told once), `RowsChosen` (the
selection is of the open folder, a menu acts on its row), `ChatShown` (a mark opens its source, a draft stays with its
conversation), `DropTaken` (a drop becomes its files, the overlay follows the drag), `SearchMarked` (the match shown is a match).

The properties are restricted to where the code keeps them. The other side of each restriction, which the
models show when it is lifted:

* `RenewalWipesOnce` needs one refresh at a time: two that both see a renewal wipe twice, what was charged in
  between included. With an expired key see `PlanSync_expiry`.
* `NoVersionLost` needs one request at a time: of two overlapping edits or refinements the second
  store drops the version of the first (`service.py:1297`).
* `RunFinishes` needs requests other than renames (`service.py:1078`), no failed write of the last state
  and no restart: nothing takes up a queued or running job again (`service.py:2014`). A run that is
  deleted is left out of it.
* `NoOrphanArtifacts` speaks of runs that are not deleted and of no faults: an artifact whose write
  failed stays in the cache of the process, which makes saving it again a no-operation (`service.py:811,740`).
* `DeletionLeavesNothing` speaks of runs whose job is over: one deleted *while* its job runs keeps the
  artifact the job stores afterwards (`service.py:717`), because only `_persist_run` looks at the tombstone.
* `ListFollowsService` speaks of a user who leaves the list alone and of runs other than the linked one; an answer
  asked before a deletion brings the run back until the next poll (`WorkflowsPage.tsx:1641`).
* `DraftsSafe` (its `LocksHold`) and `CancelledNeverApplied` end with `foreign`, `OptimismEnds` with `crossed`,
  `InStep` with `mixed`, its folder with `astray`, `SessionSafe` and `SessionFollows` with the `mishaps`: each marks the interleaving after which the
  code does not keep them, and section 8 says what happens then.
* In the pages and views histories do the same, and the property says nothing of what they exclude: `astray` (`PlanCatalog`: a listener or a
  request failed, or a change was undone before the page heard of it); `unheard` (`Billing`); `crossed` (`Versions`: calls that change the layout, or the version shown,
  overlapped, or an answer was lost: a node may then lie where it was, an artifact with another version); `muddled` and `torn` (`InternalEvals`: loads that overlapped or
  failed, after which the result in view may be another than the one selected until a load runs alone, and results read before the job ended);
  `strayed` and `due` (`RunsPane`: an older answer took the run or its end back, and ends that came between two polls); `haunted` and `upset` (`Explorer`); `drifted` (`ChatPane`:
  the list, or a submit that had to make its conversation, moved the page under a text typed for another one, `ChatPage.tsx:123-126,246-247`); `swapped` (`Viewer`).

Deadlock is not checked in any run: every bound (ids, faults, clock, what the user may still do) stops the model where the
program would go on.

## 5. Bounds

Every bound is a constant (`Max...`, or a component of `Budgets`, `Bounds`, `Starts`, `Outsets`, `Cares`) and a guard of the actions it limits.

* *Quota.* `MaxNow`, `MaxFaults`, `MaxChanges`, `MaxExpiries`. Caps are 1 to 3 with charges of 1 or 2, so that a cap is met exactly,
  passed, and missed by one. A window lasts one or two ticks and the clock makes up to three, so that a charge can be
  computed in one window and counted in the next, and a subscription can renew twice. Two requests show every race
  of two; that caps hold for any number is proved.
* *Runs.* `MaxIds = 7` lets a run have its first version and two more with their artifacts; `MaxIds = 4`, with two requests at once, lets
  the two contend for one more version.
* *Pages that share.* Budgets are sets of records: a behaviour begins with one of them. So each kind of trouble is
  explored to the depth it needs (one lost request with one action of each kind, two messages with none lost, two tabs
  with one action each, a migration with two faults) without their product. Two handlers, two tabs, two runs and two
  files are what the races of this code are between; `Paths` are folders two deep with a name used twice, so that a folder
  can be moved into one of its name and below itself. `MaxEdits`, `MaxAi` and two saves let one draft be typed, edited by AI and saved while
another is saved.
* *Views.* The smallest data with the case in it: two versions, two runs of which one follows the other, four rows with a folder in
  a folder, every document of up to four lines (a table, a list or a fence needs two, and one to come before and after), a
  directory given out in two portions with an empty one inside, two files of one name. What the user does is bounded by two to five gestures.

## 6. Fairness

`PollingSpec` (weak fairness of each refresh): the refresh of a signed-in user starts again and
again, because the application calls the API on every chat message, upload and visit of the limits
page and each call starts with a refresh; once started, the event loop runs it. No fairness is
assumed of the subscription, the clock, charges, expiry or faults. The claim is about users who
use the application: for one who does not, nobody looks at the hash.

`FairSpec` of `WorkflowRuns` (weak fairness of each thread at work): a job in the queue is taken by the pool and
calls to Firestore return or raise. It is not assumed that users make requests, and `Restart` and failing
writes are not fair.

In the browser, fairness is of three things: timers of a mounted page fire again (`setInterval` of the workflows page, the tracker
and the chat store), a request is answered, fails or times out (`shared/api.ts`), and an answer that is there is handled. So
`LiveSpec` of `WorkflowsPage` (polls, the fetch of the linked run, calls, and the job that ends a run), `Fairness` of `ChatPage` (timers,
answers, the steps of a migration), of `Uploads` (polls, handlers, jobs; `Workers` is more than the handlers and jobs a run can have) and of `Session`
(callbacks and answers). The user, other tabs, reloads and lost requests are never fair. `FilesPage`, `OutputDrafts`, `Pages` and `Views` make
safety claims only: the files page has no timer, and what a view comes to show depends on what its user does.

## 7. Proofs

Eight modules hold the proofs. Each theorem is for every value of the constants that satisfies the assumptions of the modules it
extends, so for any number of tabs, runs, requests, rows or faults. The assumptions say of what kind a constant is, that "none" is not one of
the values it stands for the absence of (`NoRunAssumption`, `NobodyAssumption`, `NoDraftAssumption`, `AbsentAssumption`, `NoVersion` in
`PagesAssumption`), that a process serves finitely many requests and some upload is the largest (`SizesAssumption`), that
every row of the explorer lies in a folder or at the root (`RowsAssumption`), that names and matches are known for every file
(`PreviewAssumption`), and that a disk is finite and no directory is within itself (`DiskAssumption`). TLC evaluates all of them. The pattern is the same everywhere: the property, strengthened until it is inductive; one
lemma per kind of step; a temporal step. Each strengthened invariant was checked by TLC before it was proved. Where an argument goes
by induction over a number, the lemma takes the least number at which it fails (`WFMin`), which needs no operator as a parameter.

`PlanSyncProofs` (`RateLimit`, `PlanSync`):

* `QuotaInvariant`: `Spec => [](TypeOK /\ CountersWithinCap)`. The cap meant is the account's own, not the largest one. It is inductive
  with `OwnCapHeld`: a request about to charge holds the cap of the hash, and one that saw no hash and is about to write the defaults
  will not change that cap.
* `PlanInvariant`: `SyncSpec => []PlanInv`. `PlanInv` adds `ZeroesPaidPeriod`: a refresh at a
  reset's write holds a period that is not `Infinite`. Without it the write could put zeros in the free
  period, so `FreeNeverRefreshes` is not provable from types alone.
* `PlanWithinCap`: `SyncSpec => [](PlanTypeOK /\ WithinLargestCap)`: with refreshes a counter may stand above a cap that has just been
  lowered, so all that holds of every state is the largest cap.
* `StaleCapHolds`: `SyncSpec => [][ChargesAsRead]_vars`, what holds of every step instead: a request takes cap and period from the hash
  as it is at one moment, and a counter rises only by a request of its own period, to no more than the cap that request has read. TLC
  agrees on one refresh, one request, two windows and one billing change.
* `FreeQuotaNeverRefreshes`: `SyncSpec => FreeNeverRefreshes`; a charge only adds and a refresh writes zeros to a paid period only.
* `RenewalWipes`: with one syncer, `SyncSpec => []RenewalWipesOnce`. `RenewInv` orders the anchors (`AnchorInv`: the cached one is at most
  the one a refresh has seen, which is at most the subscription's) and, while no fault and no expiry has happened, says that the plan in the
  hash follows the cached plan (`PlanFollows`) and which anchors have been wiped at which program point (`WipeInv`). One syncer is a
  hypothesis because two refreshes that both see a renewal do wipe twice (section 4).
* `UploadsAreCounted`: `Spec => []UploadsCounted`. The property speaks of the sum of what is in flight, so `UploadInv` states it as a sum over
  the requests at work, and each step is shown to move one summand (sums over a finite set with one element changed are the lemmas before it);
  the overshoot is bounded request by request, each by one largest upload, and fault by fault.

`ChatProofs` (`ChatStore`, `ChatPage`):

* `CopiesMoveForward`: `Spec => ReadsForward`, the refinement of `ThreadCopies`. That copies only move forward is not
  inductive: an answer on its way must be at least as new as the copy it will replace. `CopyInv` says so (`Fresh`), for every tab and
  key, and that no copy is ahead of the service. It holds because a key has one fetch under way: a newer copy
  cannot come between the service's answer and its being shown.
  Every action keeps `CopyInv` and is of one of four kinds (`Kind`): it leaves versions and copies, writes a thread, takes a newer copy, or
  forgets some; `KindMaps` shows that each is a step of `ThreadCopies` or stutters.
* `AnswersFollow`: `Spec => []ChatSafe`. `TalkInv` adds to `CopyInv` what each call under way may rely on: a question whose answer is
  being asked is in its thread or the conversation was deleted (`CallsInv`), a migration has posted what it has passed (`MovesInv`), a tab
  lists the conversation it is in (`TabsInv`), and in a thread a reply comes after what it replies to (`ThreadsInv`).
* `LegacyMoved`: `Spec => []LegacyKept`, from `MovesInv`: the old copy is given up only once every message of it is in the new one.

`RunsProofs` (`WorkflowRuns`):

* `RunsStayCoherent`: `Spec => []RunsCoherent`. The inductive `CopyInv` adds three things to the types and
  the coherence of every copy: some version has the highest number (`Topped`; `NextNumber` takes a maximum,
  which only a set that has one gives, and an unbounded induction has no finiteness to get it from), the ids of all
  copies are below the next one to be given, so that a new version is told from the others, and a thread at an artifact's
  store has that artifact (`Holds`). `RecordedSound`, `ChangedSound`, `SelectedSound` and `StatusSound` say that
  the ways to change a copy keep it sound; `ThreadStep` carries this to the state; the rest has one step per action.
* `DeletedNeverCached`: `Spec => []DeletedNotCached`, by an induction of its own: a thread that sets the tombstone is
  at the step that clears the cache, and `CacheRun` looks at the tombstone as it puts the run in.
* `ArtifactsNamed`, `VersionsAdd`, `DeletionComplete`: `NoOrphanArtifacts`, `NoVersionLost` and, with no faults, `DeletionLeavesNothing`,
  under `Alone`: requests follow one another, and renames, which a running job does not exclude, are left out. That is what
  `Runs_single` checks, for one set of ids; a second request or a rename beside the job stores a copy from before, and then the properties
  fail in the code too (section 4). `AloneInv` says what the stored run, the copy of the job and the copy of the request have in common
  (`JobInv`, `RequestInv`), and what the artifact documents are at each program point of a store or a deletion (`StoresInv`).

`PageProofs` (`WorkflowsPage`, `OutputDrafts`):

* `DraftsKept`, `NeverApplied`: `DraftsSpec => []DraftsSafe` and `DraftsSpec => CancelledNeverApplied`. While no page that was left has written its copy
  (`~foreign`): the request of an AI edit is the one its page would abort (`Controlled`), only a draft of its own run waits for it
  (`WaitsOwn`), nothing waits for a cancelled one (`CancelledGone`), and the slot names a run that a request of this page holds
  with its draft as it was sent (`Held`).
* `PageStaysCoherent`, `LinkedRunKept`: `Spec => []PageCoherent` and `Spec => LinkedRunStays`. `PageInv` says what polls, calls and dialogs
  hold (`Requests`), that only the fetch of the linked run is live (`Shown`), and that an answer brings a run, or of a deletion
  that the run is gone (`AnswersHold`).

`SessionProofs` (`Session`):

* `SessionsAgree`, `OnlyVerified`: `Spec => []SessionSafe` and `Spec => VerifiedSessions`. The last callback that waits is of the account
  signed in (`CallbacksFollow`); an exchange is of an account, that of an unverified one is refused (`FlightOfAccount`); the code of a link
  is not sent again (`CodeSent`); an exchange is of the account signed in unless it was overtaken (`NotOvertaken`); and without mishaps the three
  accounts differ only while a callback, an exchange or a sign-out that will bring them together is on its way (`Together`).

`FilesProofs` (`FilesPage`, `Uploads`):

* `MovesAreSafe`, `PageInStep`: `Spec => []MovesSafe` and `Spec => []InStep`. `FilesInv` has four parts: the types of the index, the page and the
  handlers; every mark has an owner and a file's mark just one (`Marks`); what the page has read, what it shows when no move is open and what
  a move would restore are places the index has had, the last two while moves do not overlap (`Traced`); and a handler that has page and
  index for itself finds them equal until it changes one, and what it reads then is the index (`Steady`). The lemmas on paths that these rest on say
  where moving, renaming and erasing a folder puts the paths below it.
* `UploadsAreSafe`: `UploadsSpec => []UploadsSafe`. `UploadsInv` says of every handler (`Suits`) that each entry of its batch is with the
  service, told of, still to be scanned or `Due`: its position is in a group that has not been answered; that the groups are of one folder
  each; and that while a group goes file by file (`OneByOne`) the files before the rest are with the service. A row that runs belongs to
  a handler for which it is due (`Owned`). `AscendingFacts`, `KindFacts` and `GroupFacts` say that splitting a batch loses no position, for batches
  of any length; `SuitsGrows`, that new and ended jobs disturb none of this.

`ViewProofs` (`Views`, that is `RunsPane`, `Explorer`, `Viewer`, `InternalEvals`, `ChatPane`, `OsDrop`):

* `EndsAreTold`: `ViewsSpec => []EndsTold`. What the page compares the next list with is the list it shows (`PaneTold`), except for runs that an
  older answer has touched (`strayed`).
* `RowsAreChosen`: `ViewsSpec => []RowsChosen`. A drag-box, a drag and an open menu exclude each other (`OneGesture`), and what a box or a refused
  move will bring back was chosen in this folder unless it has been left (`BroughtBack`).
* `SearchesMarked`: `ViewsSpec => []SearchMarked`.
* `EvalsAreShown`: `ViewsSpec => []EvalsShown`. What a job, a poll or a list was heard to be is what the service has (`HeardOf`: completed stays
  completed, and the results of a completed job are listed or about to be asked for), and loads are of the result selected as long as no two
  of them overlap (`Undisturbed`).
* `MarksOpen`: `ViewsSpec => []ChatShown`. An answer keeps every source it marks and no more of them than were found (`CitedPlaces`), so a number
  that is not among them is beyond the end of the list as well, and opens nothing; that is said of each row as it is appended (`MarkedRows`).
* `DropsAreTaken`: `ViewsSpec => []DropTaken`. A drop is read layer by layer, the entries of all directories of one layer making the next. A node is in
  the n-th layer exactly if a trail of n directories leads to it from an item (`LayerTrails`), and by `DiskAssumption` a trail is no longer
  than there are directories (`TrailsAreShort`), so the walk ends with every file below the readable items and no other (`WalkFinds`). `DropInv` says of every
  read under way that what it holds is the part of that answer its items make (`ReadsFaithful`), and that the overlay's counter is over
  what the drag is over, unless an element was taken away under it (`OverlayCounts`).

`ChangeProofs` (`Pages`, that is `Billing`, `PlanCatalog`, `Launcher`, `Profile`, `Versions`):

* `NeverASecondPlan`: `PagesSpec => NoSecondPlan`, from `PlanHeard`: a plan the user has is known unless what was heard last is older or a failure.
* `ThePriceFollows`: `PagesSpec => []PriceFollows`. The product shown is the one heard of (`ProductHeard`); what it has heard is
  in the documents still, or has changed at Stripe (`MirrorBetween`); and what the server has read for it, and answered, is what they and Stripe say unless a change
  is on its way to the page (`AnswerStands`, `Behind`), which asks again when it hears of it.
  Page and server then choose alike (`SameChoice`), though the server knows one more key: it matters only while the page makes out no price.
* `RunsAreAsShown`, `NothingFilledLost`: `PagesSpec => []RunAsShown` and `PagesSpec => FilledKept`. A call carries what was asked for beside what the
  dialog showed (`CallAsShown`); catalog and dialog are never open together (`OneDialog`).
* `AccountIsKept`: `PagesSpec => []AccountKept`. A change is done once and never after it was given up (`DoneOnce`); while the page knows the account's
  methods, one change at most is under way and it leaves a way to sign in (`Known`, `Active`).
* `VersionsAreShown`: `PagesSpec => []VersionsShown`. Every answer carries a whole run, so the invariant speaks of all copies of the run there
  are: the service's, the page's and those of the answers on their way. Each artifact in any of them is of its own version (`OwnArtifacts`).
  Unless calls that change the version shown crossed others, every copy shows the same one (`SameOutput`). Unless changes of the layout crossed, a
  version that no drag, move or reset is about lies in every copy where the service has it, or where it was dragged (`Lies`), and one that
  is being moved was where the page had it saved, so that a failure can put it back (`Moving`).

Only model-checked, and why:

* liveness (`EventuallyInSync`, `RunFinishes`, `ListFollowsService`, `ResultAppears`, `TabsCatchUp`, `TrackerSettles`,
  `SessionFollows`): with `ENABLED` it is out of the prover's reach;
* `DocumentKept`: both conversions are folds over the lines of a text, and what a fold computes for every text rests on the theorems about
  recursive functions, which take an operator as a parameter.

## 8. The code against its documents

One run ends in a violation: `PlanSync_expiry`. A cached anchor that expires (five minutes) is taken for a renewal, and the usage of
the current period is wiped (`plan.py:161`), where the comment says "Renewal detection: anchor changed for PRO" and
`docs/USAGE_LIMITS.md` that limits hold per period.

Other places where the code does something else than a document, a comment or a reader would expect, met while modelling.
The models have them; a history variable or a restricted property shows where.

Backend:

* Two uploads at once are accepted past the cap: the script compares one field and increments another (`rate_limit.py:114,119,227`).
* The reset of an upgrade runs before the plan is set, finds the infinite period and does nothing (`plan.py:155`, `rate_limit.py:330`).
* A rename that overlaps the end of the job puts the run back to running and drops its result (`service.py:1078`).
* The result of a run refused by the quota can be had by selecting its version (`service.py:1848,1862,839`).
* A store that overlaps a deletion brings the document back (`service.py:1287,1297`).

Web application:

* A poll asked before a change answers after it and shows the older status (`WorkflowsPage.tsx:1641`).
* A page that was left writes its old copy of all drafts: an editor lock, a cancelled edit or a cleared draft comes back
  (`WorkflowsPage.tsx:1560`).
* The slot that locks a run's editor while its output is saved is one for the page: saving a second run takes it and frees it, so the first
  can be typed in again while its save is under way, whose answer then drops the newer text (`WorkflowsPage.tsx:1806,1863,1889-1915`).
* An end of a run that happened between two polls is not told, and a stale list between two others tells it twice (`WorkflowsPage.tsx:2378`).
* The typing flag of a conversation stays when no answer comes: the tab was reloaded while it waited, or the call failed in
  a conversation that had just been created (`ChatPage.tsx:147-156,282-312`).
* After a move or paste the page checks the folder that was open when it began, and not one that was opened while it waited, which may be gone
  (`FilesPage.tsx:498-500,672`; the comment at 499 says that the selected folder is checked). A paste of a folder where it was loses the
  folder's document at the service (`service.py:1905-1917`), so this can leave the page in a folder that neither tree nor index has; `astray` records it.
* Clearing the finished uploads shows those again that were running when the panel was seeded, until a poll (`FilesPage.tsx:484`).
* Files dropped on the row of a folder go to the open folder: the page's own listener stops the event before React hands it to
  the row (`FilesPage.tsx:867-873,2225`). Only the tree takes a drop for its own folder.
* A narrower query in the preview marks the last match (`FilesPage.tsx:2001-2006`); an upload may open a file of its name
  (`2033-2071`); the check of `performDelete` never sees the open preview (`1708`).
* A list that switches between bullets and numbers with no blank line loses the items before the switch when its editor is first left, edited or
  not (`MarkdownRichEditor.tsx:187,196`); code that ends with blank lines loses one of them at every visit.
* A message sent with no conversation selected makes one, and moves the page to it when that is answered, wherever the user has gone meanwhile; what is
  typed by then stays in the composer (`ChatPage.tsx:246-247`).
* The server's lookup asks for an active product in the mirror alone: until the extension has copied it there is no plan, and Stripe is not asked (`router.py:349-350`).

## 9. What is not modelled

Not yet (section 2, items 7 to 9): the Redis client registry, account deletion at the service, the steps inside an upload job, Storage and
chunks behind the file index, the vault, the ledger, the pool. Left out for good: prompts, text analysis and export (text in, text out),
calls of language, speech and vision models, Pinecone itself, the evaluation itself, logging and metrics, the
marketing site, deployment and environment tooling, and the interface kit (`components/ui`), whose state is for display alone.

Simplifications, by module:

* `RateLimit`: transcription and OCR are two more plain counters.
* `WorkflowRuns`: source loading, listing, the cache's limit of 25 runs, and a failed first write of `create_run`, after which the run lives in
  the cache of one process only.
* `WorkflowsPage`: the search box and the drafts filter; the branch and download dialogs, which no control opens.
* `OutputDrafts`: one version per run. The text of an output is a number.
* `ChatStore`, `ChatPage`: titles; a conversation and its messages are deleted in one step.
* `FilesPage`: one folder root per move, a paste is one call, and the rows selected (`Explorer` has them). `FilesPage.tsx:1483-1696,2914-3190`,
  the dialogs of OCR and transcription, cannot be reached: no control opens them.
* `Uploads`: a request and the service's work on it are one step; what an upload costs is `RateLimit`.
* `Session`: `user` stands for `serverUserRef` too; SMS codes and resending; the service's session hash and its expiry, invites.
* `Profile`: wording, SMS codes. `Billing`: one subscription. `PlanCatalog`: one product, whose document embeds no prices; a price keeps its lookup key and its
  document; the calls to Stripe for the product and for its prices are one step.
* `Launcher`: one text, one chip field and one set of files stand for the fields; `handleLegalLauncherBack` has no caller.
* `InternalEvals`: cases, catalog, comparison view; the latest job's result heads the list. `RichEditor`: marks inside a line, heading levels, numbers of lists.
* `Versions`: panning, geometry, branching, saving an edited output (`OutputDrafts`). `RunsPane`: widths, groups by date. `Explorer`: a row is told by what it is, not by its path.
* `ChatPane`: a call is served and shown in one step (`ChatPage` has the races); every source has its number, as `contracts_router` gives it (answers without, of an older release, are left out). `OsDrop`: the order of a batch.
* `Viewer`: pictures, PDF, scrolling; the page's own deletion reads as one from elsewhere.
