------------------------------ MODULE OutputDrafts ------------------------------
(***************************************************************************)
(* Drafts of edited outputs in features/workflows/WorkflowsPage.tsx and    *)
(* components/WorkflowResultDetails.tsx.  Drafts live in sessionStorage    *)
(* and in a ref of every page instance.  A page that was left keeps its    *)
(* ref and its requests: it hears of no change any more, but its answers   *)
(* still write the whole of its copy to the storage.  A lock on the editor *)
(* is a flag of the draft (an AI edit) or the page's single artifactBusy   *)
(* slot (a save).                                                          *)
(*                                                                         *)
(* Every run has one version, so that a run stands for "run:version".      *)
(***************************************************************************)
EXTENDS Naturals, PageRuns

CONSTANTS
    MaxPages,      \* bound: times the page is opened
    MaxEdits,      \* bound: texts typed by the user
    MaxAi,         \* bound: AI edits asked for
    Saves          \* requests that save, or delete, that can be under way together

ASSUME DraftsAssumption ==
    /\ None \notin Runs /\ None \notin Nat
    /\ MaxPages \in Nat \ {0} /\ MaxEdits \in Nat /\ MaxAi \in Nat

VARIABLES
    stored,     \* the drafts in sessionStorage
    ref,        \* outputEditDraftsRef of each page instance
    mounted,    \* the page instance on the screen, or None
    opened,     \* page instances so far
    ai,         \* AI edit requests
    control,    \* aiEditAbortControllersRef of each page instance
    asking,     \* aiEditSubmitting of the details pane
    slot,       \* artifactBusyRunId of the page on the screen
    saves,      \* requests that save an edited output or an artifact, or delete the run
    doc,        \* the saved text of each run, or None once it is deleted
    edits,      \* texts typed so far
    cancelled,  \* history: AI edits the user cancelled or replaced
    foreign     \* history: a page that was left has written its copy

drafts == <<stored, ref>>
draftsVars == <<stored, ref, mounted, opened, ai, control, asking, slot, saves, doc, edits,
          cancelled, foreign>>

--------------------------------------------------------------------------------
Pages == 1..MaxPages
Ids == 1..MaxAi

\* Texts: 0 is the output as it was made, 1.. what the user types, then one per AI edit.
AiText(id) == MaxEdits + id
Texts == 0..(MaxEdits + MaxAi)

Draft == [base: Texts, text: Texts, busy: BOOLEAN, req: Ids \cup {None}]
ASSUME NoDraftAssumption == None \notin Draft

NoDrafts == [r \in Runs |-> None]
NoAi == [st |-> "unused", page |-> None, run |-> None, from |-> 0]
Dead == [NoAi EXCEPT !.st = "dead"]
NoSave == [st |-> "idle"]

DraftsInit ==
    /\ stored = NoDrafts
    /\ ref = [i \in Pages |-> NoDrafts]
    /\ mounted = 1
    /\ opened = 1
    /\ ai = [id \in Ids |-> NoAi]
    /\ control = [i \in Pages |-> NoDrafts]
    /\ asking = FALSE
    /\ slot = None
    /\ saves = [s \in Saves |-> NoSave]
    /\ doc = [r \in Runs |-> 0]
    /\ edits = 0
    /\ cancelled = {}
    /\ foreign = FALSE

\* updateOutputEditDrafts: the copy of page i is stored whole, and the event hands it to the
\* page on the screen.
Update(i, copy) ==
    /\ ref' = [j \in Pages |-> IF j \in {i, mounted} THEN copy ELSE ref[j]]
    /\ stored' = copy
    /\ foreign' = (foreign \/ i # mounted)

Keep == UNCHANGED <<stored, ref, foreign>>

With(i, r, draft) == [ref[i] EXCEPT ![r] = draft]

Unlocked(draft) == IF draft = None THEN None ELSE [draft EXCEPT !.busy = FALSE, !.req = None]

--------------------------------------------------------------------------------
(* Opening, leaving and reloading the page. *)

Open ==
    /\ mounted = None
    /\ opened < MaxPages
    /\ opened' = opened + 1
    /\ mounted' = opened'
    /\ ref' = [ref EXCEPT ![mounted'] = stored]
    /\ asking' = FALSE
    /\ slot' = None
    /\ UNCHANGED <<stored, ai, control, saves, doc, edits, cancelled, foreign>>

Leave ==
    /\ mounted # None
    /\ mounted' = None
    /\ UNCHANGED <<drafts, opened, ai, control, asking, slot, saves, doc, edits, cancelled, foreign>>

\* Every page instance is gone, with its requests; the storage stays.
Reload ==
    /\ mounted' = None
    /\ ai' = [id \in Ids |-> IF ai[id] = NoAi THEN NoAi ELSE Dead]
    /\ saves' = [s \in Saves |-> NoSave]
    /\ UNCHANGED <<drafts, opened, control, asking, slot, doc, edits, cancelled, foreign>>

\* A run without an output is selected: the details pane and its flag go.
ShowOther ==
    /\ mounted # None
    /\ asking
    /\ asking' = FALSE
    /\ UNCHANGED <<drafts, mounted, opened, ai, control, slot, saves, doc, edits, cancelled, foreign>>

--------------------------------------------------------------------------------
(* Editing. *)

Mine(r) == ref[mounted][r]

\* The buttons and the editor are disabled while the slot names the run, and the editor also
\* while its draft waits for an AI edit.
Enabled(r) == mounted # None /\ doc[r] # None /\ slot # r
Editing(r) == Enabled(r) /\ Mine(r) # None /\ ~Mine(r).busy

BeginEdit(r) ==
    /\ Enabled(r)
    /\ Mine(r) = None
    /\ Update(mounted, With(mounted, r, [base |-> doc[r], text |-> doc[r], busy |-> FALSE,
                                         req |-> None]))
    /\ UNCHANGED <<mounted, opened, ai, control, asking, slot, saves, doc, edits, cancelled>>

\* Mutation of Type: the editor is not locked by an AI edit.
TypeUnlocked(r) ==
    /\ Enabled(r) /\ Mine(r) # None
    /\ edits < MaxEdits
    /\ edits' = edits + 1
    /\ Update(mounted, With(mounted, r, [Mine(r) EXCEPT !.text = edits']))
    /\ UNCHANGED <<mounted, opened, ai, control, asking, slot, saves, doc, cancelled>>

Type(r) ==
    /\ Editing(r)
    /\ edits < MaxEdits
    /\ edits' = edits + 1
    /\ Update(mounted, With(mounted, r, [Mine(r) EXCEPT !.text = edits']))
    /\ UNCHANGED <<mounted, opened, ai, control, asking, slot, saves, doc, cancelled>>

\* What aborting the request of page i for r leaves: its rejection is handled at once.
Abort(i, r) == [id \in Ids |-> IF id = control[i][r] THEN Dead ELSE ai[id]]
Released(i, r) == [control EXCEPT ![i][r] = None]
Waits(draft) == IF draft = None THEN None ELSE draft.req
Given(i, r) == cancelled \cup ({control[i][r], Waits(ref[i][r])} \cap Ids)

CancelEdit(r) ==
    /\ Editing(r)
    /\ ai' = Abort(mounted, r)
    /\ control' = Released(mounted, r)
    /\ cancelled' = Given(mounted, r)
    /\ Update(mounted, With(mounted, r, None))
    /\ UNCHANGED <<mounted, opened, asking, slot, saves, doc, edits>>

--------------------------------------------------------------------------------
(* AI edits. *)

\* The request that is replaced is rejected after the draft was marked for the new one, and
\* its handler clears the mark whosever it is.
SubmitAi(r, id) ==
    LET marked == [Mine(r) EXCEPT !.busy = TRUE, !.req = id]
        replaces == control[mounted][r] # None
    IN
    /\ Editing(r) /\ ~asking
    /\ ai[id].st = "unused" /\ \A other \in 1..(id - 1) : ai[other].st # "unused"
    /\ ai' = [Abort(mounted, r) EXCEPT ![id] =
                [st |-> "asked", page |-> mounted, run |-> r, from |-> Mine(r).text]]
    /\ control' = [control EXCEPT ![mounted][r] = id]
    /\ cancelled' = cancelled \cup ({control[mounted][r]} \cap Ids)
    /\ asking' = TRUE
    /\ Update(mounted, With(mounted, r, IF replaces THEN Unlocked(marked) ELSE marked))
    /\ UNCHANGED <<mounted, opened, slot, saves, doc, edits>>

CancelAi(r) ==
    /\ mounted # None /\ Mine(r) # None /\ Mine(r).busy
    /\ ai' = Abort(mounted, r)
    /\ control' = Released(mounted, r)
    /\ cancelled' = Given(mounted, r)
    /\ asking' = IF control[mounted][r] # None THEN FALSE ELSE asking
    /\ Update(mounted, With(mounted, r, Unlocked(Mine(r))))
    /\ UNCHANGED <<mounted, opened, slot, saves, doc, edits>>

\* The request settles: its controller is released and its page no longer says it is asking.
Settle(id) ==
    LET a == ai[id] IN
    /\ ai' = [ai EXCEPT ![id] = Dead]
    /\ control' = IF control[a.page][a.run] = id THEN Released(a.page, a.run) ELSE control
    /\ asking' = (asking /\ a.page # mounted)
    /\ UNCHANGED <<mounted, opened, slot, saves, doc, edits, cancelled>>

\* Mutation of Wanted: the storage is not asked which request it waits for.
WantedByController(id) == control[ai[id].page][ai[id].run] = id

Wanted(id) ==
    /\ control[ai[id].page][ai[id].run] = id
    /\ Waits(stored[ai[id].run]) = id

Base(i, r) == IF ref[i][r] = None THEN 0 ELSE ref[i][r].base

AnswerAi(id) ==
    LET a == ai[id] IN
    /\ a.st = "asked"
    /\ Settle(id)
    /\ IF Wanted(id)
       THEN Update(a.page, With(a.page, a.run, [base |-> Base(a.page, a.run), text |-> AiText(id),
                                                busy |-> FALSE, req |-> None]))
       ELSE Keep

\* The draft is unlocked, whichever request it waits for, and the copy is stored.
FailAi(id) ==
    LET a == ai[id] IN
    /\ a.st = "asked"
    /\ Settle(id)
    /\ Update(a.page, With(a.page, a.run, Unlocked(ref[a.page][a.run])))

--------------------------------------------------------------------------------
(* Saving an edited output, saving its artifact, deleting the run. *)

Send(s, kind, r, text) ==
    /\ saves[s] = NoSave
    /\ saves' = [saves EXCEPT ![s] = [st |-> "asked", kind |-> kind, page |-> mounted,
                                      run |-> r, text |-> text]]

Save(s, r) ==
    /\ Editing(r) /\ Mine(r).text # Mine(r).base
    /\ Send(s, "save", r, Mine(r).text)
    /\ slot' = r
    /\ Keep /\ UNCHANGED <<mounted, opened, ai, control, asking, doc, edits, cancelled>>

SaveArtifact(s, r) ==
    /\ Enabled(r) /\ Mine(r) = None
    /\ Send(s, "artifact", r, doc[r])
    /\ slot' = r
    /\ Keep /\ UNCHANGED <<mounted, opened, ai, control, asking, doc, edits, cancelled>>

DeleteRun(s, r) ==
    /\ mounted # None /\ doc[r] # None
    /\ Send(s, "delete", r, 0)
    /\ Keep /\ UNCHANGED <<mounted, opened, ai, control, asking, slot, doc, edits, cancelled>>

Saving(s, kinds) == saves[s] # NoSave /\ saves[s].kind \in kinds

\* The slot is freed if it still names the run and the page is still the one that took it.
Free(s) ==
    /\ saves' = [saves EXCEPT ![s] = NoSave]
    /\ slot' = IF saves[s].page = mounted /\ slot = saves[s].run THEN None ELSE slot
    /\ UNCHANGED <<mounted, opened, edits>>

Forget(i, r) ==
    /\ ai' = Abort(i, r)
    /\ control' = Released(i, r)
    /\ cancelled' = Given(i, r)
    /\ asking' = IF control[i][r] # None /\ i = mounted THEN FALSE ELSE asking
    /\ Update(i, With(i, r, None))

Saved(s) ==
    LET save == saves[s] IN
    /\ Saving(s, {"save"}) /\ doc[save.run] # None
    /\ doc' = [doc EXCEPT ![save.run] = save.text]
    /\ Forget(save.page, save.run)
    /\ Free(s)

ArtifactSaved(s) ==
    /\ Saving(s, {"artifact"})
    /\ Free(s)
    /\ Keep /\ UNCHANGED <<ai, control, asking, doc, cancelled>>

RunDeleted(s) ==
    /\ Saving(s, {"delete"}) /\ doc[saves[s].run] # None
    /\ doc' = [doc EXCEPT ![saves[s].run] = None]
    /\ Forget(saves[s].page, saves[s].run)
    /\ saves' = [saves EXCEPT ![s] = NoSave]
    /\ UNCHANGED <<mounted, opened, slot, edits>>

SaveFails(s) ==
    /\ Saving(s, {"save", "artifact"})
    /\ Free(s)
    /\ Keep /\ UNCHANGED <<ai, control, asking, doc, cancelled>>

DeleteFails(s) ==
    /\ Saving(s, {"delete"})
    /\ saves' = [saves EXCEPT ![s] = NoSave]
    /\ Keep /\ UNCHANGED <<mounted, opened, ai, control, asking, slot, doc, edits, cancelled>>

--------------------------------------------------------------------------------
Navigate == Open \/ Leave \/ Reload \/ ShowOther

Edit(r) ==
    \/ BeginEdit(r) \/ Type(r) \/ CancelEdit(r) \/ CancelAi(r)
    \/ \E id \in Ids : SubmitAi(r, id)
    \/ \E s \in Saves : Save(s, r) \/ SaveArtifact(s, r) \/ DeleteRun(s, r)

Settled(s) == Saved(s) \/ ArtifactSaved(s) \/ RunDeleted(s) \/ SaveFails(s) \/ DeleteFails(s)

DraftsNext ==
    \/ Navigate
    \/ \E r \in Runs : Edit(r)
    \/ \E id \in Ids : AnswerAi(id) \/ FailAi(id)
    \/ \E s \in Saves : Settled(s)

DraftsSpec == DraftsInit /\ [][DraftsNext]_draftsVars

--------------------------------------------------------------------------------
(* Properties *)

DraftsTypeOK ==
    /\ stored \in [Runs -> Draft \cup {None}]
    /\ \A i \in Pages : ref[i] \in [Runs -> Draft \cup {None}]
    /\ mounted \in Pages \cup {None} /\ slot \in Runs \cup {None}
    /\ \A id \in Ids : ai[id].st \in {"unused", "asked", "dead"}
    /\ \A r \in Runs : stored[r] # None => (stored[r].busy <=> stored[r].req # None)

\* The page on the screen shows the drafts that are stored, whichever page wrote them.
CopyCoherent == mounted # None => ref[mounted] = stored

\* The draft of an AI edit under way is locked, and still has the text the edit was made from.
AiLocks ==
    \A id \in Ids : ai[id].st = "asked" /\ id \notin cancelled =>
        LET d == stored[ai[id].run] IN d # None /\ d.req = id /\ d.text = ai[id].from

\* No other request of the page holds the run of save s.
Alone(s) ==
    \A t \in Saves \ {s} : Saving(t, {"save", "artifact"}) =>
        saves[t].run # saves[s].run \/ saves[t].page # saves[s].page

\* While the only save of a run is under way and the slot still names the run, its draft keeps
\* the saved text. (Another run's request takes the slot, and frees what it did not lock.)
SaveLocks ==
    \A s \in Saves :
        /\ Saving(s, {"save"}) /\ saves[s].page = mounted
        /\ slot = saves[s].run /\ Alone(s)
        => LET d == stored[slot] IN d # None => d.text = saves[s].text

\* Until a page that was left writes its copy, the locks hold: no answer overwrites a text
\* the user typed after asking, and no save drops one.
LocksHold == ~foreign => AiLocks /\ SaveLocks

\* The page has the drafts that are stored and keeps their locks, until a page that was left
\* writes its own copy (WorkflowsPage.tsx: outputEditDraftsRef and sessionStorage).
DraftsSafe == DraftsTypeOK /\ CopyCoherent /\ LocksHold

\* An AI edit that was cancelled, on this page or after coming back to it, is never applied.
CancelledNeverApplied ==
    [][~foreign => \A r \in Runs, id \in cancelled :
        stored'[r] # None /\ stored'[r].text = AiText(id) =>
            stored[r] # None /\ stored[r].text = AiText(id)]_draftsVars
================================================================================
