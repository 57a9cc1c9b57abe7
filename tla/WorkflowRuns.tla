------------------------------ MODULE WorkflowRuns ------------------------------
(***************************************************************************)
(* One workflow run of features/workflows/service.py: its Firestore        *)
(* document, the artifacts saved from its versions, the in-process caches  *)
(* and tombstone, the background job that executes it and the request      *)
(* threads that rename, edit, refine, select, save and delete it.          *)
(*                                                                         *)
(* Every operation loads the whole document, changes its copy and stores   *)
(* the whole copy; nothing holds a lock from the load to the store.        *)
(* Firestore answers every read, and the caches, which stand in for it when *)
(* it does not or has no document, are modelled by what they hold: a run    *)
(* without a document is either being created or behind its tombstone.      *)
(***************************************************************************)
EXTENDS Integers, FiniteSetsExt

CONSTANTS
    Requesters,    \* concurrent request threads
    Worker,        \* the background job of the run
    Ops,           \* the operations requesters use
    MaxIds,        \* bound: versions, texts and artifacts ever created
    MaxFaults      \* bound: failed Firestore writes and restarts

ASSUME RunsAssumption ==
    /\ Ops \subseteq {"rename", "touch", "select", "edit", "overwrite", "refine",
                      "saveRun", "saveVersion", "delete"}
    /\ Worker \notin Requesters
    /\ MaxIds \in Nat
    /\ MaxFaults \in Nat

VARIABLES
    doc,        \* users/{uid}/workflow_runs/{run}
    arts,       \* ids in users/{uid}/workflow_artifacts
    cached,     \* the run is in _RUNS_BY_UID
    artCache,   \* ids in _ARTIFACTS_BY_UID
    tomb,       \* the run is in _DELETED_RUN_IDS_BY_UID
    act,        \* program counter and locals of each thread
    phase,      \* history: the run is "new", "created" or "deleted"
    billed,     \* history: the tokens of its generation were accepted
    fresh,      \* next unused id
    faults      \* number of faults so far

vars == <<doc, arts, cached, artCache, tomb, act, phase, billed, fresh, faults>>
stores == <<doc, arts>>
memory == <<cached, artCache, tomb>>
counters == <<phase, billed, fresh, faults>>

--------------------------------------------------------------------------------
None == 0
Ids == 1..MaxIds
Actors == Requesters \cup {Worker}

Version == [id: Ids, number: Nat \ {0}, parent: Ids \cup {None},
            text: Ids, art: Ids \cup {None}]

Run == [status: {"queued", "running", "completed", "failed"},
        text: Ids \cup {None},          \* run.result
        art: Ids \cup {None},           \* run.artifact
        active: Ids \cup {None},        \* run.active_version_id
        versions: SUBSET Version]

NewRun == [status |-> "queued", text |-> None, art |-> None, active |-> None,
           versions |-> {}]

NoDoc == [status |-> "absent"]

Local == [pc: {"idle", "queued", "generate", "submit",
               "art", "artWrite", "check", "cache", "write",
               "mark", "uncache", "delDoc", "delArts"},
          then: {"idle", "generate", "submit"},    \* where the store returns to
          run: Run,
          art: Ids \cup {None},                    \* the artifact to store
          gone: SUBSET Ids]                        \* the artifacts to delete

Idle == [pc |-> "idle", then |-> "idle", run |-> NewRun, art |-> None, gone |-> {}]

Init ==
    /\ doc = NoDoc
    /\ arts = {}
    /\ cached = FALSE
    /\ artCache = {}
    /\ tomb = FALSE
    /\ act = [a \in Actors |-> Idle]
    /\ phase = "new"
    /\ billed = FALSE
    /\ fresh = 1
    /\ faults = 0

--------------------------------------------------------------------------------
(* Versions of a run. *)

VersionOf(run, id) == CHOOSE v \in run.versions : v.id = id

NextNumber(run) ==
    IF run.versions = {} THEN 1 ELSE Max({v.number : v \in run.versions}) + 1

\* Mutation of Recorded: the new version replaces the others.
RecordedAlone(run, id, parent, art) ==
    [run EXCEPT !.text = id, !.art = art, !.active = id,
                !.versions = {[id |-> id, number |-> NextNumber(run),
                               parent |-> parent, text |-> id, art |-> art]}]

\* _record_new_active_version: the text becomes a version and the active one.
Recorded(run, id, parent, art) ==
    [run EXCEPT !.text = id, !.art = art, !.active = id,
                !.versions = @ \cup {[id |-> id, number |-> NextNumber(run),
                                      parent |-> parent, text |-> id, art |-> art]}]

\* Mutation of Changed: the run still shows what its active version was.
ChangedVersionOnly(run, v, text, art) ==
    [run EXCEPT !.versions = (@ \ {v}) \cup {[v EXCEPT !.text = text, !.art = art]}]

\* A version given another text or artifact, and the run showing it if active.
Changed(run, v, text, art) ==
    [run EXCEPT
       !.versions = (@ \ {v}) \cup {[v EXCEPT !.text = text, !.art = art]},
       !.text = IF run.active = v.id THEN text ELSE @,
       !.art = IF run.active = v.id THEN art ELSE @]

Artifacts(run) == {v.art : v \in run.versions} \ {None}

\* get_artifact: Firestore, or else what this process remembers.
ArtifactFound(id) == id \in arts \cup artCache

--------------------------------------------------------------------------------
(* Storing a copy: _persist_artifact, then _persist_run. *)

Goto(a, pc) == act' = [act EXCEPT ![a].pc = pc]
Become(a, local) == act' = [act EXCEPT ![a] = local]

\* Start to store a run, after its artifact if there is one to store.
Store(a, run, art, then) ==
    Become(a, [Idle EXCEPT !.pc = IF art = None THEN "check" ELSE "art",
                           !.then = then, !.run = run, !.art = art])

Return(a) ==
    IF act[a].then = "idle" THEN Become(a, Idle)
    ELSE Become(a, [Idle EXCEPT !.pc = act[a].then, !.run = act[a].run])

Fault ==
    /\ faults < MaxFaults
    /\ faults' = faults + 1
    /\ UNCHANGED <<phase, billed, fresh>>

CacheArtifact(a) ==
    /\ act[a].pc = "art"
    /\ artCache' = artCache \cup {act[a].art}
    /\ Goto(a, "artWrite")
    /\ UNCHANGED <<stores, cached, tomb, counters>>

WriteArtifact(a) ==
    /\ act[a].pc = "artWrite"
    /\ arts' = arts \cup {act[a].art}
    /\ Goto(a, "check")
    /\ UNCHANGED <<doc, memory, counters>>

WriteArtifactFails(a) ==
    /\ act[a].pc = "artWrite"
    /\ Goto(a, "check")
    /\ Fault
    /\ UNCHANGED <<stores, memory>>

\* _persist_run looks at the tombstone once, before anything else.
CheckDeleted(a) ==
    /\ act[a].pc = "check"
    /\ IF tomb THEN Return(a) ELSE Goto(a, "cache")
    /\ UNCHANGED <<stores, memory, counters>>

\* Mutation of CacheRun: the tombstone is not looked at again under the lock.
CacheRunUnchecked(a) ==
    /\ act[a].pc = "cache"
    /\ cached' = TRUE
    /\ Goto(a, "write")
    /\ UNCHANGED <<stores, artCache, tomb, counters>>

\* _cache_run looks at it again, under the lock that delete_run takes.
CacheRun(a) ==
    /\ act[a].pc = "cache"
    /\ cached' = (cached \/ ~tomb)
    /\ Goto(a, "write")
    /\ UNCHANGED <<stores, artCache, tomb, counters>>

\* set(merge=True) of every field: creates the document if it is gone.
WriteRun(a) ==
    /\ act[a].pc = "write"
    /\ doc' = act[a].run
    /\ Return(a)
    /\ UNCHANGED <<arts, memory, counters>>

\* Bound: the write of create_run does not fail.
WriteRunFails(a) ==
    /\ act[a].pc = "write"
    /\ act[a].then # "submit"
    /\ Return(a)
    /\ Fault
    /\ UNCHANGED <<stores, memory>>

Persist(a) ==
    \/ CacheArtifact(a)
    \/ WriteArtifact(a)
    \/ CheckDeleted(a)
    \/ CacheRun(a)
    \/ WriteRun(a)

PersistFault(a) == WriteArtifactFails(a) \/ WriteRunFails(a)

--------------------------------------------------------------------------------
(* create_run and the job it queues. *)

Create(c) ==
    /\ phase = "new"
    /\ act[c].pc = "idle"
    /\ phase' = "created"
    /\ Store(c, NewRun, None, "submit")
    /\ UNCHANGED <<stores, memory, billed, fresh, faults>>

Submit(c) ==
    /\ act[c].pc = "submit"
    /\ act' = [act EXCEPT ![c] = Idle, ![Worker].pc = "queued"]
    /\ UNCHANGED <<stores, memory, counters>>

\* The executor is shutting down: the run is stored again, as failed.
SubmitFails(c) ==
    /\ act[c].pc = "submit"
    /\ Store(c, [NewRun EXCEPT !.status = "failed"], None, "idle")
    /\ Fault
    /\ UNCHANGED <<stores, memory>>

\* The job loads the run; a run deleted since makes it end at once.
Start ==
    /\ act[Worker].pc = "queued"
    /\ IF doc = NoDoc
       THEN Become(Worker, Idle)
       ELSE Store(Worker, [doc EXCEPT !.status = "running"], None, "generate")
    /\ UNCHANGED <<stores, memory, counters>>

\* Mutation of GenerateFails: the error is logged and the run not stored.
GenerateFailsUnstored ==
    /\ act[Worker].pc = "generate"
    /\ Become(Worker, Idle)
    /\ UNCHANGED <<stores, memory, counters>>

\* The handler, the sources or the limits prefetch raise: mark_failed.
GenerateFails ==
    /\ act[Worker].pc = "generate"
    /\ Store(Worker, [act[Worker].run EXCEPT !.status = "failed"], None, "idle")
    /\ UNCHANGED <<stores, memory, counters>>

\* The quota refuses the tokens after mark_completed: the run is stored as
\* failed, and _hydrate_run_versions makes a version of the result it has.
GenerateRefused ==
    /\ act[Worker].pc = "generate"
    /\ fresh <= MaxIds
    /\ fresh' = fresh + 1
    /\ Store(Worker, [Recorded(act[Worker].run, fresh, None, None) EXCEPT !.status = "failed"],
             None, "idle")
    /\ UNCHANGED <<stores, memory, phase, billed, faults>>

\* The tokens are accepted; the artifact may still fail to be built.
Generate ==
    \E art \in {None, fresh + 1} :
        /\ act[Worker].pc = "generate"
        /\ fresh < MaxIds
        /\ fresh' = fresh + 2
        /\ billed' = TRUE
        /\ Store(Worker,
                 [Recorded(act[Worker].run, fresh, None, art) EXCEPT !.status = "completed"],
                 art, "idle")
        /\ UNCHANGED <<stores, memory, phase, faults>>

Execute == Start \/ GenerateFails \/ GenerateRefused \/ Generate

--------------------------------------------------------------------------------
(* Requests. Each loads the document and works out the copy to store. *)

Loads(c, op) ==
    /\ op \in Ops
    /\ act[c].pc = "idle"
    /\ doc # NoDoc
    /\ UNCHANGED <<stores, memory, phase, billed, faults>>

Completed == doc.status = "completed" /\ doc.text # None

\* rename_run: allowed in any state; a run with an artifact stores it again.
Rename(c) ==
    /\ Loads(c, "rename")
    /\ Store(c, doc, IF doc.text = None THEN None ELSE doc.art, "idle")
    /\ UNCHANGED fresh

\* rename_run_version, update_run_version_layout, reset_run_version_layout.
Touch(c) ==
    /\ Loads(c, "touch")
    /\ doc.versions # {}
    /\ Store(c, doc, None, "idle")
    /\ UNCHANGED fresh

\* select_run_version: whatever state the run is in, it is completed now.
Select(c) ==
    /\ Loads(c, "select")
    /\ \E v \in doc.versions :
          Store(c, [doc EXCEPT !.status = "completed", !.text = v.text,
                               !.art = v.art, !.active = v.id],
                None, "idle")
    /\ UNCHANGED fresh

\* save_edited_version as a new version, and _refine_from_version once its
\* tokens are accepted; only a refinement survives an artifact that cannot be
\* built.
AddVersion(c, op) ==
    /\ Loads(c, op)
    /\ Completed
    /\ fresh < MaxIds
    /\ fresh' = fresh + 2
    /\ \E base \in doc.versions, art \in {None, fresh + 1} :
          /\ art = None => op = "refine"
          /\ Store(c, Recorded(doc, fresh, base.id, art), art, "idle")

\* Mutation of Overwrite: the edited text always gets a new artifact.
OverwriteNewArtifact(c) ==
    /\ Loads(c, "overwrite")
    /\ Completed
    /\ fresh < MaxIds
    /\ fresh' = fresh + 2
    /\ \E base \in doc.versions :
          Store(c, Changed([doc EXCEPT !.active = base.id], base, fresh, fresh + 1),
                fresh + 1, "idle")

\* save_edited_version over its base, which keeps its artifact's id.
Overwrite(c) ==
    /\ Loads(c, "overwrite")
    /\ Completed
    /\ fresh < MaxIds
    /\ \E base \in doc.versions :
          LET art == IF base.art = None THEN fresh + 1 ELSE base.art
          IN  /\ Store(c, Changed([doc EXCEPT !.active = base.id], base, fresh, art),
                       art, "idle")
              /\ fresh' = IF base.art = None THEN fresh + 2 ELSE fresh + 1

\* save_artifact_for_run: an artifact that is found is not stored again, one
\* that is not gets a new id.
SaveRun(c) ==
    /\ Loads(c, "saveRun")
    /\ Completed
    /\ \/ /\ doc.art # None /\ ArtifactFound(doc.art)
          /\ Store(c, doc, None, "idle")
          /\ UNCHANGED fresh
       \/ /\ ~(doc.art # None /\ ArtifactFound(doc.art))
          /\ fresh <= MaxIds
          /\ fresh' = fresh + 1
          /\ LET v == VersionOf(doc, doc.active)
             IN  Store(c, Changed(doc, v, v.text, fresh), fresh, "idle")

\* save_artifact_for_version, when there is something to save.
SaveVersion(c) ==
    /\ Loads(c, "saveVersion")
    /\ fresh <= MaxIds
    /\ fresh' = fresh + 1
    /\ \E v \in doc.versions :
          /\ v.art = None \/ ~ArtifactFound(v.art)
          /\ Store(c, Changed(doc, v, v.text, fresh), fresh, "idle")

Load(c) ==
    \/ Rename(c)
    \/ Touch(c)
    \/ Select(c)
    \/ \E op \in {"edit", "refine"} : AddVersion(c, op)
    \/ Overwrite(c)
    \/ SaveRun(c)
    \/ SaveVersion(c)

--------------------------------------------------------------------------------
(* delete_run *)

\* Mutation of Delete: only the artifact of the active version is deleted.
DeleteActiveArtifact(c) ==
    /\ Loads(c, "delete")
    /\ Become(c, [Idle EXCEPT !.pc = "mark", !.run = doc, !.gone = {doc.art} \ {None}])
    /\ UNCHANGED fresh

Delete(c) ==
    /\ Loads(c, "delete")
    /\ Become(c, [Idle EXCEPT !.pc = "mark", !.run = doc,
                              !.gone = Artifacts(doc) \cup ({doc.art} \ {None})])
    /\ UNCHANGED fresh

MarkDeleted(c) ==
    /\ act[c].pc = "mark"
    /\ tomb' = TRUE
    /\ Goto(c, "uncache")
    /\ UNCHANGED <<stores, cached, artCache, counters>>

Uncache(c) ==
    /\ act[c].pc = "uncache"
    /\ cached' = FALSE
    /\ artCache' = artCache \ act[c].gone
    /\ Goto(c, "delDoc")
    /\ UNCHANGED <<stores, tomb, counters>>

DeleteDoc(c) ==
    /\ act[c].pc = "delDoc"
    /\ doc' = NoDoc
    /\ Goto(c, "delArts")
    /\ UNCHANGED <<arts, memory, counters>>

DeleteDocFails(c) ==
    /\ act[c].pc = "delDoc"
    /\ Goto(c, "delArts")
    /\ Fault
    /\ UNCHANGED <<stores, memory>>

DeleteArtifacts(c) ==
    /\ act[c].pc = "delArts"
    /\ arts' = arts \ act[c].gone
    /\ phase' = "deleted"
    /\ Become(c, Idle)
    /\ UNCHANGED <<doc, memory, billed, fresh, faults>>

\* One or more of the deletions fail; the request ends all the same.
DeleteArtifactsFails(c) ==
    /\ act[c].pc = "delArts"
    /\ \E left \in SUBSET act[c].gone \ {{}} : arts' = arts \ (act[c].gone \ left)
    /\ phase' = "deleted"
    /\ Become(c, Idle)
    /\ faults < MaxFaults
    /\ faults' = faults + 1
    /\ UNCHANGED <<doc, memory, billed, fresh>>

DeleteSteps(c) == MarkDeleted(c) \/ Uncache(c) \/ DeleteDoc(c) \/ DeleteArtifacts(c)

--------------------------------------------------------------------------------
\* The process stops at any point: what is in memory, the queue of jobs
\* included, is gone.
Restart ==
    /\ phase # "new"
    /\ Fault
    /\ cached' = FALSE
    /\ artCache' = {}
    /\ tomb' = FALSE
    /\ act' = [a \in Actors |-> Idle]
    /\ UNCHANGED stores

\* The steps of a thread that is at work on the run.
Working(a) ==
    \/ Persist(a)
    \/ a \in Requesters /\ (Submit(a) \/ DeleteSteps(a))
    \/ a = Worker /\ Execute

Request(c) == Create(c) \/ Load(c) \/ Delete(c)

Faulty == \/ \E a \in Actors : PersistFault(a)
          \/ \E c \in Requesters : SubmitFails(c) \/ DeleteDocFails(c) \/ DeleteArtifactsFails(c)
          \/ Restart

Next ==
    \/ \E a \in Actors : Working(a)
    \/ \E c \in Requesters : Request(c)
    \/ Faulty

Spec == Init /\ [][Next]_vars

\* Threads run on: the pool takes up the queued job, and no call blocks for
\* ever.
Fairness == \A a \in Actors : WF_vars(Working(a))

FairSpec == Spec /\ Fairness

--------------------------------------------------------------------------------
\* The values each variable takes.
TypeOK ==
    /\ doc \in Run \cup {NoDoc}
    /\ arts \subseteq Ids
    /\ artCache \subseteq Ids
    /\ cached \in BOOLEAN /\ tomb \in BOOLEAN /\ billed \in BOOLEAN
    /\ act \in [Actors -> Local]
    /\ phase \in {"new", "created", "deleted"}
    /\ fresh \in 1..(MaxIds + 1)
    /\ faults \in 0..MaxFaults

\* What the run shows is its active version, and the versions are a tree whose
\* numbers grow from parent to child.
Coherent(run) ==
    /\ run.text = None <=> run.versions = {}
    /\ run.status = "completed" => run.versions # {}
    /\ run.versions # {} =>
         \E v \in run.versions :
            run.active = v.id /\ run.text = v.text /\ run.art = v.art
    /\ \A v, w \in run.versions : v.id = w.id \/ v.number = w.number => v = w
    /\ \A v \in run.versions :
         v.parent = None \/ \E w \in run.versions : w.id = v.parent /\ w.number < v.number

\* However requests, the job, failed writes and restarts interleave, the stored
\* document and every copy in flight are coherent: whole copies are stored, so
\* updates are lost but never mixed.
CopiesCoherent ==
    /\ doc # NoDoc => Coherent(doc)
    /\ \A a \in Actors : Coherent(act[a].run)

\* Whole copies are stored (_persist_run_state), so that the document, the copies in flight
\* and the job's copy each stay a run with its versions in order.
RunsCoherent == TypeOK /\ CopiesCoherent

\* A write that checked the tombstone before the deletion cannot bring the run
\* back into the list of this process.
DeletedNotCached ==
    tomb /\ (\A c \in Requesters : act[c].pc # "uncache") => ~cached

Quiet == \A a \in Actors : act[a].pc = "idle"

\* Whenever nobody is at work on a run that is not deleted, the artifacts
\* stored for it are the ones its versions name, so that a later deletion finds
\* them all.
NoOrphanArtifacts ==
    Quiet /\ faults = 0 /\ phase = "created" => arts = Artifacts(doc)

\* The deletion of a run whose job is over leaves none of its artifacts. (While
\* the job runs it can: _persist_artifact does not look at the tombstone.)
DeletionLeavesNothing ==
    [][\A c \in Requesters :
          /\ DeleteArtifacts(c)
          /\ phase = "created"
          /\ act[c].run.status \in {"completed", "failed"}
          => arts' = {}]_vars

\* No store of the document drops a version another request has stored.
NoVersionLost ==
    [][doc # NoDoc /\ doc' # NoDoc =>
          {v.id : v \in doc.versions} \subseteq {v.id : v \in doc'.versions}]_vars

Finished == doc = NoDoc \/ doc.status \in {"completed", "failed"}

\* A run that was accepted ends, for good, as completed or failed, unless it is
\* deleted. (A rename may store a running copy over the completed run.)
RunFinishes == (phase = "created") ~> [](Finished \/ phase = "deleted")
================================================================================
