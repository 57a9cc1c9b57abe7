-------------------------------- MODULE Versions --------------------------------
(***************************************************************************)
(* The versions of one finished run in the details pane                    *)
(* (WorkflowResultDetails.tsx), with the handlers of WorkflowsPage.tsx it  *)
(* calls: the list of versions, the map on which their nodes are dragged,  *)
(* labels, the saved output, refinement, and the dialog that edits a       *)
(* selected text.                                                          *)
(*                                                                         *)
(* Every call answers with the whole run, which replaces the page's copy,  *)
(* and so does the poll; the map lays the positions it dragged nodes to    *)
(* over the copy, and keeps them.                                          *)
(* Left out: panning, node geometry, the text of labels and outputs,       *)
(* branching, which the pane has no control for; saving an edited output   *)
(* (OutputDrafts).                                                         *)
(***************************************************************************)
EXTENDS FiniteSets, Naturals

CONSTANTS
    Versions,   \* version ids
    First,      \* the version the run has first
    Places,     \* positions a node is dragged to
    Tasks,      \* calls of the pane that can be under way together
    NoVersion,  \* no version, no position
    MaxActs     \* bound: calls made

VARIABLES
    history,    \* the run at the service
    copy,       \* the page's copy of it
    placed,     \* localNodePositions
    drag,       \* nodeDragRef and draggingVersionId
    panel,      \* treeOpen, editingVersionId, resettingLayout
    busyVersion,\* versionBusyId
    refining,   \* refiningRunId is the run
    saving,     \* artifactBusyRunId is the run
    tasks,      \* the calls under way
    passage,    \* aiEditSelection: the version whose text is selected
    edited,     \* outputEditDrafts: the versions whose output is being edited
    done,       \* calls made so far
    crossed     \* what overlapping or lost calls may have left wrong

versionsVars == <<history, copy, placed, drag, panel, busyVersion, refining, saving,
                  tasks, passage, edited, done, crossed>>

--------------------------------------------------------------------------------
MaybeVersion == Versions \cup {NoVersion}
MaybePlace == Places \cup {NoVersion}
NoPlaces == [v \in Versions |-> NoVersion]
NoDrag == [v |-> NoVersion, at |-> NoVersion, saved |-> NoVersion]
NoTask == [kind |-> "none"]
ClosedPanel == [map |-> FALSE, label |-> NoVersion, resetting |-> FALSE]

\* A run with its versions: each has a saved position and an artifact, told by the version
\* whose output it holds.
RunOf(made, active) ==
    [made |-> made, active |-> active, at |-> NoPlaces, artifact |-> NoPlaces]

VersionsInit ==
    /\ \E v \in Versions : history = RunOf({First, v}, v)
    /\ copy = history
    /\ placed = NoPlaces
    /\ drag = NoDrag
    /\ panel = ClosedPanel
    /\ busyVersion = NoVersion
    /\ refining = FALSE
    /\ saving = FALSE
    /\ tasks = [t \in Tasks |-> NoTask]
    /\ passage = NoVersion
    /\ edited = {}
    /\ done = 0
    /\ crossed = {}

--------------------------------------------------------------------------------
(* What the pane shows. *)

\* Where the map draws a node: where it was dragged, else where it is saved, else in its row.
Position(v) == IF placed[v] # NoVersion THEN placed[v] ELSE copy.at[v]

\* One version needs no panel.
PanelShown == Cardinality(copy.made) > 1
MapShown == PanelShown /\ panel.map

\* The entries of the menu and the nodes of the map: not the one a call is about.
VersionOffered(v) ==
    /\ PanelShown
    /\ v \in copy.made /\ v # busyVersion

NodeOffered(v) == MapShown /\ VersionOffered(v) /\ drag = NoDrag /\ passage = NoVersion
\* The label being saved gives way to another one.
LabelOffered(v) == NodeOffered(v) /\ panel.label # v /\ panel.label \in {NoVersion, busyVersion}

\* The run of an answer replaces the copy; another output takes the dialog about a selected
\* text with it.
Replace(run) ==
    /\ copy' = run
    /\ passage' = IF run.active = copy.active THEN passage ELSE NoVersion

Pane == <<history, copy, passage, edited>>

--------------------------------------------------------------------------------
(* The calls. *)

Layouts == {"move", "reset"}
Outputs == {"select", "refine"}

\* Two calls under way together that may leave the map, or the output, wrong: the later
\* answer brings back what the other has changed.
Clash(k, l) ==
    {c \in {"map", "output"} :
        \/ c = "map" /\ ({k, l} \subseteq Layouts \/ "reset" \in {k, l})
        \/ c = "output" /\ {k, l} \cap Outputs # {}}

UnderWay == {t \in Tasks : tasks[t] # NoTask}
Clashes(kind) == UNION {Clash(kind, tasks[t].kind) : t \in UnderWay}

\* A change of the layout that fails goes back to the copy, which may be behind by then.
Behind(v) == IF copy.at[v] = history.at[v] THEN {} ELSE {"map"}

Start(t, kind, v, at, saved) ==
    /\ tasks[t] = NoTask
    /\ done < MaxActs
    /\ done' = done + 1
    /\ tasks' = [tasks EXCEPT ![t] = [kind |-> kind, v |-> v, at |-> at, saved |-> saved,
                                     st |-> "asked", run |-> NoVersion]]
    /\ crossed' = crossed \cup Clashes(kind)
                  \cup (IF kind = "reset" THEN UNION {Behind(w) : w \in history.made} ELSE {})

\* The version shown is not selected again; opening one on the map closes the map.
SelectVersion(t, v) ==
    /\ VersionOffered(v) /\ v # copy.active /\ drag = NoDrag /\ passage = NoVersion
    /\ ~panel.map
    /\ Start(t, "select", v, NoVersion, NoVersion)
    /\ busyVersion' = v
    /\ UNCHANGED <<Pane, placed, drag, panel, refining, saving>>

OpenMap ==
    /\ PanelShown /\ ~panel.map /\ passage = NoVersion
    /\ panel' = [panel EXCEPT !.map = TRUE]
    /\ UNCHANGED <<Pane, placed, drag, busyVersion, refining, saving, tasks, done, crossed>>

CloseMap ==
    /\ MapShown /\ drag = NoDrag
    /\ panel' = [panel EXCEPT !.map = FALSE]
    /\ UNCHANGED <<Pane, placed, drag, busyVersion, refining, saving, tasks, done, crossed>>

BeginLabel(v) ==
    /\ LabelOffered(v)
    /\ panel' = [panel EXCEPT !.label = v]
    /\ UNCHANGED <<Pane, placed, drag, busyVersion, refining, saving, tasks, done, crossed>>

\* An empty label or the one it had, or Escape, which closes the map as well.
CancelLabel ==
    /\ MapShown /\ panel.label # NoVersion /\ panel.label # busyVersion
    /\ \E stays \in BOOLEAN : panel' = [panel EXCEPT !.label = NoVersion, !.map = stays]
    /\ UNCHANGED <<Pane, placed, drag, busyVersion, refining, saving, tasks, done, crossed>>

\* Enter, or a click elsewhere: the input stays, disabled, until the answer.
SaveLabel(t) ==
    /\ MapShown /\ panel.label # NoVersion /\ panel.label # busyVersion
    /\ Start(t, "label", panel.label, NoVersion, NoVersion)
    /\ busyVersion' = panel.label
    /\ UNCHANGED <<Pane, placed, drag, panel, refining, saving>>

StartNodeDrag(v) ==
    /\ NodeOffered(v) /\ panel.label # v
    /\ drag' = [v |-> v, at |-> NoVersion, saved |-> copy.at[v]]
    /\ crossed' = crossed \cup (Clashes("move") \cap {"map"}) \cup Behind(v)
    /\ UNCHANGED <<Pane, placed, panel, busyVersion, refining, saving, tasks, done>>

MoveNodeDrag(p) ==
    /\ drag # NoDrag /\ drag.at # p
    /\ drag' = [drag EXCEPT !.at = p]
    /\ placed' = [placed EXCEPT ![drag.v] = p]
    /\ UNCHANGED <<Pane, panel, busyVersion, refining, saving, tasks, done, crossed>>

\* Mutation of PutBack: the node stays where it was dragged.
PutBackNothing(v, saved) == placed' = placed

\* The node returns to where it was saved when the drag began.
PutBack(v, saved) == placed' = [placed EXCEPT ![v] = saved]

\* A node that was not moved is opened.
StopNodeDrag(t) ==
    /\ drag # NoDrag
    /\ drag' = NoDrag
    /\ UNCHANGED <<Pane, placed, refining, saving>>
    /\ \/ /\ drag.at # NoVersion
          /\ Start(t, "move", drag.v, drag.at, drag.saved)
          /\ UNCHANGED <<panel, busyVersion>>
       \/ /\ drag.at = NoVersion /\ drag.v # copy.active
          /\ Start(t, "select", drag.v, NoVersion, NoVersion)
          /\ busyVersion' = drag.v
          /\ panel' = [panel EXCEPT !.map = FALSE]
       \/ /\ drag.at = NoVersion /\ drag.v = copy.active
          /\ panel' = [panel EXCEPT !.map = FALSE]
          /\ UNCHANGED <<busyVersion, tasks, done, crossed>>

CancelNodeDrag ==
    /\ drag # NoDrag
    /\ drag' = NoDrag
    /\ PutBack(drag.v, drag.saved)
    /\ UNCHANGED <<Pane, panel, busyVersion, refining, saving, tasks, done, crossed>>

ResetLayout(t) ==
    /\ MapShown /\ ~panel.resetting /\ drag = NoDrag
    /\ Start(t, "reset", NoVersion, NoVersion, NoVersion)
    /\ placed' = NoPlaces
    /\ panel' = [panel EXCEPT !.resetting = TRUE]
    /\ UNCHANGED <<Pane, drag, busyVersion, refining, saving>>

\* The pane below the map.
OutputOffered == ~panel.map /\ passage = NoVersion
Editing == copy.active \in edited

\* The draft of a version stays while another one is shown.
BeginEdit ==
    /\ OutputOffered /\ ~saving /\ ~Editing
    /\ edited' = edited \cup {copy.active}
    /\ UNCHANGED <<history, copy, passage, placed, drag, panel, busyVersion, refining,
                   saving, tasks, done, crossed>>

CancelEdit ==
    /\ OutputOffered /\ ~saving /\ Editing
    /\ edited' = edited \ {copy.active}
    /\ UNCHANGED <<history, copy, passage, placed, drag, panel, busyVersion, refining,
                   saving, tasks, done, crossed>>

SubmitRefinement(t) ==
    /\ OutputOffered /\ ~refining
    /\ Start(t, "refine", NoVersion, NoVersion, NoVersion)
    /\ refining' = TRUE
    /\ UNCHANGED <<Pane, placed, drag, panel, busyVersion, saving>>

\* Save, or a download of an output that was not saved.
SaveOutput(t) ==
    /\ OutputOffered /\ ~saving /\ ~Editing
    /\ copy.artifact[copy.active] = NoVersion
    /\ Start(t, "artifact", NoVersion, NoVersion, NoVersion)
    /\ saving' = TRUE
    /\ UNCHANGED <<Pane, placed, drag, panel, busyVersion, refining>>

Poll(t) ==
    /\ \A u \in UnderWay : tasks[u].kind # "poll"
    /\ Start(t, "poll", NoVersion, NoVersion, NoVersion)
    /\ UNCHANGED <<Pane, placed, drag, panel, busyVersion, refining, saving>>

\* The selected text in the editor, and the dialog about it.
OpenAiEdit ==
    /\ OutputOffered /\ Editing /\ ~saving /\ ~refining
    /\ passage' = copy.active
    /\ UNCHANGED <<history, copy, edited, placed, drag, panel, busyVersion, refining,
                   saving, tasks, done, crossed>>

CloseAiEdit ==
    /\ passage # NoVersion
    /\ passage' = NoVersion
    /\ UNCHANGED <<history, copy, edited, placed, drag, panel, busyVersion, refining,
                   saving, tasks, done, crossed>>

--------------------------------------------------------------------------------
(* The service. *)

Served(task) ==
    CASE task.kind = "select" -> {[history EXCEPT !.active = task.v]}
      [] task.kind = "move" -> {[history EXCEPT !.at[task.v] = task.at]}
      [] task.kind = "reset" -> {[history EXCEPT !.at = NoPlaces]}
      [] task.kind = "refine" -> {[history EXCEPT !.made = @ \cup {v}, !.active = v] :
                                    v \in Versions \ history.made}
      [] task.kind = "artifact" -> {[history EXCEPT !.artifact[history.active] = history.active]}
      [] OTHER -> {history}

Serve(t) ==
    /\ tasks[t] # NoTask /\ tasks[t].st = "asked"
    /\ history' \in Served(tasks[t])
    /\ tasks' = [tasks EXCEPT ![t].st = "answered", ![t].run = history']
    /\ UNCHANGED <<copy, placed, drag, panel, busyVersion, refining, saving, passage,
                   edited, done, crossed>>

\* The request is lost, or its answer is: then the service has what the page does not know.
Lose(t) ==
    /\ tasks[t] # NoTask /\ tasks[t].st \in {"asked", "answered"}
    /\ tasks' = [tasks EXCEPT ![t].st = "failed", ![t].run = NoVersion]
    /\ crossed' = IF tasks[t].st = "answered" THEN {"map", "output"} ELSE crossed
    /\ UNCHANGED <<Pane, placed, drag, panel, busyVersion, refining, saving, done>>

--------------------------------------------------------------------------------
(* The answers. *)

Answers(t, kinds) ==
    /\ tasks[t] # NoTask /\ tasks[t].st = "answered" /\ tasks[t].kind \in kinds
    /\ tasks' = [tasks EXCEPT ![t] = NoTask]
    /\ UNCHANGED <<history, drag, edited, done, crossed>>

\* Each call frees the version it took, unless a later one has taken it since.
FreeVersion(v) == busyVersion' = IF busyVersion = v THEN NoVersion ELSE busyVersion

VersionSelected(t) ==
    /\ Answers(t, {"select"})
    /\ Replace(tasks[t].run)
    /\ FreeVersion(tasks[t].v)
    /\ UNCHANGED <<placed, panel, refining, saving>>

\* Whatever label is being typed by then goes.
VersionRenamed(t) ==
    /\ Answers(t, {"label"})
    /\ Replace(tasks[t].run)
    /\ FreeVersion(tasks[t].v)
    /\ panel' = [panel EXCEPT !.label = NoVersion]
    /\ UNCHANGED <<placed, refining, saving>>

NodeMoved(t) ==
    /\ Answers(t, {"move"})
    /\ Replace(tasks[t].run)
    /\ UNCHANGED <<placed, panel, busyVersion, refining, saving>>

LayoutReset(t) ==
    /\ Answers(t, {"reset"})
    /\ Replace(tasks[t].run)
    /\ panel' = [panel EXCEPT !.resetting = FALSE]
    /\ UNCHANGED <<placed, busyVersion, refining, saving>>

Refined(t) ==
    /\ Answers(t, {"refine"})
    /\ Replace(tasks[t].run)
    /\ refining' = FALSE
    /\ UNCHANGED <<placed, panel, busyVersion, saving>>

Polled(t) ==
    /\ Answers(t, {"poll"})
    /\ Replace(tasks[t].run)
    /\ UNCHANGED <<placed, panel, busyVersion, refining, saving>>

\* The artifact is attached to the version shown when it arrives.
Attached(run, of) == [run EXCEPT !.artifact[run.active] = of]

OutputSaved(t) ==
    /\ Answers(t, {"artifact"})
    /\ Replace(Attached(copy, tasks[t].run.active))
    /\ saving' = FALSE
    /\ UNCHANGED <<placed, panel, busyVersion, refining>>

\* A failed rename leaves its input open.
TaskFailed(t) ==
    LET task == tasks[t] IN
    /\ task # NoTask /\ task.st = "failed"
    /\ tasks' = [tasks EXCEPT ![t] = NoTask]
    /\ IF task.kind = "move" THEN PutBack(task.v, task.saved) ELSE UNCHANGED placed
    /\ FreeVersion(IF task.kind \in {"select", "label"} THEN task.v ELSE NoVersion)
    /\ refining' = (refining /\ task.kind # "refine")
    /\ saving' = (saving /\ task.kind # "artifact")
    /\ panel' = [panel EXCEPT !.resetting = @ /\ task.kind # "reset"]
    /\ UNCHANGED <<Pane, drag, done, crossed>>

--------------------------------------------------------------------------------
UseMap ==
    \/ OpenMap \/ CloseMap \/ CancelLabel \/ CancelNodeDrag
    \/ \E v \in Versions : BeginLabel(v) \/ StartNodeDrag(v)
    \/ \E p \in Places : MoveNodeDrag(p)

VersionsNext ==
    \/ UseMap \/ BeginEdit \/ CancelEdit \/ OpenAiEdit \/ CloseAiEdit
    \/ \E t \in Tasks :
        \/ SaveLabel(t) \/ StopNodeDrag(t) \/ ResetLayout(t) \/ SubmitRefinement(t)
        \/ SaveOutput(t) \/ Poll(t) \/ \E v \in Versions : SelectVersion(t, v)
        \/ Serve(t) \/ Lose(t) \/ TaskFailed(t)
        \/ VersionSelected(t) \/ VersionRenamed(t) \/ NodeMoved(t) \/ LayoutReset(t)
        \/ Refined(t) \/ Polled(t) \/ OutputSaved(t)

--------------------------------------------------------------------------------
(* Properties *)

Calm == drag = NoDrag /\ UnderWay = {}

\* The map draws every node where it is saved, whatever answers with whole runs came in
\* whatever order, unless changes of the layout overlapped, an answer was lost, or one began
\* while the copy was behind.
MapAsSaved ==
    Calm /\ "map" \notin crossed => \A v \in copy.made : Position(v) = history.at[v]

\* The artifact shown with a version holds that version's output, so that a download brings
\* what is on the screen.
ArtifactsOwn ==
    "output" \notin crossed =>
        \A v \in copy.made : copy.artifact[v] \in {NoVersion, v}

\* The text to be edited with AI is of the output on the screen, which is being edited.
EditOfShown == passage # NoVersion => passage = copy.active /\ passage \in edited

VersionsShown == MapAsSaved /\ ArtifactsOwn /\ EditOfShown
================================================================================
