-------------------------------- MODULE Launcher --------------------------------
(***************************************************************************)
(* The dialog that starts a workflow (LegalWorkflowLauncher, WorkflowLauncher *)
(* and WorkflowFilePicker of features/workflows/components), with what     *)
(* WorkflowsPage.tsx hands to it and does with its answer.                 *)
(*                                                                         *)
(* A legal workflow has the three steps, the chips and the hidden fields;  *)
(* a plain one shows everything at once.  One text stands for focus and    *)
(* matter context, one chip field for the settings of the configuration.   *)
(* The catalog dialog, whose entries are loaded, has two libraries: core   *)
(* (plain workflows) and pro (packs of legal ones).                        *)
(***************************************************************************)
EXTENDS FiniteSets, Naturals, Sequences

CONSTANTS
    Files,        \* files of the user
    Chips,        \* options of the chip field
    DefaultChips, \* its defaultValue
    Wants,        \* for "legal" and "plain": the numbers of files the manifest accepts
    MaxRuns,      \* runs asked for
    MaxTroubles   \* requests that fail, files deleted elsewhere

Workflows == {"legal", "plain"}
Steps == <<"source", "context", "settings">>
NoCall == [to |-> "nothing"]

VARIABLES
    stored,     \* service: files
    runs,       \* service: runs made, as [asked, shown, chained]
    list,       \* launcherFiles
    listing,    \* listFiles in flight: none, asked, or answered with the files then
    catalog,    \* WorkflowCatalogDialog: open, its step, workflowLibraryView
    open,       \* workflowLauncherOpen, with activeWorkflow
    workflow,
    handed,     \* launcherSelection, launcherInitialInputs and launcherChainSource
    form,       \* editableSelection, focus, customValues
    step,       \* activeStep
    request,       \* createWorkflowRun in flight; workflowSubmitting
    asks, misses

launcherVars == <<stored, runs, list, listing, catalog, open, workflow, handed, form, step, request, asks, misses>>
dialog == <<open, workflow, handed, form, step>>
service == <<stored, runs>>
files == <<list, listing>>

Miss == misses > 0 /\ misses' = misses - 1

--------------------------------------------------------------------------------
(* What the dialog shows and sends. *)

Nothing == [picks |-> {}, text |-> "", pack |-> FALSE, chain |-> FALSE]

\* The effect: whenever the dialog is handed something, it starts from that and the defaults.
Started(h) == [picks |-> h.picks, text |-> h.text, chips |-> DefaultChips]

Submitting == request # NoCall

\* isWorkflowSelectionValid over the picker's selection, with the list loaded.
CanRun == Cardinality(form.picks) \in Wants[workflow] /\ listing = {}

\* No chip left shows the default again.
ShownChips == IF form.chips = {} THEN DefaultChips ELSE form.chips

Shown == [workflow |-> workflow, picks |-> form.picks, text |-> form.text,
          chips |-> IF workflow = "legal" THEN ShownChips ELSE {},
          pack |-> handed.pack, chain |-> handed.chain]

\* Mutation of Asked: the text the dialog was opened with.
AskedAsHanded == [Shown EXCEPT !.text = handed.text]

\* Submitted inputs: what is typed, the chips as they are kept, the source of the chain.
Asked == [Shown EXCEPT !.chips = IF workflow = "legal" THEN form.chips ELSE {}]

--------------------------------------------------------------------------------
(* Opening. *)

\* ensureLauncherFilesLoaded: once there is a file in the list it is never read again.
Ensured == listing' = IF list = {} /\ listing = {} THEN {[to |-> "asked", found |-> {}]} ELSE listing

Handed(w, h) ==
    /\ open' = TRUE /\ workflow' = w /\ handed' = h
    /\ form' = Started(h) /\ step' = 1
    /\ Ensured
    /\ UNCHANGED <<service, list, request, asks, misses>>

InCatalog(s) == catalog.open /\ catalog.step = s

Browse(c) ==
    /\ catalog' = c
    /\ UNCHANGED <<service, files, dialog, request, asks, misses>>

\* It always opens at the libraries.
OpenCatalog == ~open /\ ~catalog.open /\ Browse([catalog EXCEPT !.open = TRUE, !.step = "library"])

CloseCatalog == catalog.open /\ Browse([catalog EXCEPT !.open = FALSE, !.step = "library"])

LibraryOffered == InCatalog("library") /\ ~Submitting
ChooseLibrary(v) == LibraryOffered /\ Browse([catalog EXCEPT !.step = "workflow", !.library = v])

CatalogBack == InCatalog("workflow") /\ Browse([catalog EXCEPT !.step = "library"])

CatalogOffers(v) == InCatalog("workflow") /\ catalog.library = v
CoreOffered == CatalogOffers("core") /\ ~Submitting
PackOffered == CatalogOffers("pro") /\ ~Submitting

LeaveCatalog == catalog' = [catalog EXCEPT !.open = FALSE, !.step = "library"]

PackInputs == [Nothing EXCEPT !.pack = TRUE]

LaunchCore == CoreOffered /\ LeaveCatalog /\ Handed("plain", Nothing)

LaunchPack == PackOffered /\ LeaveCatalog /\ Handed("legal", PackInputs)

ChainInputs(r) == [Nothing EXCEPT !.picks = r.asked.picks, !.text = "handed", !.chain = TRUE]

\* From a suggested action of a run: its files, its focus and the run itself.
\* Even while another run is asked for.
FollowUp(w) ==
    /\ ~open /\ ~catalog.open /\ UNCHANGED catalog
    /\ \E r \in runs : Handed(w, ChainInputs(r))

Cleared ==
    /\ open' = FALSE /\ workflow' = "plain" /\ handed' = Nothing
    /\ form' = Started(Nothing) /\ step' = 1

\* Cancel, Escape and the cross; the last two while a run is asked for, too.
Close ==
    /\ open /\ Cleared
    /\ UNCHANGED <<catalog, service, files, request, asks, misses>>

--------------------------------------------------------------------------------
(* The list of files. *)

ServeList ==
    /\ \E l \in listing : l.to = "asked"
    /\ listing' = {[to |-> "answered", found |-> stored]}
    /\ UNCHANGED <<catalog, service, list, dialog, request, asks, misses>>

\* Mutation of KeepForm: the list handed down anew starts the dialog afresh.
RestartForm == form' = Started(handed)
KeepForm == UNCHANGED form

ShowList ==
    /\ \E l \in listing : l.to = "answered" /\ list' = l.found
    /\ listing' = {} /\ KeepForm
    /\ UNCHANGED <<catalog, service, open, workflow, handed, step, request, asks, misses>>

ListFails ==
    /\ listing # {} /\ listing' = {} /\ Miss
    /\ UNCHANGED <<catalog, service, list, dialog, request, asks>>

DeletedElsewhere(f) ==
    /\ f \in stored /\ Miss /\ stored' = stored \ {f}
    /\ UNCHANGED <<catalog, runs, files, dialog, request, asks>>

--------------------------------------------------------------------------------
(* Filling in. *)

At(s) == open /\ (workflow = "plain" \/ Steps[step] = s)

\* What the sections of the dialog let the user do.
SourceOffers == At("source") /\ ~Submitting /\ listing = {}
ContextOffers == At("context") /\ (workflow = "legal" => ~Submitting) \* the plain text stays open
SettingsOffer == At("settings") /\ workflow = "legal" /\ ~Submitting
StepsOffered == open /\ workflow = "legal" /\ ~Submitting
RunOffered == open /\ CanRun /\ ~Submitting /\ (workflow = "legal" => step = Len(Steps))

Fill(f) ==
    /\ form' = f
    /\ UNCHANGED <<catalog, service, files, open, workflow, handed, step, request, asks, misses>>

Toggled(s, e) == IF e \in s THEN s \ {e} ELSE s \cup {e}

\* Only files of the list can be clicked.
Pick(f) ==
    /\ SourceOffers /\ f \in list
    /\ Fill([form EXCEPT !.picks = Toggled(form.picks, f)])

ClearAll ==
    /\ SourceOffers /\ form.picks # {}
    /\ Fill([form EXCEPT !.picks = {}])

Type ==
    /\ ContextOffers
    /\ \E t \in {"", "typed"} : Fill([form EXCEPT !.text = t])

ToggleChip(c) ==
    /\ SettingsOffer
    /\ Fill([form EXCEPT !.chips = Toggled(ShownChips, c)])

GoTo(s) ==
    /\ StepsOffered /\ s # step
    /\ step' = s
    /\ UNCHANGED <<catalog, service, files, open, workflow, handed, form, request, asks, misses>>

--------------------------------------------------------------------------------
(* Running. *)

Run ==
    /\ RunOffered
    /\ asks > 0 /\ asks' = asks - 1
    /\ request' = [to |-> "asked", asked |-> Asked, shown |-> Shown]
    /\ UNCHANGED <<catalog, service, files, dialog, misses>>

\* create_run checks the selection against the manifest only.
ServeRun ==
    /\ request.to = "asked"
    /\ request' = [request EXCEPT !.to = "made"]
    /\ runs' = runs \cup {[asked |-> request.asked, shown |-> request.shown]}
    /\ UNCHANGED <<catalog, stored, files, dialog, asks, misses>>

\* Whatever launcher is open by then is closed.
RunAnswered ==
    /\ request.to = "made" /\ request' = NoCall
    /\ Cleared
    /\ UNCHANGED <<catalog, service, files, asks, misses>>

FailKeeps == UNCHANGED dialog

\* Refused, or its answer lost.
RunFails ==
    /\ Submitting /\ request' = NoCall /\ Miss
    /\ FailKeeps
    /\ UNCHANGED <<catalog, service, files, asks>>

--------------------------------------------------------------------------------

LauncherInit ==
    /\ stored = Files /\ runs = {} /\ list = {} /\ listing = {}
    /\ catalog = [open |-> FALSE, step |-> "library", library |-> "core"]
    /\ open = FALSE /\ workflow = "plain" /\ handed = Nothing
    /\ form = Started(Nothing) /\ step = 1
    /\ request = NoCall /\ asks = MaxRuns /\ misses = MaxTroubles

LauncherNext ==
    \/ OpenCatalog \/ CloseCatalog \/ CatalogBack
    \/ \E v \in {"core", "pro"} : ChooseLibrary(v)
    \/ LaunchCore \/ LaunchPack
    \/ \E w \in Workflows : FollowUp(w)
    \/ Close
    \/ ServeList \/ ShowList \/ ListFails
    \/ \E f \in Files : DeletedElsewhere(f) \/ Pick(f)
    \/ ClearAll \/ Type
    \/ \E c \in Chips : ToggleChip(c)
    \/ \E s \in 1..Len(Steps) : GoTo(s)
    \/ Run \/ ServeRun \/ RunAnswered \/ RunFails

--------------------------------------------------------------------------------

LauncherTypeOK ==
    /\ stored \subseteq Files /\ list \subseteq Files /\ Cardinality(listing) <= 1
    /\ open \in BOOLEAN /\ workflow \in Workflows /\ step \in 1..Len(Steps)
    /\ form \in [picks : SUBSET Files, text : {"", "typed", "handed"}, chips : SUBSET Chips]
    /\ request.to \in {"nothing", "asked", "made"}

(* A run is made with the files, the text, the chips and the source its    *)
(* dialog showed when Run was pressed (submitWorkflow, handleRunWorkflow), *)
(* save for chips that were all taken away: they show the default and send *)
(* nothing.                                                                *)
RunAsShown ==
    \A r \in runs : r.asked = r.shown \/ r.asked = [r.shown EXCEPT !.chips = {}]

(* What was filled in is lost only when the user closes the dialog or a    *)
(* run was made: a list of files that comes late, a file that goes and a   *)
(* request that fails leave it (the effect's dependencies, handleRunWorkflow). *)
LosesNothing ==
    /\ open /\ ~open' => request' = request \/ request.to = "made"
    /\ open /\ open' /\ form' # form => UNCHANGED <<list, listing, stored, request>>

FilledKept == [][LosesNothing]_launcherVars

================================================================================
