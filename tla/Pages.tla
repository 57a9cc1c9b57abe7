--------------------------------- MODULE Pages ---------------------------------
(***************************************************************************)
(* The pages and dialogs in which a user changes something, and whose      *)
(* state is their own, side by side; a behaviour is a visit to one of      *)
(* them.  Those that show what happens elsewhere are in Views; the pages   *)
(* that share the chat store, the files or the runs have modules of their  *)
(* own.                                                                    *)
(***************************************************************************)
EXTENDS FiniteSets, Naturals, Sequences, Route

CONSTANTS
    \* the bounds and the data of the pages, which their modules explain
    MaxClicks, Cares, MaxChanges, MaxRenewals, MaxTroubles,
    Prices, Keyings, NoPrice,
    Files, Chips, DefaultChips, Wants, MaxRuns,
    Kinds, MaxLines, MaxVisits, MaxHeads,
    Versions, First, Places, Tasks, NoVersion, MaxActs

\* Data of the right kind.
ASSUME PagesAssumption ==
    /\ Cares \subseteq [clicks : 0..MaxClicks, troubles : Nat]
    /\ First \in Versions /\ NoVersion \notin Versions \cup Places

VARIABLES
    methods, local, shown, recent, click, busy, pending, dialog, verifying, phoneStep,
    deletion, troubles, estranged,
    sub, load, poll, limits, subs, observer, orphans, btn, switches, renewals,
    setbacks, unheard, mishap,
    stripe, mirror, heard, listening, byId, products, keys, asked, found, server, changes,
    breakdowns, astray,
    stored, runs, list, listing, catalog, open, workflow, handed, form, step, request,
    asks, misses,
    origin, value, blocks, emitted, focused, visits, heads,
    history, copy, placed, drag, panel, busyVersion, refining, saving, tasks, passage,
    edited, done, crossed

Account == INSTANCE Profile
Plan == INSTANCE Billing
Catalog == INSTANCE PlanCatalog
Launch == INSTANCE Launcher
Editor == INSTANCE RichEditor
Output == INSTANCE Versions

accountVars == <<methods, local, shown, recent, click, busy, pending, dialog,
                 verifying, phoneStep, deletion, troubles, estranged>>
planVars == <<sub, load, poll, limits, subs, observer, orphans, btn, switches,
              renewals, setbacks, unheard, mishap>>
catalogVars == <<stripe, mirror, heard, listening, byId, products, keys, asked, found, server,
                 changes, breakdowns, astray>>
launchVars == <<stored, runs, list, listing, catalog, open, workflow, handed, form,
                step, request, asks, misses>>
editorVars == <<origin, value, blocks, emitted, focused, visits, heads>>
outputVars == <<history, copy, placed, drag, panel, busyVersion, refining, saving,
                tasks, passage, edited, done, crossed>>
pagesVars == <<route, accountVars, planVars, catalogVars, launchVars, editorVars,
          outputVars>>

--------------------------------------------------------------------------------
(* A page that is not mounted has no state. *)

NoAccount ==
    /\ methods = Off /\ local = Off /\ shown = Off /\ recent = Off /\ click = Off
    /\ busy = Off /\ pending = Off /\ dialog = Off /\ verifying = Off
    /\ phoneStep = Off /\ deletion = Off /\ troubles = Off /\ estranged = Off

NoPlan ==
    /\ sub = Off /\ load = Off /\ poll = Off /\ limits = Off /\ subs = Off
    /\ observer = Off /\ orphans = Off /\ btn = Off /\ switches = Off
    /\ renewals = Off /\ setbacks = Off /\ unheard = Off /\ mishap = Off

NoCatalog ==
    /\ stripe = Off /\ mirror = Off /\ heard = Off /\ listening = Off /\ byId = Off
    /\ products = Off /\ keys = Off /\ asked = Off /\ found = Off
    /\ server = Off /\ changes = Off /\ breakdowns = Off /\ astray = Off

NoLaunch ==
    /\ stored = Off /\ runs = Off /\ list = Off /\ listing = Off /\ catalog = Off
    /\ open = Off /\ workflow = Off /\ handed = Off /\ form = Off /\ step = Off
    /\ request = Off /\ asks = Off /\ misses = Off

NoEditor ==
    /\ origin = Off /\ value = Off /\ blocks = Off /\ emitted = Off /\ focused = Off
    /\ visits = Off /\ heads = Off

NoOutput ==
    /\ history = Off /\ copy = Off /\ placed = Off /\ drag = Off /\ panel = Off
    /\ busyVersion = Off /\ refining = Off /\ saving = Off /\ tasks = Off
    /\ passage = Off /\ edited = Off /\ done = Off /\ crossed = Off

--------------------------------------------------------------------------------
OnlyTheAccount == UNCHANGED <<route, planVars, catalogVars, launchVars, editorVars,
                              outputVars>>
OnlyThePlan == UNCHANGED <<route, accountVars, catalogVars, launchVars, editorVars,
                           outputVars>>
OnlyTheCatalog == UNCHANGED <<route, accountVars, planVars, launchVars, editorVars,
                              outputVars>>
OnlyTheLaunch == UNCHANGED <<route, accountVars, planVars, catalogVars, editorVars,
                             outputVars>>
OnlyTheEditor == UNCHANGED <<route, accountVars, planVars, catalogVars, launchVars,
                             outputVars>>
OnlyTheOutput == UNCHANGED <<route, accountVars, planVars, catalogVars, launchVars,
                             editorVars>>

PagesInit ==
    /\ route \in Routes
    /\ IF route = "profile" THEN Account!ProfileInit ELSE NoAccount
    /\ IF route = "billing" THEN Plan!BillingInit ELSE NoPlan
    /\ IF route = "catalog" THEN Catalog!CatalogInit ELSE NoCatalog
    /\ IF route = "launcher" THEN Launch!LauncherInit ELSE NoLaunch
    /\ IF route = "editor" THEN Editor!EditorInit ELSE NoEditor
    /\ IF route = "versions" THEN Output!VersionsInit ELSE NoOutput

AccountStep == route = "profile" /\ Account!ProfileNext /\ OnlyTheAccount
PlanStep == route = "billing" /\ Plan!BillingNext /\ OnlyThePlan
CatalogStep == route = "catalog" /\ Catalog!CatalogNext /\ OnlyTheCatalog
LaunchStep == route = "launcher" /\ Launch!LauncherNext /\ OnlyTheLaunch
EditorStep == route = "editor" /\ Editor!EditorNext /\ OnlyTheEditor
OutputStep == route = "versions" /\ Output!VersionsNext /\ OnlyTheOutput

PagesNext == AccountStep \/ PlanStep \/ CatalogStep \/ LaunchStep \/ EditorStep \/ OutputStep

PagesSpec == PagesInit /\ [][PagesNext]_pagesVars

--------------------------------------------------------------------------------
(* What the pages promise, each while it is shown. *)

\* ProfilePage: a method is added or removed as the user asked for it, also when he was asked
\* to verify himself in between, and one to sign in with is always kept.
AccountKept == route = "profile" => Account!DoneAsAsked /\ Account!MethodKept

\* BillingPage's catalog: once all have answered, the price on offer is Stripe's and the one a
\* checkout charges, in whatever order the product, its prices and the server's lookup, which
\* reads the same documents, came.
PriceFollows == route = "catalog" => Catalog!PriceFollows

\* BillingPage: a user with a plan is sent to the checkout only while no one has told the page
\* of that plan.
NoSecondPlan == [][route = "billing" => Plan!Needed]_pagesVars

\* The launchers: a run is started with the files and options the user was shown.
RunAsShown == route = "launcher" => Launch!RunAsShown

\* The launchers: what a user has filled in is not lost to a list that arrives late.
FilledKept == [][route = "launcher" => Launch!LosesNothing]_pagesVars

\* MarkdownRichEditor: the words of a document come through every conversion, and looking at
\* it changes nothing.
DocumentKept == route = "editor" => Editor!DocumentKept

\* WorkflowResultDetails: a label drawn on the map lies where it was saved or dragged, and the
\* artifact and the text to edit are those of their version, unless calls crossed.
VersionsShown == route = "versions" => Output!VersionsShown
================================================================================
