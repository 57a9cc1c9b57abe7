------------------------------ MODULE InternalEvals ------------------------------
(***************************************************************************)
(* The internal evaluation page (features/internalEvals/InternalEvalsPage.tsx): *)
(* jobs that are started and polled, the results they leave, and the       *)
(* review that is saved under the result selected.                         *)
(*                                                                         *)
(* Job n leaves result n; job 1 ended before the page was opened.  A review is   *)
(* told by the result it was written about.  The four answers a refresh    *)
(* waits for are read one after the other; cases and catalog are left out. *)
(***************************************************************************)
EXTENDS FiniteSets, Naturals

CONSTANTS
    MaxJobs,    \* jobs at most
    MaxPolls,   \* polls in flight
    Budgets     \* what may happen: jobs to start (more), results and jobs opened, refreshes,
                \* reviews and comparisons (acts), failed requests and restarts (faults)

Ids == 1..MaxJobs
None == "none"
NoResult == 0
Active == {"queued", "running"}

VARIABLES
    jobs,       \* service: status of each job
    saved,      \* service: for each result, what its review was written about
    job,        \* job: one shown, as it was last heard of
    heardJobs,  \* jobs: the list
    listed,     \* results
    selected,   \* selectedResultId
    result,     \* result, with the draft that is about it
    creating,   \* createEvalRun in flight: by the form (busy) or by the agent's dialog
    polls,      \* getEvalJob in flight
    refreshes,  \* refreshAll, up to loadResult
    loads,      \* getEvalResult in flight
    call,       \* saveEvalReview or compareEvalIds in flight; busy
    more, acts, faults,
    failed,     \* history: a request failed or the service was restarted
    broken,     \* statusError: the page is gone
    muddled,    \* history: a load failed or overlapped another, and none has run alone since
    torn        \* history: the results of a refresh were read before a job heard of as ended had ended

evalVars == <<jobs, saved, job, heardJobs, listed, selected, result, creating, polls, refreshes,
              loads, call, more, acts, faults, failed, broken, muddled, torn>>
server == <<jobs, saved>>
shown == <<job, heardJobs, listed>>
fetching == <<refreshes, loads, selected, result, muddled>>
bounds == <<more, acts, faults, failed, broken>>

Missed == faults > 0 /\ faults' = faults - 1 /\ failed' = TRUE /\ UNCHANGED <<more, acts>>
Fault == Missed /\ UNCHANGED broken
Act == ~broken /\ acts > 0 /\ acts' = acts - 1 /\ UNCHANGED <<more, faults, failed, broken>>

\* The result is written before the job is saved as completed, and stays when it fails in between.
Left == {i \in Ids : jobs[i] \in {"exported", "completed", "spoiled", "stranded"}}
NoJob == [id |-> 0, status |-> None]
JobIsActive == job.status \in Active
Busy == call # {} \/ \E c \in creating : c.by = "form"

--------------------------------------------------------------------------------
(* The service: _RUN_LOCK lets one job run at a time. *)

AtWork == {"running", "exported"}

JobStarts(i) ==
    /\ jobs[i] = "queued" /\ \A k \in Ids : jobs[k] \notin AtWork
    /\ jobs' = [jobs EXCEPT ![i] = "running"]
    /\ UNCHANGED <<saved, shown, creating, polls, fetching, call, bounds, torn>>

JobExports(i) ==
    /\ jobs[i] = "running" /\ jobs' = [jobs EXCEPT ![i] = "exported"]
    /\ UNCHANGED <<saved, shown, creating, polls, fetching, call, bounds, torn>>

JobEnds(i) ==
    /\ \/ jobs[i] = "running" /\ jobs' = [jobs EXCEPT ![i] = "failed"]
       \/ jobs[i] = "exported" /\ \E s \in {"completed", "spoiled"} : jobs' = [jobs EXCEPT ![i] = s]
    /\ UNCHANGED <<saved, shown, creating, polls, fetching, call, bounds, torn>>

\* What a restart leaves: the file of a job that ran or waited keeps its status, and nobody takes it up.
Dropped(s) == CASE s \in Active -> "lost" [] s = "exported" -> "stranded" [] OTHER -> s

Restart ==
    /\ \E i \in Ids : jobs[i] \in Active \cup AtWork
    /\ jobs' = [i \in Ids |-> Dropped(jobs[i])] /\ Fault
    /\ UNCHANGED <<saved, shown, creating, polls, fetching, call, torn>>

\* The status in the job's file.
Status(i) ==
    CASE jobs[i] \in {"lost", "exported", "stranded"} -> "running"
      [] jobs[i] = "spoiled" -> "failed"
      [] OTHER -> jobs[i]

--------------------------------------------------------------------------------
(* Starting a job. *)

FormOffers == ~broken /\ ~JobIsActive /\ ~Busy
AgentOffers == ~broken /\ ~JobIsActive /\ \A c \in creating : c.by # "agent"

Create(by) ==
    /\ IF by = "form" THEN FormOffers ELSE AgentOffers
    /\ more > 0 /\ more' = more - 1
    /\ creating' = creating \cup {[by |-> by, id |-> 0]}
    /\ UNCHANGED <<server, shown, polls, fetching, call, acts, faults, failed, broken, torn>>

ServeCreate(c) ==
    /\ c.id = 0
    /\ \E i \in Ids :
        /\ jobs[i] = None /\ \A k \in 1..(i - 1) : jobs[k] # None
        /\ jobs' = [jobs EXCEPT ![i] = "queued"]
        /\ creating' = (creating \ {c}) \cup {[c EXCEPT !.id = i]}
    /\ UNCHANGED <<saved, shown, polls, fetching, call, bounds, torn>>

Created(c) ==
    /\ c.id # 0 /\ creating' = creating \ {c}
    /\ job' = [id |-> c.id, status |-> "queued"]
    /\ UNCHANGED <<server, heardJobs, listed, polls, fetching, call, bounds, torn>>

CreateFails(c) ==
    /\ creating' = creating \ {c} /\ Fault
    /\ UNCHANGED <<server, shown, polls, fetching, call, torn>>

\* One of the recent jobs, which are shown when there are two.
RecentOffers(i) == heardJobs[i] # None /\ \E k \in Ids \ {i} : heardJobs[k] # None

\* As the list has it.
PickJob(i) ==
    /\ Act /\ RecentOffers(i)
    /\ job' = [id |-> i, status |-> heardJobs[i]]
    /\ UNCHANGED <<server, heardJobs, listed, creating, polls, fetching, call, torn>>

--------------------------------------------------------------------------------
(* Loading a result. *)

\* What starts next to another load, or while a refresh is about to, may be overtaken.
Overlap == loads # {} \/ refreshes # {}
Muddle == muddled' = (muddled \/ Overlap)

Load(r, by) == loads' = loads \cup {[of |-> r, by |-> by]}

SelectResult(r) ==
    /\ r \in listed /\ Act
    /\ selected' = r /\ Load(r, "user") /\ muddled' = Overlap
    /\ UNCHANGED <<server, shown, creating, polls, refreshes, result, call, torn>>

\* What the page starts with ends in the page being unavailable.
Breaks(by) == broken' = (broken \/ by = "start")

\* busy ends with the load of the call's own refresh.
EndsCall(by) == call' = IF by = "call" THEN {} ELSE call

Loaded(l) ==
    /\ loads' = loads \ {l} /\ result' = l.of /\ EndsCall(l.by)
    /\ UNCHANGED <<server, shown, creating, polls, refreshes, selected, bounds, muddled, torn>>

LoadFails(l) ==
    /\ loads' = loads \ {l} /\ EndsCall(l.by) /\ muddled' = TRUE /\ Missed /\ Breaks(l.by)
    /\ UNCHANGED <<server, shown, creating, polls, refreshes, selected, result, torn>>

--------------------------------------------------------------------------------
(* refreshAll: the results and the jobs, then the result it wants or the first one. *)

Nobody == [i \in Ids |-> None]
Refresh(want, by) ==
    refreshes' = refreshes \cup
        {[want |-> want, by |-> by, left |-> {"results", "jobs"}, results |-> {}, jobs |-> Nobody]}

RefreshClicked ==
    /\ Act /\ Refresh(selected, "user") /\ Muddle
    /\ UNCHANGED <<server, shown, creating, polls, loads, selected, result, call, torn>>

ServeResults(f) ==
    /\ "results" \in f.left
    /\ refreshes' = (refreshes \ {f}) \cup {[f EXCEPT !.left = @ \ {"results"}, !.results = Left]}
    /\ UNCHANGED <<server, shown, creating, polls, loads, selected, result, muddled, call, bounds, torn>>

ServeJobs(f) ==
    /\ "jobs" \in f.left
    /\ refreshes' = (refreshes \ {f}) \cup
           {[f EXCEPT !.left = @ \ {"jobs"}, !.jobs = [i \in Ids |-> Status(i)]]}
    /\ UNCHANGED <<server, shown, creating, polls, loads, selected, result, muddled, call, bounds, torn>>

\* The job shown, as the list has it; else one at work, else the latest.
Follow(heard) ==
    LET there == {i \in Ids : heard[i] # None}
        atWork == {i \in there : heard[i] \in Active}
        latest(s) == CHOOSE i \in s : \A k \in s : k <= i
        next == IF job.id \in there THEN job.id
                ELSE IF atWork # {} THEN latest(atWork) ELSE latest(there)
    IN IF there = {} THEN job ELSE [id |-> next, status |-> heard[next]]

\* The latest result when none is wanted: it heads the list.
Wanted(f) == IF f.want = NoResult THEN CHOOSE r \in f.results : \A k \in f.results : k <= r ELSE f.want

\* Mutation of Selects: the result asked for, none in particular at the start.
SelectsAsked(f) == selected' = f.want
Selects(f) == selected' = Wanted(f)

Refreshed(f) ==
    /\ f.left = {} /\ refreshes' = refreshes \ {f}
    /\ listed' = f.results /\ heardJobs' = f.jobs /\ job' = Follow(f.jobs)
    /\ torn' = (torn \/ (job'.status = "completed" /\ job'.id \notin f.results)
                     \/ \E i \in Ids \ f.results : f.jobs[i] = "completed")
    /\ Selects(f) /\ Load(Wanted(f), f.by)
    /\ muddled' = (loads # {} \/ refreshes # {f})
    /\ UNCHANGED <<server, creating, polls, result, call, bounds>>

RefreshFails(f) ==
    /\ refreshes' = refreshes \ {f} /\ EndsCall(f.by) /\ Missed /\ Breaks(f.by)
    /\ UNCHANGED <<server, shown, creating, polls, loads, selected, result, muddled, torn>>

--------------------------------------------------------------------------------
(* The poll of the job shown, every two seconds, whether the last was answered or not. *)

\* MaxPolls bounds those in flight.
Poll ==
    /\ JobIsActive /\ Cardinality(polls) < MaxPolls
    /\ polls' = polls \cup {[id |-> job.id, status |-> "asked"]}
    /\ UNCHANGED <<server, shown, creating, fetching, call, bounds, torn>>

ServePoll(p) ==
    /\ p.status = "asked"
    /\ polls' = (polls \ {p}) \cup {[p EXCEPT !.status = Status(p.id)]}
    /\ UNCHANGED <<server, shown, creating, fetching, call, bounds, torn>>

AfterPoll(p) ==
    IF p.status = "completed" THEN Refresh(p.id, "poll") /\ Muddle ELSE UNCHANGED <<refreshes, muddled>>

\* Whichever job is shown by then.
Polled(p) ==
    /\ p.status # "asked" /\ polls' = polls \ {p}
    /\ job' = [id |-> p.id, status |-> p.status]
    /\ AfterPoll(p)
    /\ UNCHANGED <<server, heardJobs, listed, creating, loads, selected, result, call, bounds, torn>>

PollFails(p) ==
    /\ polls' = polls \ {p} /\ Fault
    /\ UNCHANGED <<server, shown, creating, fetching, call, torn>>

--------------------------------------------------------------------------------
(* The review, or the comparison, which saves nothing here. *)

ResultOffers == selected # NoResult /\ result # NoResult /\ ~Busy

\* Onto the result selected goes what is written about the result shown.
Call ==
    /\ ResultOffers /\ Act
    /\ call' = {[on |-> selected, about |-> result, to |-> "asked"]}
    /\ UNCHANGED <<server, shown, creating, polls, fetching, torn>>

ServeCall(c) ==
    /\ c.to = "asked" /\ call' = {[c EXCEPT !.to = "served"]}
    /\ saved' \in {saved, [saved EXCEPT ![c.on] = c.about]}
    /\ UNCHANGED <<jobs, shown, creating, polls, fetching, bounds, torn>>

CallAnswered(c) ==
    /\ c.to = "served" /\ call' = {[c EXCEPT !.to = "refreshing"]}
    /\ Refresh(c.on, "call") /\ Muddle
    /\ UNCHANGED <<server, shown, creating, polls, loads, selected, result, bounds, torn>>

CallFails(c) ==
    /\ c.to \in {"asked", "served"} /\ call' = {} /\ Fault
    /\ UNCHANGED <<server, shown, creating, polls, fetching, torn>>

--------------------------------------------------------------------------------

EvalInit ==
    /\ jobs = [Nobody EXCEPT ![1] = "completed"] /\ saved = [r \in Ids |-> NoResult]
    /\ job = NoJob /\ heardJobs = Nobody /\ listed = {}
    /\ selected = NoResult /\ result = NoResult
    /\ creating = {} /\ polls = {} /\ loads = {} /\ call = {}
    /\ refreshes = {[want |-> NoResult, by |-> "start", left |-> {"results", "jobs"}, results |-> {}, jobs |-> Nobody]}
    /\ \E b \in Budgets : more = b.more /\ acts = b.acts /\ faults = b.faults
    /\ failed = FALSE /\ broken = FALSE
    /\ muddled = FALSE /\ torn = FALSE

Jobs == \E i \in Ids : JobStarts(i) \/ JobExports(i) \/ JobEnds(i)
Answers ==
    \/ \E c \in creating : ServeCreate(c) \/ Created(c)
    \/ \E l \in loads : Loaded(l)
    \/ \E f \in refreshes : ServeResults(f) \/ ServeJobs(f) \/ Refreshed(f)
    \/ \E p \in polls : ServePoll(p) \/ Polled(p)
    \/ \E c \in call : ServeCall(c) \/ CallAnswered(c)
Failures ==
    \/ Restart
    \/ \E c \in creating : CreateFails(c)
    \/ \E l \in loads : LoadFails(l)
    \/ \E f \in refreshes : RefreshFails(f)
    \/ \E p \in polls : PollFails(p)
    \/ \E c \in call : CallFails(c)
UserActs ==
    \/ \E by \in {"form", "agent"} : Create(by)
    \/ \E i \in Ids : PickJob(i)
    \/ \E r \in Ids : SelectResult(r)
    \/ RefreshClicked
    \/ Call

EvalNext == Jobs \/ Answers \/ Failures \/ Poll \/ UserActs

--------------------------------------------------------------------------------

EvalTypeOK ==
    /\ jobs \in [Ids -> {None, "queued", "completed", "failed", "spoiled", "lost", "stranded"} \cup AtWork]
    /\ saved \in [Ids -> Ids \cup {NoResult}]
    /\ listed \subseteq Left /\ selected \in Ids \cup {NoResult} /\ result \in Ids \cup {NoResult}
    /\ Cardinality(call) <= 1 /\ \A r \in Ids : saved[r] # NoResult => r \in Left

(* Once every load is in, none failed and none overtook another, the       *)
(* result shown is the one selected: the review is saved under the result  *)
(* it was written about (onSelectResult, refreshAll, onSaveReview).        *)
ShownIsSelected == loads = {} /\ refreshes = {} /\ ~muddled => result = selected

(* A job that is shown as completed, once all that asks has been answered, *)
(* has its result in the list (the poll and refreshAll), unless a request  *)
(* failed or a refresh had read the results before the job ended.          *)
ResultListed ==
    job.status = "completed" /\ polls = {} /\ refreshes = {} =>
        job.id \in listed \/ torn \/ failed

================================================================================
