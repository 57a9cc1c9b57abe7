-------------------------------- MODULE PlanSync --------------------------------
(***************************************************************************)
(* core/plan.py: every request first brings the quota of RateLimit in line *)
(* with the subscription that the payment extension keeps in Firestore.    *)
(* _refresh_and_handle_transition is a chain of single Redis commands, so  *)
(* two requests of one user interleave between any two of them, and each   *)
(* block of the chain swallows its own errors and lets the next one run.   *)
(***************************************************************************)
EXTENDS RateLimit

CONSTANTS
    Syncers,       \* concurrent requests that refresh the plan
    MaxChanges,    \* bound: changes of the subscription
    MaxExpiries    \* bound: expiries of the two cached keys

ASSUME PlanAssumption == MaxChanges \in Nat /\ MaxExpiries \in Nat

VARIABLES
    sub,          \* Firestore: newest subscription and users/{uid}.plan_override
    lastPlan,     \* plan:{uid}:last, kept for cache_ttl_sec
    lastAnchor,   \* plan:{uid}:anchor_last, kept for cache_ttl_sec
    sync,         \* program counter and locals of each refresh
    changes,      \* number of changes of the subscription so far
    expiries,     \* number of expired keys so far
    wiped         \* history: wipes done by refreshes that saw each anchor

planVars == <<sub, lastPlan, lastAnchor, sync, changes, expiries, wiped>>
vars == <<now, meta, usage, charge, faults, sub, lastPlan, lastAnchor, sync,
          changes, expiries, wiped>>

--------------------------------------------------------------------------------
None == "none"

\* What the user is billed for: the subscription unless support overrides it.
Snapshot ==
    IF sub.override # None
    THEN [plan |-> sub.override, anchor |-> 0]
    ELSE [plan |-> sub.plan, anchor |-> sub.anchor]

Subscription == [plan: Plans, anchor: Times, override: Plans \cup {None}]

PCs == {"idle", "getPlan", "getAnchor",
        "upFlag", "upLoad", "upZero",                 \* FREE -> PRO
        "reAnchor", "reFlag", "reLoad", "reZero",     \* renewal
        "caps", "plan", "flag", "anchor",             \* plan and caps, always
        "cachePlan", "cacheAnchor"}

Sync == [pc: PCs, plan: Plans, anchor: Times, last: Plans \cup {None},
         renew: BOOLEAN, period: PeriodIds]

IdleSync == [pc |-> "idle", plan |-> "FREE", anchor |-> 0, last |-> None,
             renew |-> FALSE, period |-> Infinite]

SyncInit ==
    /\ now = 1
    /\ meta = NoMeta
    /\ usage = [p \in PeriodIds |-> NoUsage]
    /\ charge = [c \in Chargers |-> IdleCharge]
    /\ faults = 0
    /\ sub \in {[plan |-> "FREE", anchor |-> 0, override |-> None],
                [plan |-> "PRO", anchor |-> 1, override |-> None]}
    /\ lastPlan = None
    /\ lastAnchor = 0
    /\ sync = [s \in Syncers |-> IdleSync]
    /\ changes = 0
    /\ expiries = 0
    /\ wiped = [a \in Times |-> 0]

--------------------------------------------------------------------------------
(* The subscription, changed by Stripe's webhooks and by support. *)

ChangeSub(new) ==
    /\ changes < MaxChanges
    /\ changes' = changes + 1
    /\ sub' = new
    /\ UNCHANGED <<quotaVars, lastPlan, lastAnchor, sync, expiries, wiped>>

\* A new subscription starts a period; one whose payment recovers keeps its own.
Subscribe ==
    \E start \in {now, sub.anchor} \ {0} :
        /\ sub.plan = "FREE"
        /\ ChangeSub([sub EXCEPT !.plan = "PRO", !.anchor = start])

\* A cancelled subscription stays the newest document, with its period start.
Cancel ==
    /\ sub.plan = "PRO"
    /\ ChangeSub([sub EXCEPT !.plan = "FREE"])

Renew ==
    /\ sub.plan = "PRO"
    /\ now >= sub.anchor + Window
    /\ ChangeSub([sub EXCEPT !.anchor = @ + Window])

Override ==
    \E o \in Plans \cup {None} :
        /\ o # sub.override
        /\ ChangeSub([sub EXCEPT !.override = o])

\* The time to live of a cached key ends.
ExpireCache ==
    /\ expiries < MaxExpiries
    /\ expiries' = expiries + 1
    /\ \/ lastPlan' = None /\ lastPlan # None /\ UNCHANGED lastAnchor
       \/ lastAnchor' = 0 /\ lastAnchor # 0 /\ UNCHANGED lastPlan
    /\ UNCHANGED <<quotaVars, sub, sync, changes, wiped>>

--------------------------------------------------------------------------------
(* One refresh. *)

Goto(s, pc) == sync' = [sync EXCEPT ![s].pc = pc]
Finish(s) == sync' = [sync EXCEPT ![s] = IdleSync]
At(s, pc) == sync[s].pc = pc

\* The renewal block, or past it.
RenewalOrCaps(s) == IF sync[s].renew THEN "reAnchor" ELSE "caps"

NoQuotaChange == UNCHANGED <<now, charge, faults>>
NoPlanChange == UNCHANGED <<sub, lastPlan, lastAnchor, changes, expiries, wiped>>
OnlySync == UNCHANGED <<meta, usage>> /\ NoQuotaChange /\ NoPlanChange

\* _fetch_sub_snapshot; on a Firestore error the user counts as FREE.
FetchSnapshot(s) ==
    /\ At(s, "idle")
    /\ sync' = [sync EXCEPT ![s] =
                  [IdleSync EXCEPT !.pc = "getPlan", !.plan = Snapshot.plan,
                                   !.anchor = Snapshot.anchor]]
    /\ OnlySync

FetchSnapshotFails(s) ==
    /\ At(s, "idle")
    /\ faults < MaxFaults
    /\ faults' = faults + 1
    /\ sync' = [sync EXCEPT ![s] = [IdleSync EXCEPT !.pc = "getPlan"]]
    /\ UNCHANGED <<now, meta, usage, charge>>
    /\ NoPlanChange

ReadLastPlan(s) ==
    /\ At(s, "getPlan")
    /\ sync' = [sync EXCEPT ![s].pc = "getAnchor", ![s].last = lastPlan]
    /\ OnlySync

\* Decides both transitions: the upgrade and the renewal.
ReadLastAnchor(s) ==
    LET renew == /\ sync[s].plan = "PRO"
                 /\ sync[s].anchor > 0
                 /\ sync[s].anchor # lastAnchor
        upgrade == sync[s].last = "FREE" /\ sync[s].plan = "PRO"
    IN  /\ At(s, "getAnchor")
        /\ sync' = [sync EXCEPT
                      ![s].renew = renew,
                      ![s].pc = IF upgrade THEN "upFlag"
                                ELSE IF renew THEN "reAnchor" ELSE "caps"]
        /\ OnlySync

\* HSET of some fields of the meta hash, which creates the hash if need be.
PutMeta(s, m, pc) ==
    /\ meta' = [m EXCEPT !.present = TRUE]
    /\ Goto(s, pc)
    /\ UNCHANGED usage /\ NoQuotaChange /\ NoPlanChange

UpgradeFlag(s) ==
    /\ At(s, "upFlag")
    /\ PutMeta(s, [meta EXCEPT !.noRefresh = FALSE], "upLoad")

RenewalAnchor(s) ==
    /\ At(s, "reAnchor")
    /\ PutMeta(s, [meta EXCEPT !.anchor = sync[s].anchor], "reFlag")

\* Mutation of RenewalFlag: the reset is left out.
RenewalFlagOnly(s) ==
    /\ At(s, "reFlag")
    /\ PutMeta(s, [meta EXCEPT !.noRefresh = FALSE], "caps")

RenewalFlag(s) ==
    /\ At(s, "reFlag")
    /\ PutMeta(s, [meta EXCEPT !.noRefresh = FALSE], "reLoad")

\* reset_usage_current_window reads the hash (present since the HSETs above)
\* and returns at once for a period that never refreshes.
ResetLoad(s, zero, out) ==
    /\ sync' = [sync EXCEPT
                  ![s].period = PeriodOf(meta, now),
                  ![s].pc = IF PeriodOf(meta, now) = Infinite THEN out ELSE zero]
    /\ OnlySync

ResetZero(s, out) ==
    /\ usage' = [usage EXCEPT ![sync[s].period] =
                   [NoUsage EXCEPT !.ingest = 0, !.wfSeen = TRUE]]
    /\ wiped' = [wiped EXCEPT ![sync[s].anchor] = IF @ = 2 THEN 2 ELSE @ + 1]
    /\ Goto(s, out)
    /\ UNCHANGED <<meta, sub, lastPlan, lastAnchor, changes, expiries>>
    /\ NoQuotaChange

UpgradeLoad(s) == At(s, "upLoad") /\ ResetLoad(s, "upZero", RenewalOrCaps(s))
UpgradeZero(s) == At(s, "upZero") /\ ResetZero(s, RenewalOrCaps(s))
RenewalLoad(s) == At(s, "reLoad") /\ ResetLoad(s, "reZero", "caps")
RenewalZero(s) == At(s, "reZero") /\ ResetZero(s, "caps")

CapOf(plan) == IF plan = "PRO" THEN CapPro ELSE CapFree

SetCaps(s) ==
    /\ At(s, "caps")
    /\ PutMeta(s, [meta EXCEPT !.cap = CapOf(sync[s].plan)], "plan")

SetPlan(s) ==
    /\ At(s, "plan")
    /\ PutMeta(s, [meta EXCEPT !.plan = sync[s].plan,
                               !.noRefresh = sync[s].plan = "FREE"],
               IF sync[s].plan = "PRO" THEN "flag" ELSE "cachePlan")

\* Mutation of ClearFlag: the anchor is written by renewals only.
ClearFlagOnly(s) ==
    /\ At(s, "flag")
    /\ PutMeta(s, [meta EXCEPT !.noRefresh = FALSE], "cachePlan")

ClearFlag(s) ==
    /\ At(s, "flag")
    /\ PutMeta(s, [meta EXCEPT !.noRefresh = FALSE],
               IF sync[s].anchor > 0 /\ ~sync[s].renew THEN "anchor" ELSE "cachePlan")

SetAnchor(s) ==
    /\ At(s, "anchor")
    /\ PutMeta(s, [meta EXCEPT !.anchor = sync[s].anchor], "cachePlan")

CachePlan(s) ==
    /\ At(s, "cachePlan")
    /\ lastPlan' = sync[s].plan
    /\ IF sync[s].anchor > 0 THEN Goto(s, "cacheAnchor") ELSE Finish(s)
    /\ UNCHANGED <<meta, usage, sub, lastAnchor, changes, expiries, wiped>>
    /\ NoQuotaChange

CacheAnchor(s) ==
    /\ At(s, "cacheAnchor")
    /\ lastAnchor' = sync[s].anchor
    /\ Finish(s)
    /\ UNCHANGED <<meta, usage, sub, lastPlan, changes, expiries, wiped>>
    /\ NoQuotaChange

\* A Redis command raises: the rest of its block is skipped.
RedisError(s) ==
    /\ faults < MaxFaults
    /\ faults' = faults + 1
    /\ \/ /\ sync[s].pc \in {"upFlag", "upLoad", "upZero"}
          /\ Goto(s, RenewalOrCaps(s))
       \/ /\ sync[s].pc \in {"reAnchor", "reFlag", "reLoad", "reZero"}
          /\ Goto(s, "caps")
       \/ /\ sync[s].pc \in {"caps", "plan", "flag", "anchor"}
          /\ Goto(s, "cachePlan")
    /\ UNCHANGED <<now, meta, usage, charge>>
    /\ NoPlanChange

\* The request dies: an error in the reads or the last block, or a restart.
Die(s) ==
    /\ sync[s].pc # "idle"
    /\ faults < MaxFaults
    /\ faults' = faults + 1
    /\ Finish(s)
    /\ UNCHANGED <<now, meta, usage, charge>>
    /\ NoPlanChange

--------------------------------------------------------------------------------
\* The steps of a refresh when Firestore and Redis answer.
SyncStep(s) ==
    \/ FetchSnapshot(s)
    \/ ReadLastPlan(s)
    \/ ReadLastAnchor(s)
    \/ UpgradeFlag(s)
    \/ UpgradeLoad(s)
    \/ UpgradeZero(s)
    \/ RenewalAnchor(s)
    \/ RenewalFlag(s)
    \/ RenewalLoad(s)
    \/ RenewalZero(s)
    \/ SetCaps(s)
    \/ SetPlan(s)
    \/ ClearFlag(s)
    \/ SetAnchor(s)
    \/ CachePlan(s)
    \/ CacheAnchor(s)

SyncFault(s) == FetchSnapshotFails(s) \/ RedisError(s) \/ Die(s)

Environment ==
    \/ Subscribe
    \/ Cancel
    \/ Renew
    \/ Override
    \/ ExpireCache

QuotaStep == Tick \/ \E c \in Chargers : ChargeStep(c)

SyncNext ==
    \/ Environment
    \/ \E s \in Syncers : SyncStep(s) \/ SyncFault(s)
    \/ QuotaStep /\ UNCHANGED planVars

SyncSpec == SyncInit /\ [][SyncNext]_vars

\* A user who keeps using the application keeps refreshing: every chat
\* message, upload and limits page starts with one, and the event loop runs
\* each to its end.
Polling == \A s \in Syncers : WF_vars(SyncStep(s))

PollingSpec == SyncSpec /\ Polling

--------------------------------------------------------------------------------
\* The values each variable takes.
PlanTypeOK ==
    /\ TypeOK
    /\ sub \in Subscription
    /\ lastPlan \in Plans \cup {None}
    /\ lastAnchor \in Times
    /\ sync \in [Syncers -> Sync]
    /\ changes \in 0..MaxChanges
    /\ expiries \in 0..MaxExpiries
    /\ wiped \in [Times -> 0..2]

\* The free quota never comes back, whatever order upgrades, downgrades and
\* resets of concurrent requests run in ("Free = no refresh").
FreeNeverRefreshes ==
    [][\A k \in Counters :
          usage'[Infinite].count[k] >= usage[Infinite].count[k]]_vars

\* The quota in Redis is the one the user is billed for.
InSync ==
    /\ meta.present
    /\ meta.plan = Snapshot.plan
    /\ meta.cap = CapOf(Snapshot.plan)
    /\ meta.noRefresh = (Snapshot.plan = "FREE")
    /\ Snapshot.anchor > 0 /\ Snapshot.plan = "PRO" => meta.anchor = Snapshot.anchor

\* Once the subscription and the faults are over, refreshes bring the hash in
\* line for good, however torn the interleaved refreshes before had left it.
EventuallyInSync == <>[]InSync

\* A renewal seen by a refresh of a PRO user has wiped the usage of the new
\* period exactly once by the time the caps are written, unless a command failed
\* or the cached anchor expired.
RenewalWipesOnce ==
    \A s \in Syncers :
        /\ At(s, "caps") /\ sync[s].renew /\ meta.plan = "PRO"
        /\ faults = 0 /\ expiries = 0
        => wiped[sync[s].anchor] = 1

\* "Limits are enforced per user per billing period": the usage of a period is
\* wiped at most once, when the period starts.
WipedOncePerPeriod == \A a \in Times \ {0} : wiped[a] <= 1
================================================================================
