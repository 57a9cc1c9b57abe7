------------------------------- MODULE RateLimit -------------------------------
(***************************************************************************)
(* The usage counters of core/rate_limit.py for one user.  Redis keeps the *)
(* hash rl:{uid}:meta (plan, caps, anchor, flag) and one usage hash per    *)
(* billing period, rl:{uid}:usage:{period}.  Every await between two Redis *)
(* commands is a point where another request runs, so each command is one  *)
(* action; the Lua scripts are the only multi-command atomic steps.        *)
(*                                                                         *)
(* The six caps of the hash are always written together, so one number     *)
(* stands for them.  Counters are the fields LUA_CHECK_INCR guards;        *)
(* uploads have a script of their own over two fields.                     *)
(***************************************************************************)
EXTENDS Integers, FiniteSets, FiniteSetsExt

CONSTANTS
    Chargers,      \* concurrent requests that charge the quota
    Ops,           \* what requests do: charge something or read a snapshot
    Amounts,       \* sizes of a charge
    CapDefault,    \* cap written by _load_meta for a user never seen
    CapFree,
    CapPro,
    Window,        \* length of a billing window, in clock ticks
    MaxNow,        \* bound: the clock stops here
    MaxFaults      \* bound: Redis errors and crashed requests

ASSUME QuotaAssumption ==
    /\ Ops \subseteq {"messages", "workflow", "upload", "snapshot"}
    /\ Amounts \subseteq Nat
    /\ CapDefault \in Nat /\ CapFree \in Nat /\ CapPro \in Nat
    /\ Window \in Nat \ {0}
    /\ MaxNow \in Nat \ {0}
    /\ MaxFaults \in Nat

\* A process serves finitely many requests at once, and some charge is the largest.
ASSUME SizesAssumption ==
    /\ IsFiniteSet(Chargers) /\ Chargers # {}
    /\ \E largest \in Amounts : \A n \in Amounts : n <= largest

VARIABLES
    now,      \* the server clock
    meta,     \* rl:{uid}:meta, absent fields at the value readers default to
    usage,    \* rl:{uid}:usage:{period}, for every period
    charge,   \* program counter and locals of each charging request
    faults    \* number of faults so far

quotaVars == <<now, meta, usage, charge, faults>>

--------------------------------------------------------------------------------
Plans == {"FREE", "PRO"}
Caps == {CapDefault, CapFree, CapPro}

\* The fields LUA_CHECK_INCR guards; workflow charges also record a breakdown.
Counters == Ops \cap {"messages", "workflow"}

\* The period id "infinite" of users whose quota never refreshes.
Infinite == -1
\* A window index is at most the clock.
PeriodIds == {Infinite} \cup 0..MaxNow
Times == 0..MaxNow

\* A usage field that is not in the hash, where readers tell it from zero.
Absent == -1

Meta == [present: BOOLEAN, plan: Plans, cap: Caps, anchor: Times, noRefresh: BOOLEAN]

Usage == [count: [Counters -> Nat],      \* messages, workflow_tokens, ...
          unified: Nat,                  \* file_processing_tokens
          ingest: Nat \cup {Absent},     \* upload_ingest_tokens
          wfSeen: BOOLEAN]               \* some workflow_*_tokens field exists

Charge == [pc: {"idle", "load", "default", "eval", "breakdown"},
           op: Ops \cup {"none"}, amount: Amounts \cup {0}, cap: Caps, period: PeriodIds]

NoMeta == [present |-> FALSE, plan |-> "FREE", cap |-> CapDefault,
           anchor |-> 0, noRefresh |-> FALSE]

DefaultMeta == [NoMeta EXCEPT !.present = TRUE, !.noRefresh = TRUE]

NoUsage == [count |-> [k \in Counters |-> 0], unified |-> 0,
            ingest |-> Absent, wfSeen |-> FALSE]

IdleCharge == [pc |-> "idle", op |-> "none", amount |-> 0,
               cap |-> CapDefault, period |-> Infinite]

\* The billing window a charge made at time t falls into.
PeriodOf(m, t) ==
    IF m.noRefresh \/ m.plan = "FREE" THEN Infinite
    ELSE IF m.anchor = 0 \/ t < m.anchor THEN 0
    ELSE (t - m.anchor) \div Window

\* What the upload script, and the snapshot shown to the user, count as used.
FileProcessingUsed(u) ==
    IF u.ingest # Absent THEN u.ingest
    ELSE IF u.wfSeen THEN 0
    ELSE u.unified

--------------------------------------------------------------------------------
\* The hashes a user may have: none, the defaults, or those of a finished sync.
SyncedMeta(plan, anchor) ==
    [present |-> TRUE, plan |-> plan, anchor |-> anchor,
     cap |-> IF plan = "PRO" THEN CapPro ELSE CapFree,
     noRefresh |-> plan = "FREE"]

Init ==
    /\ now = 1
    /\ meta \in {NoMeta, DefaultMeta, SyncedMeta("FREE", 0), SyncedMeta("PRO", 0),
                 SyncedMeta("PRO", 1)}
    /\ usage = [p \in PeriodIds |-> NoUsage]
    /\ charge = [c \in Chargers |-> IdleCharge]
    /\ faults = 0

Tick ==
    /\ now < MaxNow
    /\ now' = now + 1
    /\ UNCHANGED <<meta, usage, charge, faults>>

SetCharge(c, r) == charge' = [charge EXCEPT ![c] = r]

\* A request starts to charge n units of op (or to read a snapshot).
Begin(c, op, n) ==
    /\ charge[c].pc = "idle"
    /\ n \in IF op = "snapshot" THEN {0} ELSE Amounts
    /\ SetCharge(c, [IdleCharge EXCEPT !.pc = "load", !.op = op, !.amount = n])
    /\ UNCHANGED <<now, meta, usage, faults>>

\* The caller goes on with the cap and the period of the hash it has in hand;
\* a snapshot has nothing left to write.
Loaded(c, m) ==
    IF charge[c].op = "snapshot"
    THEN SetCharge(c, IdleCharge)
    ELSE SetCharge(c, [charge[c] EXCEPT !.pc = "eval", !.cap = m.cap,
                                        !.period = PeriodOf(m, now)])

\* HGETALL of the meta hash.
LoadMeta(c) ==
    /\ charge[c].pc = "load"
    /\ IF meta.present
       THEN Loaded(c, meta)
       ELSE SetCharge(c, [charge[c] EXCEPT !.pc = "default"])
    /\ UNCHANGED <<now, meta, usage, faults>>

\* HSET of all the defaults by a request that saw no hash: what another
\* request wrote since is overwritten.
WriteDefault(c) ==
    /\ charge[c].pc = "default"
    /\ meta' = DefaultMeta
    /\ Loaded(c, DefaultMeta)
    /\ UNCHANGED <<now, usage, faults>>

\* An admitted charge goes on to record its breakdown, if it has one.
HasBreakdown(c) == charge[c].op \in {"upload", "workflow"} /\ charge[c].amount > 0
Admitted(c) ==
    IF HasBreakdown(c)
    THEN SetCharge(c, [charge[c] EXCEPT !.pc = "breakdown"])
    ELSE SetCharge(c, IdleCharge)

\* Mutations of Fits: only what is used already is compared with the cap.
FitsBelow(c, used) == used < charge[c].cap
Fits(c, used) == used + charge[c].amount <= charge[c].cap

\* LUA_CHECK_INCR: compare and increment in one script.
CheckAndAdd(c) ==
    LET op == charge[c].op
        p == charge[c].period
    IN  /\ charge[c].pc = "eval"
        /\ op \in Counters
        /\ \/ /\ Fits(c, usage[p].count[op])
              /\ usage' = [usage EXCEPT ![p].count[op] = @ + charge[c].amount]
              /\ Admitted(c)
           \/ /\ ~Fits(c, usage[p].count[op])
              /\ SetCharge(c, IdleCharge)
              /\ UNCHANGED usage
        /\ UNCHANGED <<now, meta, faults>>

\* LUA_CHECK_INCR_FILE_PROCESSING: the field compared with the cap is
\* upload_ingest_tokens once it exists, the field incremented is
\* file_processing_tokens.
CheckAndAddFileProcessing(c) ==
    LET p == charge[c].period
    IN  /\ charge[c].pc = "eval"
        /\ charge[c].op = "upload"
        /\ \/ /\ Fits(c, FileProcessingUsed(usage[p]))
              /\ usage' = [usage EXCEPT ![p].unified = @ + charge[c].amount]
              /\ Admitted(c)
           \/ /\ ~Fits(c, FileProcessingUsed(usage[p]))
              /\ SetCharge(c, IdleCharge)
              /\ UNCHANGED usage
        /\ UNCHANGED <<now, meta, faults>>

\* The script call raises: the charge is admitted without being counted.
FailOpen(c) ==
    /\ charge[c].pc = "eval"
    /\ faults < MaxFaults
    /\ faults' = faults + 1
    /\ Admitted(c)
    /\ UNCHANGED <<now, meta, usage>>

\* Mutation of RecordBreakdown: HSET for HINCRBY, the field keeps the last upload.
RecordLastUpload(c) ==
    LET p == charge[c].period
    IN  /\ charge[c].pc = "breakdown"
        /\ usage' = IF charge[c].op = "upload"
                    THEN [usage EXCEPT ![p].ingest = charge[c].amount]
                    ELSE [usage EXCEPT ![p].wfSeen = TRUE]
        /\ SetCharge(c, IdleCharge)
        /\ UNCHANGED <<now, meta, faults>>

\* HINCRBY of the breakdown fields, after and apart from the script.
RecordBreakdown(c) ==
    LET p == charge[c].period
        counted == IF usage[p].ingest = Absent THEN 0 ELSE usage[p].ingest
    IN  /\ charge[c].pc = "breakdown"
        /\ usage' = IF charge[c].op = "upload"
                    THEN [usage EXCEPT ![p].ingest = counted + charge[c].amount]
                    ELSE [usage EXCEPT ![p].wfSeen = TRUE]
        /\ SetCharge(c, IdleCharge)
        /\ UNCHANGED <<now, meta, faults>>

\* A Redis error while loading (the caller fails) or while recording the
\* breakdown (swallowed), or the request dies between two commands.
Abandon(c) ==
    /\ charge[c].pc # "idle"
    /\ faults < MaxFaults
    /\ faults' = faults + 1
    /\ SetCharge(c, IdleCharge)
    /\ UNCHANGED <<now, meta, usage>>

ChargeStep(c) ==
    \/ \E op \in Ops, n \in Amounts \cup {0} : Begin(c, op, n)
    \/ LoadMeta(c)
    \/ WriteDefault(c)
    \/ CheckAndAdd(c)
    \/ CheckAndAddFileProcessing(c)
    \/ FailOpen(c)
    \/ RecordBreakdown(c)
    \/ Abandon(c)

Next == Tick \/ \E c \in Chargers : ChargeStep(c)

Spec == Init /\ [][Next]_quotaVars

--------------------------------------------------------------------------------
\* The values each variable takes.
TypeOK ==
    /\ now \in Times
    /\ meta \in Meta
    /\ usage \in [PeriodIds -> Usage]
    /\ charge \in [Chargers -> Charge]
    /\ faults \in 0..MaxFaults

LargestCap == CHOOSE x \in Caps : \A y \in Caps : y <= x
LargestAmount == CHOOSE x \in Amounts : \A y \in Amounts : y <= x

\* Requests that find no hash overwrite each other's defaults, and every request compares with a cap
\* it read earlier: all the same, no plain counter of any period passes the account's own cap while
\* no refresh changes it.  The check and the increment of LUA_CHECK_INCR are one step.
CountersWithinCap ==
    \A p \in PeriodIds, k \in Counters : usage[p].count[k] <= meta.cap

\* What a step may do to a plain counter, also when a refresh changes the hash in between: the cap
\* and the period a request goes on with are those of the hash as it then is, and a counter rises
\* only by a request of its own period, to no more than the cap that request has read.
ChargesAsRead ==
    /\ \A c \in Chargers :
         /\ charge[c].pc # "eval" /\ charge'[c].pc = "eval" =>
              charge'[c].cap = meta'.cap /\ charge'[c].period = PeriodOf(meta', now)
         /\ charge[c].pc = "eval" /\ charge'[c].pc = "eval" => charge'[c] = charge[c]
    /\ \A p \in PeriodIds, k \in Counters :
         usage'[p].count[k] > usage[p].count[k] =>
           \E c \in Chargers : /\ charge[c].pc = "eval" /\ charge[c].op = k /\ charge[c].period = p
                              /\ usage'[p].count[k] <= charge[c].cap

Uploading(p) ==
    {c \in Chargers : /\ charge[c].pc = "breakdown"
                      /\ charge[c].op = "upload"
                      /\ charge[c].period = p}

\* Tokens of period p admitted by the script and not yet in the breakdown field.
Pending(p) == SumFunctionOnSet([c \in Chargers |-> charge[c].amount], Uploading(p))

\* As long as nothing fails, every admitted upload token is in the breakdown
\* field or on its way there: the two fields of the hash never drift apart.
UploadAccounting ==
    faults = 0 =>
        \A p \in PeriodIds :
            LET recorded == IF usage[p].ingest = Absent THEN 0 ELSE usage[p].ingest
            IN  usage[p].unified = recorded + Pending(p)

\* The upload script compares one field and increments another, so concurrent
\* uploads overshoot the cap, but by no more than one upload per other request
\* in flight and one per fault.
UploadOvershootBounded ==
    \A p \in PeriodIds :
        usage[p].unified <= LargestCap
            + (Cardinality(Chargers) - 1 + faults) * LargestAmount

\* What the counting of uploads comes to, although the script compares a field that a later
\* command writes: the two fields agree when nothing fails, and the overshoot is bounded.
UploadsCounted == UploadAccounting /\ UploadOvershootBounded
================================================================================
