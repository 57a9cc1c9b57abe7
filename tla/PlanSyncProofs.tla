----------------------------- MODULE PlanSyncProofs -----------------------------
(***************************************************************************)
(* Proofs about RateLimit and PlanSync, for every set of requests, every   *)
(* cap, every window length and every bound.                               *)
(***************************************************************************)
EXTENDS PlanSync, FiniteSetTheorems, WellFoundedInduction, NaturalsInduction, TLAPS

\* The largest of the three caps is a cap no other exceeds.
LEMMA LargestCapBounds ==
    /\ LargestCap \in Nat
    /\ \A x \in Caps : x <= LargestCap
<1>1. Caps \subseteq Nat
  BY QuotaAssumption DEF Caps
<1>2. \E x \in Caps : \A y \in Caps : y <= x
  BY QuotaAssumption DEF Caps
<1> QED
  BY <1>1, <1>2 DEF LargestCap

\* The window a charge falls into is one of the usage hashes.
LEMMA PeriodOfType ==
    ASSUME NEW m \in Meta, NEW t \in Times
    PROVE  PeriodOf(m, t) \in PeriodIds
<1> DEFINE x == t - m.anchor
           q == x \div Window
<1>1. CASE m.noRefresh \/ m.plan = "FREE"
  BY <1>1 DEF PeriodOf, PeriodIds
<1>2. CASE ~(m.noRefresh \/ m.plan = "FREE") /\ (m.anchor = 0 \/ t < m.anchor)
  BY <1>2, QuotaAssumption DEF PeriodOf, PeriodIds, Infinite
<1>3. CASE ~(m.noRefresh \/ m.plan = "FREE") /\ ~(m.anchor = 0 \/ t < m.anchor)
  <2>1. x \in 0..MaxNow
    BY <1>3, QuotaAssumption DEF Times, Meta
  <2>2. q \in 0..MaxNow
    BY <2>1, QuotaAssumption
  <2> QED
    BY <1>3, <2>2 DEF PeriodOf, PeriodIds
<1> QED
  BY <1>1, <1>2, <1>3

--------------------------------------------------------------------------------
(* The charging requests, alone or under any sequence of refreshes. *)

\* Caps are kept abstract in the proofs below: these are the facts they need.
LEMMA CapFacts ==
    /\ CapDefault \in Caps /\ CapFree \in Caps /\ CapPro \in Caps
    /\ Caps \subseteq Nat
    /\ Infinite \in PeriodIds
BY QuotaAssumption DEF Caps, PeriodIds

\* A charge, and the zero charge of a snapshot, is a natural number.
LEMMA AmountFacts == Amounts \cup {0} \subseteq Nat
BY QuotaAssumption

\* The hashes a user may start with are well formed.
LEMMA MetaTypes ==
    /\ NoMeta \in Meta
    /\ DefaultMeta \in Meta
    /\ \A plan \in Plans, a \in Times : SyncedMeta(plan, a) \in Meta
<1>1. NoMeta \in Meta
  BY CapFacts, QuotaAssumption DEF NoMeta, Meta, Plans, Times
<1>2. DefaultMeta \in Meta
  BY <1>1 DEF DefaultMeta, Meta
<1>3. ASSUME NEW plan \in Plans, NEW a \in Times
      PROVE  SyncedMeta(plan, a) \in Meta
  BY CapFacts DEF SyncedMeta, Meta
<1> QED
  BY <1>1, <1>2, <1>3

\* A request at rest is well formed.
LEMMA IdleChargeType == IdleCharge \in Charge
BY CapFacts DEF IdleCharge, Charge

\* Loading a hash in hand keeps the type of the request's record.
LEMMA LoadedType ==
    ASSUME TypeOK, NEW c \in Chargers, NEW m \in Meta, Loaded(c, m)
    PROVE  charge' \in [Chargers -> Charge]
<1> DEFINE r == [charge[c] EXCEPT !.pc = "eval", !.cap = m.cap,
                                  !.period = PeriodOf(m, now)]
<1>1. charge \in [Chargers -> Charge] /\ charge[c] \in Charge
  BY DEF TypeOK
<1>2. PeriodOf(m, now) \in PeriodIds
  BY PeriodOfType DEF TypeOK
<1>3. m.cap \in Caps
  BY DEF Meta
<1>4. r \in Charge
  BY <1>1, <1>2, <1>3 DEF Charge
<1>5. charge' = [charge EXCEPT ![c] = IdleCharge] \/ charge' = [charge EXCEPT ![c] = r]
  BY DEF Loaded, SetCharge
<1> QED
  BY <1>1, <1>4, <1>5, IdleChargeType

\* An admitted charge keeps the type of the request's record.
LEMMA AdmittedType ==
    ASSUME TypeOK, NEW c \in Chargers, Admitted(c)
    PROVE  charge' \in [Chargers -> Charge]
<1>1. charge \in [Chargers -> Charge] /\ charge[c] \in Charge
  BY DEF TypeOK
<1>2. [charge[c] EXCEPT !.pc = "breakdown"] \in Charge
  BY <1>1 DEF Charge
<1> QED
  BY <1>1, <1>2, IdleChargeType DEF Admitted, SetCharge

\* No step of a charging request leaves the types.
LEMMA ChargeStepType ==
    ASSUME TypeOK, NEW c \in Chargers, ChargeStep(c)
    PROVE  TypeOK'
<1> DEFINE r == charge[c]
           p == r.period
           u == usage[p]
<1>1. /\ charge \in [Chargers -> Charge] /\ r \in Charge
      /\ usage \in [PeriodIds -> Usage] /\ meta \in Meta
      /\ faults \in 0..MaxFaults /\ now \in Times
  BY DEF TypeOK
<1>2. p \in PeriodIds /\ u \in Usage /\ r.amount \in Nat
  <2>1. p \in PeriodIds /\ r.amount \in Amounts \cup {0}
    BY <1>1 DEF Charge
  <2>2. r.amount \in Nat
    BY <2>1, AmountFacts, Zenon
  <2> QED
    BY <1>1, <2>1, <2>2
<1>3. ASSUME NEW op \in Ops, NEW n \in Amounts \cup {0}, Begin(c, op, n)
      PROVE  TypeOK'
  <2>1. [IdleCharge EXCEPT !.pc = "load", !.op = op, !.amount = n] \in Charge
    BY IdleChargeType DEF Charge
  <2> QED
    BY <1>1, <1>3, <2>1 DEF Begin, SetCharge, TypeOK
<1>4. CASE LoadMeta(c)
  <2>1. charge' \in [Chargers -> Charge]
    <3>1. CASE meta.present
      BY <1>1, <1>4, <3>1, LoadedType DEF LoadMeta
    <3>2. CASE ~meta.present
      <4>1. [r EXCEPT !.pc = "default"] \in Charge
        BY <1>1 DEF Charge
      <4> QED
        BY <1>1, <1>4, <3>2, <4>1 DEF LoadMeta, SetCharge
    <3> QED
      BY <3>1, <3>2
  <2> QED
    BY <1>1, <1>4, <2>1 DEF LoadMeta, TypeOK
<1>5. CASE WriteDefault(c)
  <2>1. DefaultMeta \in Meta
    BY MetaTypes
  <2>2. charge' \in [Chargers -> Charge]
    BY <1>5, <2>1, LoadedType DEF WriteDefault
  <2> QED
    BY <1>1, <1>5, <2>1, <2>2 DEF WriteDefault, TypeOK
<1>6. CASE CheckAndAdd(c)
  <2>1. charge' \in [Chargers -> Charge]
    BY <1>1, <1>6, AdmittedType, IdleChargeType DEF CheckAndAdd, SetCharge
  <2>2. ASSUME NEW k \in Counters
        PROVE  [u EXCEPT !.count = [u.count EXCEPT ![k] = @ + r.amount]] \in Usage
    <3>1. [u.count EXCEPT ![k] = @ + r.amount] \in [Counters -> Nat]
      BY <1>2, <2>2 DEF Usage
    <3> QED
      BY <1>2, <3>1 DEF Usage
  <2>3. usage' \in [PeriodIds -> Usage]
    BY <1>1, <1>2, <1>6, <2>2 DEF CheckAndAdd
  <2> QED
    BY <1>1, <1>6, <2>1, <2>3 DEF CheckAndAdd, TypeOK
<1>7. CASE CheckAndAddFileProcessing(c)
  <2>1. charge' \in [Chargers -> Charge]
    BY <1>1, <1>7, AdmittedType, IdleChargeType DEF CheckAndAddFileProcessing, SetCharge
  <2>2. [u EXCEPT !.unified = @ + r.amount] \in Usage
    BY <1>2 DEF Usage
  <2>3. usage' \in [PeriodIds -> Usage]
    BY <1>1, <1>2, <1>7, <2>2 DEF CheckAndAddFileProcessing
  <2> QED
    BY <1>1, <1>7, <2>1, <2>3 DEF CheckAndAddFileProcessing, TypeOK
<1>8. CASE FailOpen(c)
  <2>1. faults' \in 0..MaxFaults
    BY <1>1, <1>8, QuotaAssumption DEF FailOpen
  <2> QED
    BY <1>1, <1>8, <2>1, AdmittedType DEF FailOpen, TypeOK
<1>9. CASE RecordBreakdown(c)
  <2> DEFINE counted == IF u.ingest = Absent THEN 0 ELSE u.ingest
  <2>1. counted \in Nat
    BY <1>2 DEF Usage, Absent
  <2>2. /\ [u EXCEPT !.ingest = counted + r.amount] \in Usage
        /\ [u EXCEPT !.wfSeen = TRUE] \in Usage
    <3>1. counted + r.amount \in Nat
      BY <1>2, <2>1
    <3>2. [u EXCEPT !.ingest = counted + r.amount] \in Usage
      <4> HIDE DEF counted, u
      <4> QED
        BY <1>2, <3>1 DEF Usage
    <3>3. [u EXCEPT !.wfSeen = TRUE] \in Usage
      BY <1>2 DEF Usage
    <3> QED
      BY <3>2, <3>3
  <2>3. usage' \in [PeriodIds -> Usage]
    BY <1>1, <1>2, <1>9, <2>2 DEF RecordBreakdown
  <2> QED
    BY <1>1, <1>9, <2>3, IdleChargeType DEF RecordBreakdown, SetCharge, TypeOK
<1>10. CASE Abandon(c)
  <2>1. faults' \in 0..MaxFaults
    BY <1>1, <1>10, QuotaAssumption DEF Abandon
  <2> QED
    BY <1>1, <1>10, <2>1, IdleChargeType DEF Abandon, SetCharge, TypeOK
<1> QED
  BY <1>3, <1>4, <1>5, <1>6, <1>7, <1>8, <1>9, <1>10 DEF ChargeStep

\* No plain counter of any period is past the largest cap there is.
WithinLargestCap == \A p \in PeriodIds, k \in Counters : usage[p].count[k] <= LargestCap

\* No step of a charging request takes a plain counter past the largest cap,
\* whichever hash the request loaded its cap from.
LEMMA ChargeStepWithinCap ==
    ASSUME TypeOK, WithinLargestCap, NEW c \in Chargers, ChargeStep(c)
    PROVE  WithinLargestCap'
<1> SUFFICES ASSUME NEW q \in PeriodIds, NEW k \in Counters
             PROVE  usage'[q].count[k] <= LargestCap
  BY DEF WithinLargestCap
<1> DEFINE r == charge[c]
           p == r.period
           u == usage[p]
<1>1. usage \in [PeriodIds -> Usage] /\ r \in Charge /\ p \in PeriodIds
  BY DEF TypeOK, Charge
<1>2. usage[q].count[k] <= LargestCap
  BY DEF WithinLargestCap
<1>3. CASE CheckAndAdd(c)
  <2>1. CASE usage' = [usage EXCEPT ![p].count[r.op] = @ + r.amount]
             /\ Fits(c, u.count[r.op])
    <3>1. r.op \in Counters
      BY <1>3 DEF CheckAndAdd
    <3>2. u \in Usage /\ u.count \in [Counters -> Nat]
      BY <1>1 DEF Usage
    <3>3. CASE q = p /\ k = r.op
      <4>0. usage'[p].count = [u.count EXCEPT ![r.op] = @ + r.amount]
        BY <1>1, <2>1, <3>2 DEF Usage
      <4>1. usage'[q].count[k] = u.count[k] + r.amount
        BY <3>1, <3>2, <3>3, <4>0
      <4>2. u.count[k] + r.amount <= r.cap
        BY <2>1, <3>3 DEF Fits
      <4>3. r.cap \in Nat /\ r.cap <= LargestCap
        BY <1>1, CapFacts, LargestCapBounds DEF Charge
      <4>4. u.count[k] \in Nat /\ r.amount \in Amounts \cup {0} /\ LargestCap \in Nat
        BY <1>1, <3>2, LargestCapBounds DEF Charge
      <4>5. r.amount \in Nat
        BY <4>4, AmountFacts, Zenon
      <4> HIDE DEF r, u, p
      <4> QED
        BY <4>1, <4>2, <4>3, <4>4, <4>5
    <3>4. CASE ~(q = p /\ k = r.op)
      <4>0. /\ q # p => usage'[q] = usage[q]
            /\ usage'[p].count = [u.count EXCEPT ![r.op] = @ + r.amount]
        BY <1>1, <2>1, <3>2 DEF Usage
      <4>1. usage'[q].count[k] = usage[q].count[k]
        BY <3>1, <3>2, <3>4, <4>0
      <4> QED
        BY <1>2, <4>1
    <3> QED
      BY <3>3, <3>4
  <2>2. CASE UNCHANGED usage
    BY <1>2, <2>2
  <2> QED
    BY <1>3, <2>1, <2>2 DEF CheckAndAdd
<1>4. CASE CheckAndAddFileProcessing(c)
  <2>1. usage'[q].count = usage[q].count
    BY <1>1, <1>4 DEF CheckAndAddFileProcessing, Usage
  <2> QED
    BY <1>2, <2>1
<1>5. CASE RecordBreakdown(c)
  <2>1. usage'[q].count = usage[q].count
    BY <1>1, <1>5 DEF RecordBreakdown, Usage
  <2> QED
    BY <1>2, <2>1
<1>6. CASE UNCHANGED usage
  BY <1>2, <1>6
<1> QED
  BY <1>3, <1>4, <1>5, <1>6
  DEF ChargeStep, Begin, LoadMeta, WriteDefault, FailOpen, Abandon

\* What LUA_CHECK_INCR does to a plain counter.
LEMMA CheckAdds ==
    ASSUME TypeOK, NEW c \in Chargers, CheckAndAdd(c), NEW q \in PeriodIds, NEW k \in Counters
    PROVE  \/ usage'[q].count[k] = usage[q].count[k]
           \/ /\ charge[c].pc = "eval" /\ charge[c].op = k /\ charge[c].period = q
              /\ usage'[q].count[k] <= charge[c].cap
<1> DEFINE r == charge[c]
           p == r.period
           u == usage[p]
<1>1. usage \in [PeriodIds -> Usage] /\ p \in PeriodIds /\ u \in Usage /\ u.count \in [Counters -> Nat]
  BY DEF TypeOK, Charge, Usage
<1>2. CASE usage' = [usage EXCEPT ![p].count[r.op] = @ + r.amount] /\ Fits(c, u.count[r.op])
  <2>1. r.op \in Counters /\ r.pc = "eval"
    BY DEF CheckAndAdd
  <2>2. /\ q # p => usage'[q] = usage[q]
        /\ usage'[p].count = [u.count EXCEPT ![r.op] = @ + r.amount]
    BY <1>1, <1>2 DEF Usage
  <2>3. CASE q = p /\ k = r.op
    <3>1. usage'[q].count[k] = u.count[k] + r.amount
      BY <1>1, <2>1, <2>2, <2>3
    <3>2. u.count[k] + r.amount <= r.cap
      BY <1>2, <2>3 DEF Fits
    <3> QED
      BY <2>1, <2>3, <3>1, <3>2
  <2>4. CASE ~(q = p /\ k = r.op)
    BY <2>1, <2>2, <2>4, <1>1
  <2> QED
    BY <2>3, <2>4
<1>3. CASE UNCHANGED usage
  BY <1>3
<1> QED
  BY <1>2, <1>3 DEF CheckAndAdd

\* The other commands of a charging request leave the plain counters alone.
LEMMA OthersSpare ==
    ASSUME TypeOK, NEW c \in Chargers, ChargeStep(c), ~CheckAndAdd(c),
           NEW q \in PeriodIds, NEW k \in Counters
    PROVE  usage'[q].count[k] = usage[q].count[k]
<1>1. usage \in [PeriodIds -> Usage] /\ charge[c].period \in PeriodIds
  BY DEF TypeOK, Charge
<1>2. CASE CheckAndAddFileProcessing(c)
  <2>1. usage'[q].count = usage[q].count
    BY <1>1, <1>2 DEF CheckAndAddFileProcessing, Usage
  <2> QED
    BY <2>1
<1>3. CASE RecordBreakdown(c)
  <2>1. PICK v : \/ usage' = [usage EXCEPT ![charge[c].period].ingest = v]
                 \/ usage' = [usage EXCEPT ![charge[c].period].wfSeen = TRUE]
    BY <1>3 DEF RecordBreakdown
  <2> QED
    BY <1>1, <2>1 DEF Usage
<1>4. CASE UNCHANGED usage
  BY <1>4
<1> QED
  BY <1>2, <1>3, <1>4 DEF ChargeStep, Begin, LoadMeta, WriteDefault, FailOpen, Abandon

\* What a request goes on with once it has a hash in hand.
LEMMA LoadedCap ==
    ASSUME TypeOK, NEW c \in Chargers, NEW m \in Meta, Loaded(c, m)
    PROVE  /\ \A d \in Chargers \ {c} : charge'[d] = charge[d]
           /\ charge'[c].pc \in {"idle", "eval"}
           /\ charge'[c].pc = "eval" => charge'[c].cap = m.cap /\ charge'[c].period = PeriodOf(m, now)
<1> DEFINE r == [charge[c] EXCEPT !.pc = "eval", !.cap = m.cap, !.period = PeriodOf(m, now)]
<1>1. charge \in [Chargers -> Charge] /\ charge[c] \in Charge
  BY DEF TypeOK
<1>2. r.pc = "eval" /\ r.cap = m.cap /\ r.period = PeriodOf(m, now) /\ IdleCharge.pc = "idle"
  BY <1>1 DEF Charge, IdleCharge
<1>3. charge' = [charge EXCEPT ![c] = IdleCharge] \/ charge' = [charge EXCEPT ![c] = r]
  BY DEF Loaded, SetCharge
<1> HIDE DEF r
<1>4. charge'[c] \in {IdleCharge, r} /\ \A d \in Chargers \ {c} : charge'[d] = charge[d]
  BY <1>1, <1>3
<1> QED
  BY <1>2, <1>4

\* The hash is either still missing or written, a request that is about to charge holds its cap, and
\* one that is about to write the defaults will not change it.
OwnCapHeld ==
    /\ meta.present \/ meta = NoMeta
    /\ \A c \in Chargers : /\ charge[c].pc = "eval" => charge[c].cap = meta.cap
                           /\ charge[c].pc = "default" => meta.cap = CapDefault

LEMMA OwnCapStep ==
    ASSUME TypeOK, OwnCapHeld, NEW c \in Chargers, ChargeStep(c)
    PROVE  OwnCapHeld' /\ meta'.cap = meta.cap
<1>1. charge \in [Chargers -> Charge] /\ charge[c] \in Charge /\ meta \in Meta
  BY DEF TypeOK
<1>2. CASE LoadMeta(c)
  <2>1. UNCHANGED meta
    BY <1>2 DEF LoadMeta
  <2>2. CASE meta.present
    BY <1>1, <1>2, <2>1, <2>2, LoadedCap DEF LoadMeta, OwnCapHeld
  <2>3. CASE ~meta.present
    <3>1. meta.cap = CapDefault
      BY <2>3 DEF OwnCapHeld, NoMeta
    <3>2. charge' = [charge EXCEPT ![c] = [charge[c] EXCEPT !.pc = "default"]]
      BY <1>2, <2>3 DEF LoadMeta, SetCharge
    <3>3. charge'[c].pc = "default" /\ \A d \in Chargers \ {c} : charge'[d] = charge[d]
      BY <1>1, <3>2 DEF Charge
    <3> QED
      BY <2>1, <3>1, <3>3 DEF OwnCapHeld
  <2> QED
    BY <2>2, <2>3
<1>3. CASE WriteDefault(c)
  <2>1. meta' = DefaultMeta /\ DefaultMeta \in Meta /\ Loaded(c, DefaultMeta) /\ charge[c].pc = "default"
    BY <1>3, MetaTypes DEF WriteDefault
  <2>2. meta'.cap = CapDefault /\ meta.cap = CapDefault /\ meta'.present
    BY <2>1 DEF OwnCapHeld, DefaultMeta, NoMeta
  <2>3. /\ \A d \in Chargers \ {c} : charge'[d] = charge[d]
        /\ charge'[c].pc \in {"idle", "eval"}
        /\ charge'[c].pc = "eval" => charge'[c].cap = DefaultMeta.cap
    BY <2>1, LoadedCap
  <2> QED
    BY <2>1, <2>2, <2>3 DEF OwnCapHeld
<1>4. CASE ~LoadMeta(c) /\ ~WriteDefault(c)
  <2>1. UNCHANGED meta
    BY <1>4 DEF ChargeStep, Begin, CheckAndAdd, CheckAndAddFileProcessing, FailOpen, RecordBreakdown, Abandon
  <2>2. /\ \A d \in Chargers \ {c} : charge'[d] = charge[d]
        /\ charge'[c].pc \in {"idle", "load", "breakdown"}
    <3>1. IdleCharge.pc = "idle" /\ [charge[c] EXCEPT !.pc = "breakdown"].pc = "breakdown"
      BY <1>1 DEF IdleCharge, Charge
    <3>2. CASE \E op \in Ops, n \in Amounts \cup {0} : Begin(c, op, n)
      <4>1. PICK op \in Ops, n \in Amounts \cup {0} : Begin(c, op, n)
        BY <3>2
      <4> DEFINE r == [IdleCharge EXCEPT !.pc = "load", !.op = op, !.amount = n]
      <4>2. r.pc = "load"
        BY DEF IdleCharge
      <4>3. charge' = [charge EXCEPT ![c] = r]
        BY <4>1 DEF Begin, SetCharge
      <4> HIDE DEF r
      <4> QED
        BY <1>1, <4>2, <4>3
    <3>3. CASE Admitted(c)
      <4> DEFINE r == [charge[c] EXCEPT !.pc = "breakdown"]
      <4>1. charge' = [charge EXCEPT ![c] = r] \/ charge' = [charge EXCEPT ![c] = IdleCharge]
        BY <3>3 DEF Admitted, SetCharge
      <4>2. r.pc = "breakdown"
        BY <3>1
      <4> HIDE DEF r
      <4> QED
        BY <1>1, <3>1, <4>1, <4>2
    <3>4. CASE charge' = [charge EXCEPT ![c] = IdleCharge]
      BY <1>1, <3>1, <3>4
    <3>5. CASE CheckAndAdd(c) \/ CheckAndAddFileProcessing(c) \/ FailOpen(c)
      BY <3>3, <3>4, <3>5 DEF CheckAndAdd, CheckAndAddFileProcessing, FailOpen, SetCharge
    <3>6. CASE RecordBreakdown(c) \/ Abandon(c)
      BY <3>4, <3>6 DEF RecordBreakdown, Abandon, SetCharge
    <3> QED
      BY <1>4, <3>2, <3>5, <3>6 DEF ChargeStep
  <2> QED
    BY <2>1, <2>2 DEF OwnCapHeld
<1> QED
  BY <1>2, <1>3, <1>4

\* Without refreshes: the types hold, and no plain counter of any period ever passes the account's
\* own cap, whichever requests write the default hash over each other and however late they charge.
THEOREM QuotaInvariant == Spec => [](TypeOK /\ CountersWithinCap)
<1> DEFINE Inv == TypeOK /\ OwnCapHeld /\ CountersWithinCap
<1>1. Init => Inv
  <2> SUFFICES ASSUME Init PROVE Inv
    OBVIOUS
  <2>1. NoUsage \in Usage /\ \A k \in Counters : NoUsage.count[k] = 0
    BY DEF NoUsage, Usage, Absent
  <2>2. meta \in Meta /\ (meta.present \/ meta = NoMeta)
    <3>1. {0, 1} \subseteq Times /\ {"FREE", "PRO"} \subseteq Plans
      BY QuotaAssumption DEF Times, Plans
    <3>2. DefaultMeta.present /\ \A plan \in Plans, a \in Times : SyncedMeta(plan, a).present
      BY DEF DefaultMeta, NoMeta, SyncedMeta
    <3> QED
      BY <3>1, <3>2, MetaTypes DEF Init
  <2>3. now \in Times /\ faults \in 0..MaxFaults
    BY QuotaAssumption DEF Init, Times
  <2>4. TypeOK
    BY <2>1, <2>2, <2>3, IdleChargeType DEF Init, TypeOK
  <2>5. OwnCapHeld
    BY <2>2 DEF Init, OwnCapHeld, IdleCharge
  <2>6. CountersWithinCap
    <3>1. meta.cap \in Nat
      BY <2>2, CapFacts DEF Meta
    <3> QED
      BY <2>1, <3>1 DEF Init, CountersWithinCap
  <2> QED
    BY <2>4, <2>5, <2>6
<1>2. Inv /\ [Next]_quotaVars => Inv'
  <2> SUFFICES ASSUME Inv, [Next]_quotaVars
               PROVE  Inv'
    OBVIOUS
  <2>1. CASE Tick
    BY <2>1, QuotaAssumption DEF Tick, TypeOK, OwnCapHeld, CountersWithinCap, Times
  <2>2. ASSUME NEW c \in Chargers, ChargeStep(c)
        PROVE  Inv'
    <3>1. TypeOK' /\ OwnCapHeld' /\ meta'.cap = meta.cap
      BY <2>2, ChargeStepType, OwnCapStep
    <3>2. ASSUME NEW q \in PeriodIds, NEW k \in Counters
          PROVE  usage'[q].count[k] <= meta.cap
      <4>1. usage[q].count[k] <= meta.cap
        BY DEF CountersWithinCap
      <4>2. charge[c].pc = "eval" => charge[c].cap = meta.cap
        BY DEF OwnCapHeld
      <4> QED
        BY <2>2, <4>1, <4>2, CheckAdds, OthersSpare
    <3> QED
      BY <3>1, <3>2 DEF CountersWithinCap
  <2>3. CASE UNCHANGED quotaVars
    BY <2>3 DEF quotaVars, TypeOK, OwnCapHeld, CountersWithinCap
  <2> QED
    BY <2>1, <2>2, <2>3 DEF Next
<1> QED
  BY <1>1, <1>2, PTL DEF Spec

--------------------------------------------------------------------------------
(* Refreshes. *)

\* A refresh that is about to zero a usage hash has found a period that ends.
ZeroesPaidPeriod ==
    \A s \in Syncers :
        sync[s].pc \in {"upZero", "reZero"} => sync[s].period # Infinite

PlanInv == PlanTypeOK /\ WithinLargestCap /\ ZeroesPaidPeriod

\* A refresh at rest is well formed and zeroes nothing.
LEMMA IdleSyncType == IdleSync \in Sync /\ IdleSync.pc = "idle"
BY CapFacts, QuotaAssumption DEF IdleSync, Sync, PCs, Plans, Times

\* The snapshot a refresh works from is a plan and a time.
LEMMA SnapshotType ==
    ASSUME PlanTypeOK
    PROVE  Snapshot.plan \in Plans /\ Snapshot.anchor \in Times
<1>1. sub \in Subscription /\ 0 \in Times
  BY QuotaAssumption DEF PlanTypeOK, Times
<1> QED
  BY <1>1 DEF Snapshot, Subscription

\* A step that only moves a refresh to pc keeps the invariant of the refreshes.
LEMMA GotoType ==
    ASSUME PlanTypeOK, ZeroesPaidPeriod, NEW s \in Syncers,
           NEW pc \in PCs \ {"upZero", "reZero"}, Goto(s, pc)
    PROVE  sync' \in [Syncers -> Sync] /\ ZeroesPaidPeriod'
<1>1. sync \in [Syncers -> Sync] /\ sync[s] \in Sync
  BY DEF PlanTypeOK
<1>2. [sync[s] EXCEPT !.pc = pc] \in Sync
  BY <1>1 DEF Sync
<1>3. sync' = [sync EXCEPT ![s] = [sync[s] EXCEPT !.pc = pc]]
  BY DEF Goto
<1>4. sync' \in [Syncers -> Sync]
  BY <1>1, <1>2, <1>3
<1>5. sync'[s].pc = pc /\ \A t \in Syncers \ {s} : sync'[t] = sync[t]
  BY <1>1, <1>3 DEF Sync
<1> QED
  BY <1>4, <1>5 DEF ZeroesPaidPeriod

\* A refresh that ends, or dies, keeps the invariant of the others.
LEMMA FinishType ==
    ASSUME PlanTypeOK, ZeroesPaidPeriod, NEW s \in Syncers, Finish(s)
    PROVE  sync' \in [Syncers -> Sync] /\ ZeroesPaidPeriod'
<1>1. sync \in [Syncers -> Sync]
  BY DEF PlanTypeOK
<1>2. sync'[s] = IdleSync /\ \A t \in Syncers \ {s} : sync'[t] = sync[t]
  BY <1>1 DEF Finish
<1> QED
  BY <1>1, <1>2, IdleSyncType DEF Finish, ZeroesPaidPeriod

\* An HSET of some meta fields keeps the invariant.
LEMMA PutMetaInv ==
    ASSUME PlanInv, NEW s \in Syncers, NEW m \in Meta,
           NEW pc \in PCs \ {"upZero", "reZero"}, PutMeta(s, m, pc)
    PROVE  PlanInv'
<1>1. meta' \in Meta
  BY DEF PutMeta, Meta
<1>2. sync' \in [Syncers -> Sync] /\ ZeroesPaidPeriod'
  BY GotoType DEF PlanInv, PutMeta
<1> QED
  BY <1>1, <1>2
  DEF PlanInv, PlanTypeOK, TypeOK, WithinLargestCap, PutMeta, NoQuotaChange, NoPlanChange

\* A step that leaves everything but the refreshes alone.
LEMMA OnlySyncInv ==
    ASSUME PlanInv, OnlySync, sync' \in [Syncers -> Sync], ZeroesPaidPeriod'
    PROVE  PlanInv'
BY DEF PlanInv, PlanTypeOK, TypeOK, WithinLargestCap, OnlySync, NoQuotaChange, NoPlanChange

\* Reading the meta hash at the head of a reset.
LEMMA ResetLoadInv ==
    ASSUME PlanInv, NEW s \in Syncers, NEW zero \in PCs,
           NEW out \in PCs \ {"upZero", "reZero"}, ResetLoad(s, zero, out)
    PROVE  PlanInv'
<1> DEFINE period == PeriodOf(meta, now)
           pc == IF period = Infinite THEN out ELSE zero
           r == [sync[s] EXCEPT !.period = period, !.pc = pc]
<1>1. sync \in [Syncers -> Sync] /\ sync[s] \in Sync
  BY DEF PlanInv, PlanTypeOK
<1>2. period \in PeriodIds
  BY PeriodOfType DEF PlanInv, PlanTypeOK, TypeOK
<1>3. r \in Sync
  BY <1>1, <1>2 DEF Sync
<1>4. sync' = [sync EXCEPT ![s] = r]
  BY DEF ResetLoad
<1>5. r.pc = pc /\ r.period = period
  BY <1>1 DEF Sync
<1>6. sync'[s] = r /\ \A t \in Syncers \ {s} : sync'[t] = sync[t]
  BY <1>1, <1>4
<1>7. ZeroesPaidPeriod'
  BY <1>5, <1>6 DEF PlanInv, ZeroesPaidPeriod
<1>8. sync' \in [Syncers -> Sync]
  BY <1>1, <1>3, <1>4
<1> QED
  BY <1>7, <1>8, OnlySyncInv DEF ResetLoad

\* Zeroing a usage hash keeps every counter within the cap.
LEMMA ResetZeroInv ==
    ASSUME PlanInv, NEW s \in Syncers, NEW out \in PCs \ {"upZero", "reZero"},
           ResetZero(s, out)
    PROVE  PlanInv'
<1> DEFINE zero == [NoUsage EXCEPT !.ingest = 0, !.wfSeen = TRUE]
           p == sync[s].period
<1>1. sync' \in [Syncers -> Sync] /\ ZeroesPaidPeriod'
  BY GotoType DEF PlanInv, ResetZero
<1>2. NoUsage \in Usage /\ zero \in Usage /\ \A k \in Counters : zero.count[k] = 0
  BY DEF NoUsage, Usage, Absent
<1>3. usage \in [PeriodIds -> Usage] /\ p \in PeriodIds /\ sync[s].anchor \in Times
  BY DEF PlanInv, PlanTypeOK, TypeOK, Sync
<1>4. usage' = [usage EXCEPT ![p] = zero]
  BY DEF ResetZero
<1>5. usage' \in [PeriodIds -> Usage]
  BY <1>2, <1>3, <1>4
<1>6. WithinLargestCap'
  <2> SUFFICES ASSUME NEW q \in PeriodIds, NEW k \in Counters
               PROVE  usage'[q].count[k] <= LargestCap
    BY DEF WithinLargestCap
  <2>1. CASE q = p
    BY <1>2, <1>3, <1>4, <2>1, LargestCapBounds
  <2>2. CASE q # p
    BY <1>3, <1>4, <2>2 DEF PlanInv, WithinLargestCap
  <2> QED
    BY <2>1, <2>2
<1>7. wiped' \in [Times -> 0..2]
  BY <1>3 DEF PlanInv, PlanTypeOK, ResetZero
<1> QED
  BY <1>1, <1>5, <1>6, <1>7 DEF PlanInv, PlanTypeOK, TypeOK, ResetZero, NoQuotaChange

\* The local pc a block of the refresh falls through to.
LEMMA RenewalOrCapsType ==
    ASSUME NEW s \in Syncers
    PROVE  RenewalOrCaps(s) \in PCs \ {"upZero", "reZero"}
BY DEF RenewalOrCaps, PCs

\* The steps of a refresh keep the invariant: one case per step.
LEMMA SyncStepInv ==
    ASSUME PlanInv, NEW s \in Syncers, SyncStep(s)
    PROVE  PlanInv'
<1> DEFINE r == sync[s]
           Plain == PCs \ {"upZero", "reZero"}
<1>1. /\ meta \in Meta /\ r \in Sync /\ sync \in [Syncers -> Sync]
      /\ r.plan \in Plans /\ r.anchor \in Times /\ r.renew \in BOOLEAN
      /\ PlanTypeOK /\ ZeroesPaidPeriod
  BY DEF PlanInv, PlanTypeOK, TypeOK, Sync
<1>2. {"getPlan", "getAnchor", "upFlag", "upLoad", "reAnchor", "reFlag", "reLoad",
       "caps", "plan", "flag", "anchor", "cachePlan", "cacheAnchor"} \subseteq Plain
      /\ {"upZero", "reZero"} \subseteq PCs
  BY DEF PCs
<1>3. CASE FetchSnapshot(s)
  <2> DEFINE n == [IdleSync EXCEPT !.pc = "getPlan", !.plan = Snapshot.plan,
                                   !.anchor = Snapshot.anchor]
  <2>1. n \in Sync /\ n.pc = "getPlan"
    BY <1>1, <1>2, IdleSyncType, SnapshotType DEF Sync
  <2>2. sync' = [sync EXCEPT ![s] = n]
    BY <1>3 DEF FetchSnapshot
  <2>3. sync' \in [Syncers -> Sync] /\ ZeroesPaidPeriod'
    BY <1>1, <2>1, <2>2 DEF ZeroesPaidPeriod
  <2> QED
    BY <1>3, <2>3, OnlySyncInv DEF FetchSnapshot
<1>4. CASE ReadLastPlan(s)
  <2> DEFINE n == [r EXCEPT !.pc = "getAnchor", !.last = lastPlan]
  <2>1. n \in Sync /\ n.pc = "getAnchor"
    BY <1>1, <1>2 DEF Sync, PlanTypeOK
  <2>2. sync' = [sync EXCEPT ![s] = n]
    BY <1>4 DEF ReadLastPlan
  <2>3. sync' \in [Syncers -> Sync] /\ ZeroesPaidPeriod'
    BY <1>1, <2>1, <2>2 DEF ZeroesPaidPeriod
  <2> QED
    BY <1>4, <2>3, OnlySyncInv DEF ReadLastPlan
<1>5. CASE ReadLastAnchor(s)
  <2>1. PICK renew \in BOOLEAN, pc \in Plain :
           sync' = [sync EXCEPT ![s] = [r EXCEPT !.renew = renew, !.pc = pc]]
    BY <1>1, <1>2, <1>5 DEF ReadLastAnchor
  <2> DEFINE n == [r EXCEPT !.renew = renew, !.pc = pc]
  <2>2. n \in Sync /\ n.pc = pc
    BY <1>1, <2>1 DEF Sync
  <2>3. sync' \in [Syncers -> Sync] /\ ZeroesPaidPeriod'
    BY <1>1, <2>1, <2>2 DEF ZeroesPaidPeriod
  <2> QED
    BY <1>5, <2>3, OnlySyncInv DEF ReadLastAnchor
<1>6. CASE UpgradeFlag(s)
  <2>1. [meta EXCEPT !.noRefresh = FALSE] \in Meta
    BY <1>1 DEF Meta
  <2> QED
    BY <1>2, <1>6, <2>1, PutMetaInv DEF UpgradeFlag
<1>7. CASE UpgradeLoad(s)
  BY <1>2, <1>7, ResetLoadInv, RenewalOrCapsType DEF UpgradeLoad
<1>8. CASE UpgradeZero(s)
  BY <1>8, ResetZeroInv, RenewalOrCapsType DEF UpgradeZero
<1>9. CASE RenewalAnchor(s)
  <2>1. [meta EXCEPT !.anchor = r.anchor] \in Meta
    BY <1>1 DEF Meta
  <2> QED
    BY <1>2, <1>9, <2>1, PutMetaInv DEF RenewalAnchor
<1>10. CASE RenewalFlag(s)
  <2>1. [meta EXCEPT !.noRefresh = FALSE] \in Meta
    BY <1>1 DEF Meta
  <2> QED
    BY <1>2, <1>10, <2>1, PutMetaInv DEF RenewalFlag
<1>11. CASE RenewalLoad(s)
  BY <1>2, <1>11, ResetLoadInv DEF RenewalLoad
<1>12. CASE RenewalZero(s)
  BY <1>2, <1>12, ResetZeroInv DEF RenewalZero
<1>13. CASE SetCaps(s)
  <2>1. [meta EXCEPT !.cap = CapOf(r.plan)] \in Meta
    BY <1>1, CapFacts DEF Meta, CapOf
  <2> QED
    BY <1>2, <1>13, <2>1, PutMetaInv DEF SetCaps
<1>14. CASE SetPlan(s)
  <2>1. [meta EXCEPT !.plan = r.plan, !.noRefresh = r.plan = "FREE"] \in Meta
    BY <1>1 DEF Meta
  <2>2. (IF r.plan = "PRO" THEN "flag" ELSE "cachePlan") \in Plain
    BY <1>2
  <2> QED
    BY <1>14, <2>1, <2>2, PutMetaInv DEF SetPlan
<1>15. CASE ClearFlag(s)
  <2>1. [meta EXCEPT !.noRefresh = FALSE] \in Meta
    BY <1>1 DEF Meta
  <2>2. (IF r.anchor > 0 /\ ~r.renew THEN "anchor" ELSE "cachePlan") \in Plain
    BY <1>2
  <2> QED
    BY <1>15, <2>1, <2>2, PutMetaInv DEF ClearFlag
<1>16. CASE SetAnchor(s)
  <2>1. [meta EXCEPT !.anchor = r.anchor] \in Meta
    BY <1>1 DEF Meta
  <2> QED
    BY <1>2, <1>16, <2>1, PutMetaInv DEF SetAnchor
<1>17. CASE CachePlan(s)
  <2>1. sync' \in [Syncers -> Sync] /\ ZeroesPaidPeriod'
    BY <1>1, <1>2, <1>17, GotoType, FinishType DEF CachePlan
  <2> QED
    BY <1>1, <1>17, <2>1
    DEF CachePlan, NoQuotaChange, PlanInv, PlanTypeOK, TypeOK, WithinLargestCap
<1>18. CASE CacheAnchor(s)
  <2>1. sync' \in [Syncers -> Sync] /\ ZeroesPaidPeriod'
    BY <1>1, <1>18, FinishType DEF CacheAnchor
  <2> QED
    BY <1>1, <1>18, <2>1
    DEF CacheAnchor, NoQuotaChange, PlanInv, PlanTypeOK, TypeOK, WithinLargestCap
<1> QED
  BY <1>3, <1>4, <1>5, <1>6, <1>7, <1>8, <1>9, <1>10, <1>11, <1>12, <1>13, <1>14,
     <1>15, <1>16, <1>17, <1>18 DEF SyncStep

\* Failures of a refresh keep the invariant.
LEMMA SyncFaultInv ==
    ASSUME PlanInv, NEW s \in Syncers, SyncFault(s)
    PROVE  PlanInv'
<1>1. /\ PlanTypeOK /\ ZeroesPaidPeriod /\ sync \in [Syncers -> Sync]
      /\ "getPlan" \in PCs /\ {"caps", "cachePlan"} \subseteq PCs \ {"upZero", "reZero"}
  BY DEF PlanInv, PlanTypeOK, PCs
<1>2. faults' \in 0..MaxFaults
  BY <1>1, QuotaAssumption
  DEF SyncFault, FetchSnapshotFails, RedisError, Die, PlanTypeOK, TypeOK
<1>3. sync' \in [Syncers -> Sync] /\ ZeroesPaidPeriod'
  <2>1. CASE FetchSnapshotFails(s)
    <3>1. [IdleSync EXCEPT !.pc = "getPlan"] \in Sync
      BY <1>1, IdleSyncType DEF Sync
    <3> QED
      BY <1>1, <2>1, <3>1, IdleSyncType DEF FetchSnapshotFails, ZeroesPaidPeriod, Sync
  <2>2. CASE RedisError(s)
    BY <1>1, <2>2, GotoType, RenewalOrCapsType DEF RedisError
  <2>3. CASE Die(s)
    BY <1>1, <2>3, FinishType DEF Die
  <2> QED
    BY <2>1, <2>2, <2>3 DEF SyncFault
<1>4. UNCHANGED <<now, meta, usage, charge>> /\ NoPlanChange
  BY DEF SyncFault, FetchSnapshotFails, RedisError, Die
<1> QED
  BY <1>2, <1>3, <1>4 DEF NoPlanChange, PlanInv, PlanTypeOK, TypeOK, WithinLargestCap

\* Neither do the subscription's changes and the expiry of the caches disturb it.
LEMMA EnvironmentInv ==
    ASSUME PlanInv, Environment
    PROVE  PlanInv'
<1>1. ASSUME NEW new \in Subscription, ChangeSub(new)
      PROVE  PlanInv'
  BY <1>1, PlanAssumption
  DEF ChangeSub, quotaVars, PlanInv, PlanTypeOK, TypeOK, WithinLargestCap, ZeroesPaidPeriod
<1>2. sub \in Subscription /\ now \in Times /\ sub.anchor \in Times
  BY DEF PlanInv, PlanTypeOK, TypeOK, Subscription
<1>3. CASE Subscribe
  <2>1. PICK start \in Times : ChangeSub([sub EXCEPT !.plan = "PRO", !.anchor = start])
    BY <1>2, <1>3 DEF Subscribe
  <2>2. [sub EXCEPT !.plan = "PRO", !.anchor = start] \in Subscription
    BY <1>2 DEF Subscription, Plans
  <2> QED
    BY <1>1, <2>1, <2>2
<1>4. CASE Cancel
  <2>1. [sub EXCEPT !.plan = "FREE"] \in Subscription
    BY <1>2 DEF Subscription, Plans
  <2> QED
    BY <1>1, <1>4, <2>1 DEF Cancel
<1>5. CASE Renew
  <2>1. sub.anchor + Window \in Times
    BY <1>2, <1>5, QuotaAssumption DEF Renew, Times
  <2>2. [sub EXCEPT !.anchor = @ + Window] \in Subscription
    BY <1>2, <2>1 DEF Subscription
  <2> QED
    BY <1>1, <1>5, <2>2 DEF Renew
<1>6. CASE Override
  <2>1. PICK o \in Plans \cup {None} : ChangeSub([sub EXCEPT !.override = o])
    BY <1>6 DEF Override
  <2>2. [sub EXCEPT !.override = o] \in Subscription
    BY <1>2 DEF Subscription
  <2> QED
    BY <1>1, <2>1, <2>2
<1>7. CASE ExpireCache
  <2>1. lastPlan' \in Plans \cup {None} /\ lastAnchor' \in Times
        /\ expiries' \in 0..MaxExpiries
    BY <1>7, QuotaAssumption, PlanAssumption DEF ExpireCache, PlanInv, PlanTypeOK, Times
  <2> QED
    BY <1>7, <2>1
    DEF ExpireCache, quotaVars, PlanInv, PlanTypeOK, TypeOK, WithinLargestCap, ZeroesPaidPeriod
<1> QED
  BY <1>3, <1>4, <1>5, <1>6, <1>7 DEF Environment

\* The invariant holds before the first request of a user.
LEMMA SyncInitInv == SyncInit => PlanInv
<1> SUFFICES ASSUME SyncInit PROVE PlanInv
  OBVIOUS
<1>1. NoUsage \in Usage /\ \A k \in Counters : NoUsage.count[k] = 0
  BY DEF NoUsage, Usage, Absent
<1>2. now \in Times /\ 0 \in Times /\ 1 \in Times /\ faults \in 0..MaxFaults
      /\ changes \in 0..MaxChanges /\ expiries \in 0..MaxExpiries
  BY QuotaAssumption, PlanAssumption DEF SyncInit, Times
<1>3. sub \in Subscription
  BY <1>2 DEF SyncInit, Subscription, Plans
<1>4. TypeOK
  BY <1>1, <1>2, MetaTypes, IdleChargeType DEF SyncInit, TypeOK
<1>5. PlanTypeOK
  BY <1>2, <1>3, <1>4, IdleSyncType DEF SyncInit, PlanTypeOK
<1>6. WithinLargestCap
  BY <1>1, LargestCapBounds DEF SyncInit, WithinLargestCap
<1>7. ZeroesPaidPeriod
  BY IdleSyncType DEF SyncInit, ZeroesPaidPeriod
<1> QED
  BY <1>5, <1>6, <1>7 DEF PlanInv

\* Every step of charges, refreshes, faults and billing keeps the invariant.
LEMMA SyncNextInv == PlanInv /\ [SyncNext]_vars => PlanInv'
<1> SUFFICES ASSUME PlanInv, [SyncNext]_vars
             PROVE  PlanInv'
  OBVIOUS
<1>1. CASE Environment
  BY <1>1, EnvironmentInv
<1>2. ASSUME NEW s \in Syncers, SyncStep(s) \/ SyncFault(s)
      PROVE  PlanInv'
  BY <1>2, SyncStepInv, SyncFaultInv
<1>3. ASSUME NEW c \in Chargers, ChargeStep(c), UNCHANGED planVars
      PROVE  PlanInv'
  <2>1. TypeOK' /\ WithinLargestCap'
    BY <1>3, ChargeStepType, ChargeStepWithinCap DEF PlanInv, PlanTypeOK
  <2> QED
    BY <1>3, <2>1 DEF planVars, PlanInv, PlanTypeOK, ZeroesPaidPeriod
<1>4. CASE Tick /\ UNCHANGED planVars
  BY <1>4, QuotaAssumption
  DEF Tick, planVars, PlanInv, PlanTypeOK, TypeOK, Times, WithinLargestCap, ZeroesPaidPeriod
<1>5. CASE UNCHANGED vars
  BY <1>5 DEF vars, PlanInv, PlanTypeOK, TypeOK, WithinLargestCap, ZeroesPaidPeriod
<1> QED
  BY <1>1, <1>2, <1>3, <1>4, <1>5 DEF SyncNext, QuotaStep

\* Types, caps and the guard of the resets hold in every reachable state,
\* whatever refreshes and charges interleave and fail.
THEOREM PlanInvariant == SyncSpec => []PlanInv
BY SyncInitInv, SyncNextInv, PTL DEF SyncSpec

\* Concurrent refreshes, with the stale and torn hashes they leave behind, do
\* not let LUA_CHECK_INCR take a plain counter past the largest cap.
THEOREM PlanWithinCap == SyncSpec => [](PlanTypeOK /\ WithinLargestCap)
<1>1. PlanInv => PlanTypeOK /\ WithinLargestCap
  BY DEF PlanInv
<1> QED
  BY <1>1, PlanInvariant, PTL

\* A step of a charging request charges as it has read.
LEMMA ChargeStepAsRead ==
    ASSUME TypeOK, NEW c \in Chargers, ChargeStep(c)
    PROVE  ChargesAsRead
<1>1. charge \in [Chargers -> Charge] /\ charge[c] \in Charge /\ meta \in Meta
  BY DEF TypeOK
<1>2. /\ \A d \in Chargers \ {c} : charge'[d] = charge[d]
      /\ charge'[c].pc = "eval" => /\ charge[c].pc # "eval"
                                  /\ charge'[c].cap = meta'.cap /\ charge'[c].period = PeriodOf(meta', now)
  <2>1. CASE LoadMeta(c) /\ meta.present
    BY <1>1, <2>1, LoadedCap DEF LoadMeta
  <2>2. CASE WriteDefault(c)
    BY <1>1, <2>2, LoadedCap, MetaTypes DEF WriteDefault
  <2>3. CASE ~(LoadMeta(c) /\ meta.present) /\ ~WriteDefault(c)
    <3>1. PICK r : r.pc # "eval" /\ charge' = [charge EXCEPT ![c] = r]
      <4>1. /\ IdleCharge.pc = "idle" /\ [charge[c] EXCEPT !.pc = "breakdown"].pc = "breakdown"
            /\ [charge[c] EXCEPT !.pc = "default"].pc = "default"
        BY <1>1 DEF IdleCharge, Charge
      <4>2. \A op \in Ops, n \in Amounts \cup {0} :
              [IdleCharge EXCEPT !.pc = "load", !.op = op, !.amount = n].pc = "load"
        BY DEF IdleCharge
      <4> QED
        BY <2>3, <4>1, <4>2 DEF ChargeStep, LoadMeta, Begin, CheckAndAdd, CheckAndAddFileProcessing, FailOpen,
          RecordBreakdown, Abandon, Admitted, SetCharge
    <3> QED
      BY <1>1, <3>1
  <2> QED
    BY <2>1, <2>2, <2>3
<1>3. ASSUME NEW q \in PeriodIds, NEW k \in Counters, usage'[q].count[k] > usage[q].count[k]
      PROVE  /\ charge[c].pc = "eval" /\ charge[c].op = k /\ charge[c].period = q
             /\ usage'[q].count[k] <= charge[c].cap
  <2>1. usage[q].count[k] \in Nat
    BY DEF TypeOK, Usage
  <2> QED
    BY <1>3, <2>1, CheckAdds, OthersSpare
<1> QED
  BY <1>2, <1>3 DEF ChargesAsRead

\* A step that is no request's leaves the requests alone and raises no counter.
LEMMA RefreshCharges ==
    ASSUME PlanInv, UNCHANGED charge,
           \/ UNCHANGED usage
           \/ \E s \in Syncers, out \in PCs : ResetZero(s, out)
    PROVE  ChargesAsRead
<1>1. usage \in [PeriodIds -> Usage]
  BY DEF PlanInv, PlanTypeOK, TypeOK
<1>2. ASSUME NEW q \in PeriodIds, NEW k \in Counters
      PROVE  ~(usage'[q].count[k] > usage[q].count[k])
  <2>1. usage[q].count[k] \in Nat
    BY <1>1 DEF Usage
  <2>2. CASE UNCHANGED usage
    BY <2>1, <2>2
  <2>3. ASSUME NEW s \in Syncers, NEW out \in PCs, ResetZero(s, out)
        PROVE  ~(usage'[q].count[k] > usage[q].count[k])
    <3> DEFINE zero == [NoUsage EXCEPT !.ingest = 0, !.wfSeen = TRUE]
    <3>1. usage' = [usage EXCEPT ![sync[s].period] = zero] /\ zero.count[k] = 0
      BY <2>3 DEF ResetZero, NoUsage
    <3> HIDE DEF zero
    <3>2. usage'[q] = zero \/ usage'[q] = usage[q]
      BY <1>1, <3>1
    <3> QED
      BY <2>1, <3>1, <3>2
  <2> QED
    BY <2>2, <2>3
<1> QED
  BY <1>2 DEF ChargesAsRead

\* Under any sequence of refreshes, whatever mixture of plans and caps they leave in the hash: a
\* request charges within the cap and in the period it read, all at one moment, from the hash.
THEOREM StaleCapHolds == SyncSpec => [][ChargesAsRead]_vars
<1>1. PlanInv /\ [SyncNext]_vars => [ChargesAsRead]_vars
  <2> SUFFICES ASSUME PlanInv, SyncNext
               PROVE  ChargesAsRead
    OBVIOUS
  <2>1. ASSUME NEW c \in Chargers, ChargeStep(c)
        PROVE  ChargesAsRead
    BY <2>1, ChargeStepAsRead DEF PlanInv, PlanTypeOK
  <2>2. ASSUME NEW s \in Syncers, SyncStep(s) \/ SyncFault(s)
        PROVE  ChargesAsRead
    <3>1. CASE UpgradeZero(s) \/ RenewalZero(s)
      <4>1. UNCHANGED charge /\ \E out \in PCs : ResetZero(s, out)
        BY <3>1, RenewalOrCapsType DEF UpgradeZero, RenewalZero, ResetZero, NoQuotaChange, PCs
      <4> QED
        BY <4>1, RefreshCharges
    <3>2. CASE ~(UpgradeZero(s) \/ RenewalZero(s))
      <4>1. UNCHANGED <<charge, usage>>
        BY <2>2, <3>2
        DEF SyncStep, SyncFault, FetchSnapshot, ReadLastPlan, ReadLastAnchor, UpgradeFlag,
            UpgradeLoad, RenewalAnchor, RenewalFlag, RenewalLoad, ResetLoad, SetCaps, SetPlan,
            ClearFlag, SetAnchor, PutMeta, CachePlan, CacheAnchor, FetchSnapshotFails,
            RedisError, Die, OnlySync, NoQuotaChange
      <4> QED
        BY <4>1, RefreshCharges
    <3> QED
      BY <3>1, <3>2
  <2>3. CASE UNCHANGED <<charge, usage>>
    BY <2>3, RefreshCharges
  <2> QED
    BY <2>1, <2>2, <2>3
    DEF SyncNext, QuotaStep, Tick, Environment, Subscribe, Cancel, Renew, Override, ChangeSub, ExpireCache,
        quotaVars
<1> QED
  BY <1>1, PlanInvariant, PTL DEF SyncSpec

\* A charging request only ever adds to a counter.
LEMMA ChargeStepAdds ==
    ASSUME TypeOK, NEW c \in Chargers, ChargeStep(c),
           NEW q \in PeriodIds, NEW k \in Counters
    PROVE  usage'[q].count[k] >= usage[q].count[k]
<1> DEFINE r == charge[c]
           p == r.period
           u == usage[p]
<1>1. /\ usage \in [PeriodIds -> Usage] /\ r \in Charge /\ p \in PeriodIds
      /\ u \in Usage /\ u.count \in [Counters -> Nat] /\ usage[q].count[k] \in Nat
  BY DEF TypeOK, Charge, Usage
<1>2. CASE CheckAndAdd(c)
  <2>1. CASE usage' = [usage EXCEPT ![p].count[r.op] = @ + r.amount]
    <3>1. r.op \in Counters
      BY <1>2 DEF CheckAndAdd
    <3>2. r.amount \in Nat
      <4>1. r.amount \in Amounts \cup {0}
        BY <1>1 DEF Charge
      <4> QED
        BY <4>1, AmountFacts, Zenon
    <3>3. CASE q = p /\ k = r.op
      <4>1. usage'[q].count[k] = usage[q].count[k] + r.amount
        BY <1>1, <2>1, <3>1, <3>3
      <4> HIDE DEF r
      <4> QED
        BY <1>1, <3>2, <4>1
    <3>4. CASE ~(q = p /\ k = r.op)
      <4>1. usage'[q].count[k] = usage[q].count[k]
        BY <1>1, <2>1, <3>1, <3>4
      <4> QED
        BY <1>1, <4>1
    <3> QED
      BY <3>3, <3>4
  <2>2. CASE UNCHANGED usage
    BY <1>1, <2>2
  <2> QED
    BY <1>2, <2>1, <2>2 DEF CheckAndAdd
<1>3. CASE CheckAndAddFileProcessing(c)
  <2>1. usage'[q].count = usage[q].count
    BY <1>1, <1>3 DEF CheckAndAddFileProcessing, Usage
  <2> QED
    BY <1>1, <2>1
<1>4. CASE RecordBreakdown(c)
  <2>1. usage'[q].count = usage[q].count
    BY <1>1, <1>4 DEF RecordBreakdown, Usage
  <2> QED
    BY <1>1, <2>1
<1>5. CASE UNCHANGED usage
  BY <1>1, <1>5
<1> QED
  BY <1>2, <1>3, <1>4, <1>5 DEF ChargeStep, Begin, LoadMeta, WriteDefault, FailOpen, Abandon

\* A refresh leaves the usage of the free quota alone: the only steps that
\* zero a hash have read a period that ends.
LEMMA SyncStepSparesFree ==
    ASSUME PlanInv, NEW s \in Syncers, SyncStep(s) \/ SyncFault(s)
    PROVE  usage'[Infinite] = usage[Infinite]
<1>1. CASE UpgradeZero(s) \/ RenewalZero(s)
  <2>1. sync[s].period # Infinite
    BY <1>1 DEF UpgradeZero, RenewalZero, At, PlanInv, ZeroesPaidPeriod
  <2>2. usage \in [PeriodIds -> Usage]
    BY DEF PlanInv, PlanTypeOK, TypeOK
  <2> QED
    BY <1>1, <2>1, <2>2, CapFacts DEF UpgradeZero, RenewalZero, ResetZero
<1>2. CASE UNCHANGED usage
  BY <1>2
<1> QED
  BY <1>1, <1>2
  DEF SyncStep, SyncFault, FetchSnapshot, ReadLastPlan, ReadLastAnchor, UpgradeFlag,
      UpgradeLoad, RenewalAnchor, RenewalFlag, RenewalLoad, ResetLoad, SetCaps, SetPlan,
      ClearFlag, SetAnchor, PutMeta, CachePlan, CacheAnchor, FetchSnapshotFails,
      RedisError, Die, OnlySync

\* The free quota never comes back: no step of a refresh, of a charge or of
\* billing takes a counter of the period "infinite" down.
THEOREM FreeQuotaNeverRefreshes == SyncSpec => FreeNeverRefreshes
<1> DEFINE Spent == \A k \in Counters :
                      usage'[Infinite].count[k] >= usage[Infinite].count[k]
<1>1. PlanInv /\ [SyncNext]_vars => [Spent]_vars
  <2> SUFFICES ASSUME PlanInv, [SyncNext]_vars, NEW k \in Counters
               PROVE  usage'[Infinite].count[k] >= usage[Infinite].count[k]
    OBVIOUS
  <2>1. TypeOK /\ Infinite \in PeriodIds /\ usage[Infinite].count[k] \in Nat
    BY CapFacts DEF PlanInv, PlanTypeOK, TypeOK, Usage
  <2>2. ASSUME NEW s \in Syncers, SyncStep(s) \/ SyncFault(s)
        PROVE  usage'[Infinite].count[k] >= usage[Infinite].count[k]
    <3>1. usage'[Infinite] = usage[Infinite]
      BY <2>2, SyncStepSparesFree
    <3> QED
      BY <2>1, <3>1
  <2>3. ASSUME NEW c \in Chargers, ChargeStep(c)
        PROVE  usage'[Infinite].count[k] >= usage[Infinite].count[k]
    BY <2>1, <2>3, ChargeStepAdds
  <2>4. CASE UNCHANGED usage
    BY <2>1, <2>4
  <2> QED
    BY <2>2, <2>3, <2>4
    DEF SyncNext, QuotaStep, Tick, Environment, Subscribe, Cancel, Renew, Override,
        ChangeSub, ExpireCache, quotaVars, vars
<1>2. SyncSpec => [][Spent]_vars
  BY <1>1, PlanInvariant, PTL DEF SyncSpec
<1> QED
  BY <1>2 DEF FreeNeverRefreshes

--------------------------------------------------------------------------------
(* One refresh at a time: a renewal wipes the new period once. *)

\* No command failed and no cached key expired.
Clean == faults = 0 /\ expiries = 0

\* Period starts only move forward, and the refresh at hand has seen one that
\* is no older than the cached one.
AnchorInv(s) ==
    /\ sub.anchor <= now
    /\ lastAnchor <= sub.anchor
    /\ sync[s].anchor <= sub.anchor
    /\ sync[s].pc # "idle" /\ sync[s].anchor > 0 => lastAnchor <= sync[s].anchor
    /\ sync[s].renew => sync[s].anchor > lastAnchor
    /\ sync[s].pc = "cacheAnchor" => sync[s].anchor > 0

\* The cached plan is FREE only while the hash is FREE too, or is being
\* upgraded: the reset of an upgrade therefore finds a FREE hash and returns.
PlanFollows(s) ==
    /\ lastPlan = "FREE" =>
         \/ meta.plan = "FREE"
         \/ sync[s].plan = "PRO" /\ sync[s].pc \in {"flag", "anchor", "cachePlan"}
    /\ sync[s].plan = "FREE" /\ sync[s].pc = "cachePlan" => meta.plan = "FREE"
    /\ sync[s].pc \in {"flag", "anchor"} => sync[s].plan = "PRO"
    /\ sync[s].pc = "getAnchor" /\ sync[s].last = "FREE" => meta.plan = "FREE"
    /\ sync[s].pc \in {"upFlag", "upLoad"} => meta.plan = "FREE"
    /\ sync[s].pc # "upZero"

\* The steps after the reset of a renewal, until the anchor is cached.
Written == {"caps", "plan", "flag", "anchor", "cachePlan", "cacheAnchor"}

\* A period that was wiped is over for the refreshes: its anchor is cached, or
\* the refresh that wiped it is about to cache it.
WipeInv(s) ==
    /\ sync[s].pc \in {"reAnchor", "reFlag", "reLoad", "reZero"} => sync[s].renew
    /\ sync[s].pc = "reLoad" /\ meta.plan = "PRO" => ~meta.noRefresh
    /\ \A a \in Times \ {0} :
          wiped[a] > 0 =>
             \/ a <= lastAnchor
             \/ a = sync[s].anchor /\ sync[s].renew /\ sync[s].pc \in Written
    /\ sync[s].pc = "caps" /\ sync[s].renew /\ meta.plan = "PRO" =>
          wiped[sync[s].anchor] = 1

RenewInv(s) == AnchorInv(s) /\ (Clean => PlanFollows(s) /\ WipeInv(s))

\* The types these proofs need, over plain numbers.
LEMMA RenewTypes ==
    ASSUME PlanInv, NEW s \in Syncers
    PROVE  /\ now \in Nat /\ meta \in Meta /\ faults \in Nat /\ expiries \in Nat
           /\ sub \in Subscription /\ sub.anchor \in Nat /\ lastAnchor \in Nat
           /\ sync \in [Syncers -> Sync] /\ sync[s] \in Sync
           /\ sync[s].anchor \in Nat /\ sync[s].anchor \in Times
           /\ sync[s].renew \in BOOLEAN
           /\ wiped \in [Times -> 0..2]
           /\ Times \subseteq Nat
BY QuotaAssumption, PlanAssumption
DEF PlanInv, PlanTypeOK, TypeOK, Times, Subscription, Sync

\* A PRO hash that refreshes has a period that ends.
LEMMA PaidPeriod ==
    ASSUME NEW m \in Meta, NEW t \in Times, m.plan = "PRO", ~m.noRefresh
    PROVE  PeriodOf(m, t) # Infinite
<1>1. CASE m.anchor = 0 \/ t < m.anchor
  BY <1>1 DEF PeriodOf, Infinite
<1>2. CASE ~(m.anchor = 0 \/ t < m.anchor)
  <2> DEFINE x == t - m.anchor
             q == x \div Window
  <2>1. x \in 0..MaxNow
    BY <1>2, QuotaAssumption DEF Times, Meta
  <2>2. q \in 0..MaxNow
    BY <2>1, QuotaAssumption
  <2> QED
    BY <1>2, <2>2 DEF PeriodOf, Infinite
<1> QED
  BY <1>1, <1>2

\* A charge, and the clock, change the hash only by creating the FREE default.
LEMMA QuotaStepFacts ==
    ASSUME PlanInv, QuotaStep
    PROVE  /\ meta' = meta \/ meta'.plan = "FREE"
           /\ faults' = faults \/ faults' = faults + 1
           /\ now' = now \/ now' = now + 1
BY DEF QuotaStep, Tick, ChargeStep, Begin, LoadMeta, WriteDefault, DefaultMeta, NoMeta,
       CheckAndAdd, CheckAndAddFileProcessing, FailOpen, RecordBreakdown, Abandon

LEMMA RenewOverQuota ==
    ASSUME PlanInv, NEW s \in Syncers, RenewInv(s), QuotaStep, UNCHANGED planVars
    PROVE  RenewInv(s)'
<1>1. UNCHANGED <<sub, lastPlan, lastAnchor, sync, expiries, wiped>>
  BY DEF planVars
<1>2. AnchorInv(s)'
  BY <1>1, RenewTypes, QuotaStepFacts DEF RenewInv, AnchorInv
<1>3. ASSUME Clean'
      PROVE  Clean /\ PlanFollows(s)' /\ WipeInv(s)'
  <2>1. Clean
    BY <1>1, <1>3, RenewTypes, QuotaStepFacts DEF Clean
  <2>2. PlanFollows(s) /\ WipeInv(s)
    BY <2>1 DEF RenewInv
  <2>3. meta' = meta \/ meta'.plan = "FREE"
    BY QuotaStepFacts
  <2>4. PlanFollows(s)'
    BY <1>1, <2>2, <2>3 DEF PlanFollows
  <2>5. WipeInv(s)'
    BY <1>1, <2>2, <2>3 DEF WipeInv
  <2> QED
    BY <2>1, <2>4, <2>5
<1> QED
  BY <1>2, <1>3 DEF RenewInv

LEMMA RenewOverEnvironment ==
    ASSUME PlanInv, NEW s \in Syncers, RenewInv(s), Environment
    PROVE  RenewInv(s)'
<1>1. CASE ExpireCache
  <2>1. UNCHANGED <<now, meta, faults, sub, sync, wiped>> /\ expiries' = expiries + 1
        /\ (lastAnchor' = lastAnchor \/ lastAnchor' = 0)
    BY <1>1 DEF ExpireCache, quotaVars
  <2>2. ~Clean'
    BY <2>1, RenewTypes DEF Clean
  <2>3. AnchorInv(s)'
    BY <2>1, RenewTypes DEF RenewInv, AnchorInv
  <2> QED
    BY <2>2, <2>3 DEF RenewInv
<1>2. CASE Subscribe \/ Cancel \/ Renew \/ Override
  <2>1. UNCHANGED <<now, meta, faults, lastPlan, lastAnchor, sync, expiries, wiped>>
    BY <1>2 DEF Subscribe, Cancel, Renew, Override, ChangeSub, quotaVars
  <2>2. sub'.anchor \in Nat /\ sub.anchor <= sub'.anchor /\ sub'.anchor <= now
    <3>1. sub.anchor <= now
      BY DEF RenewInv, AnchorInv
    <3>2. CASE Subscribe
      BY <3>1, <3>2, RenewTypes DEF Subscribe, ChangeSub, Subscription
    <3>3. CASE Cancel \/ Override
      BY <3>1, <3>3, RenewTypes DEF Cancel, Override, ChangeSub, Subscription
    <3>4. CASE Renew
      BY <3>1, <3>4, RenewTypes, QuotaAssumption DEF Renew, ChangeSub, Subscription
    <3> QED
      BY <1>2, <3>2, <3>3, <3>4
  <2>3. AnchorInv(s)'
    BY <2>1, <2>2, RenewTypes DEF RenewInv, AnchorInv
  <2>4. Clean' <=> Clean
    BY <2>1 DEF Clean
  <2>5. PlanFollows(s) => PlanFollows(s)'
    BY <2>1 DEF PlanFollows
  <2>6. WipeInv(s) => WipeInv(s)'
    BY <2>1 DEF WipeInv
  <2> QED
    BY <2>3, <2>4, <2>5, <2>6 DEF RenewInv
<1> QED
  BY <1>1, <1>2 DEF Environment

LEMMA RenewOverFault ==
    ASSUME PlanInv, NEW s \in Syncers, RenewInv(s), SyncFault(s)
    PROVE  RenewInv(s)'
<1>1. UNCHANGED <<now, sub, lastAnchor>> /\ faults' = faults + 1
  BY DEF SyncFault, FetchSnapshotFails, RedisError, Die, NoPlanChange
<1>2. ~Clean'
  BY <1>1, RenewTypes DEF Clean
<1>3. AnchorInv(s)'
  <2>1. CASE FetchSnapshotFails(s) \/ Die(s)
    <3>1. /\ sync'[s].anchor = 0 /\ sync'[s].renew = FALSE
          /\ sync'[s].pc # "cacheAnchor"
      BY <2>1, RenewTypes DEF FetchSnapshotFails, Die, Finish, IdleSync
    <3> QED
      BY <1>1, <3>1, RenewTypes DEF RenewInv, AnchorInv
  <2>2. CASE RedisError(s)
    <3>1. /\ sync'[s].anchor = sync[s].anchor /\ sync'[s].renew = sync[s].renew
          /\ sync[s].pc # "idle" /\ sync'[s].pc # "cacheAnchor"
      BY <2>2, RenewTypes DEF RedisError, Goto, Sync, RenewalOrCaps
    <3> QED
      BY <1>1, <3>1, RenewTypes DEF RenewInv, AnchorInv
  <2> QED
    BY <2>1, <2>2 DEF SyncFault
<1> QED
  BY <1>2, <1>3 DEF RenewInv

\* Steps that move the refresh from one block to the next.
LEMMA RenewOverStep ==
    ASSUME PlanInv, NEW s \in Syncers, RenewInv(s), SyncStep(s)
    PROVE  RenewInv(s)'
<1> DEFINE y == sync[s]
           z == sync'[s]
<1>1. UNCHANGED <<now, sub, faults, expiries>>
  BY DEF SyncStep, FetchSnapshot, ReadLastPlan, ReadLastAnchor, UpgradeFlag, UpgradeLoad,
         UpgradeZero, RenewalAnchor, RenewalFlag, RenewalLoad, RenewalZero, SetCaps,
         SetPlan, ClearFlag, SetAnchor, CachePlan, CacheAnchor, PutMeta, ResetLoad,
         ResetZero, OnlySync, NoQuotaChange, NoPlanChange
<1>2. Clean' <=> Clean
  BY <1>1 DEF Clean
<1>3. CASE FetchSnapshot(s)
  <2>1. /\ z.pc = "getPlan" /\ z.anchor = Snapshot.anchor /\ z.renew = FALSE
        /\ UNCHANGED <<meta, lastPlan, lastAnchor, wiped>> /\ y.pc = "idle"
    BY <1>3, RenewTypes
    DEF FetchSnapshot, At, IdleSync, OnlySync, NoPlanChange
  <2>2. Snapshot.anchor \in {0, sub.anchor}
    BY DEF Snapshot
  <2>3. AnchorInv(s)'
    BY <1>1, <2>1, <2>2, RenewTypes DEF RenewInv, AnchorInv
  <2>4. PlanFollows(s) => PlanFollows(s)'
    BY <2>1 DEF PlanFollows
  <2>5. WipeInv(s) => WipeInv(s)'
    BY <2>1 DEF WipeInv, Written
  <2> QED
    BY <1>2, <2>3, <2>4, <2>5 DEF RenewInv
<1>4. CASE ReadLastPlan(s)
  <2>1. /\ z.pc = "getAnchor" /\ z.anchor = y.anchor /\ z.renew = y.renew
        /\ z.plan = y.plan /\ z.last = lastPlan /\ y.pc = "getPlan"
        /\ UNCHANGED <<meta, lastPlan, lastAnchor, wiped>>
    BY <1>4, RenewTypes DEF ReadLastPlan, At, Sync, OnlySync, NoPlanChange
  <2>2. AnchorInv(s)'
    BY <1>1, <2>1, RenewTypes DEF RenewInv, AnchorInv
  <2>3. PlanFollows(s) => PlanFollows(s)'
    BY <2>1 DEF PlanFollows
  <2>4. WipeInv(s) => WipeInv(s)'
    BY <2>1 DEF WipeInv, Written
  <2> QED
    BY <1>2, <2>2, <2>3, <2>4 DEF RenewInv
<1>5. CASE ReadLastAnchor(s)
  <2> DEFINE renew == y.plan = "PRO" /\ y.anchor > 0 /\ y.anchor # lastAnchor
             upgrade == y.last = "FREE" /\ y.plan = "PRO"
  <2>1. /\ z.anchor = y.anchor /\ z.renew = renew /\ z.plan = y.plan
        /\ z.pc = (IF upgrade THEN "upFlag" ELSE IF renew THEN "reAnchor" ELSE "caps")
        /\ y.pc = "getAnchor"
        /\ UNCHANGED <<meta, lastPlan, lastAnchor, wiped>>
    BY <1>5, RenewTypes DEF ReadLastAnchor, At, Sync, OnlySync, NoPlanChange
  <2>2. AnchorInv(s)'
    BY <1>1, <2>1, RenewTypes DEF RenewInv, AnchorInv
  <2>3. PlanFollows(s) => PlanFollows(s)'
    BY <2>1 DEF PlanFollows
  <2>4. WipeInv(s) => WipeInv(s)'
    BY <2>1 DEF WipeInv, Written
  <2> QED
    BY <1>2, <2>2, <2>3, <2>4 DEF RenewInv
<1>6. CASE UpgradeFlag(s)
  <2>1. /\ z = [y EXCEPT !.pc = "upLoad"] /\ y.pc = "upFlag" /\ meta'.plan = meta.plan
        /\ UNCHANGED <<lastPlan, lastAnchor, wiped>>
    BY <1>6, RenewTypes DEF UpgradeFlag, PutMeta, Goto, At, NoPlanChange, Meta
  <2>2. AnchorInv(s)'
    BY <1>1, <2>1, RenewTypes DEF RenewInv, AnchorInv, Sync
  <2>3. PlanFollows(s) => PlanFollows(s)'
    BY <2>1, RenewTypes DEF PlanFollows, Sync
  <2>4. WipeInv(s) => WipeInv(s)'
    BY <2>1, RenewTypes DEF WipeInv, Written, Sync
  <2> QED
    BY <1>2, <2>2, <2>3, <2>4 DEF RenewInv
<1>7. CASE UpgradeLoad(s)
  <2>1. /\ z.anchor = y.anchor /\ z.renew = y.renew /\ z.plan = y.plan
        /\ z.pc = (IF PeriodOf(meta, now) = Infinite THEN RenewalOrCaps(s) ELSE "upZero")
        /\ y.pc = "upLoad" /\ UNCHANGED <<meta, lastPlan, lastAnchor, wiped>>
    BY <1>7, RenewTypes DEF UpgradeLoad, ResetLoad, At, Sync, OnlySync, NoPlanChange
  <2>2. z.pc \notin {"idle", "cacheAnchor"}
    BY <2>1 DEF RenewalOrCaps
  <2>3. AnchorInv(s)'
    BY <1>1, <2>1, <2>2, RenewTypes DEF RenewInv, AnchorInv
  <2>4. meta.plan = "FREE" => z.pc = RenewalOrCaps(s)
    BY <2>1 DEF PeriodOf
  <2>5. PlanFollows(s) => PlanFollows(s)'
    BY <2>1, <2>4 DEF PlanFollows, RenewalOrCaps
  <2>6. PlanFollows(s) /\ WipeInv(s) => WipeInv(s)'
    BY <2>1, <2>4 DEF PlanFollows, WipeInv, Written, RenewalOrCaps
  <2> QED
    BY <1>2, <2>3, <2>5, <2>6 DEF RenewInv
<1>8. CASE UpgradeZero(s)
  <2>1. /\ z = [y EXCEPT !.pc = RenewalOrCaps(s)] /\ y.pc = "upZero"
        /\ UNCHANGED lastAnchor
    BY <1>8, RenewTypes DEF UpgradeZero, ResetZero, Goto, At
  <2>2. AnchorInv(s)'
    BY <1>1, <2>1, RenewTypes DEF RenewInv, AnchorInv, Sync, RenewalOrCaps
  <2>3. ~PlanFollows(s)
    BY <2>1 DEF PlanFollows
  <2> QED
    BY <1>2, <2>2, <2>3 DEF RenewInv
<1>9. CASE RenewalAnchor(s)
  <2>1. /\ z = [y EXCEPT !.pc = "reFlag"] /\ y.pc = "reAnchor" /\ meta'.plan = meta.plan
        /\ UNCHANGED <<lastPlan, lastAnchor, wiped>>
    BY <1>9, RenewTypes DEF RenewalAnchor, PutMeta, Goto, At, NoPlanChange, Meta
  <2>2. AnchorInv(s)'
    BY <1>1, <2>1, RenewTypes DEF RenewInv, AnchorInv, Sync
  <2>3. PlanFollows(s) => PlanFollows(s)'
    BY <2>1, RenewTypes DEF PlanFollows, Sync
  <2>4. WipeInv(s) => WipeInv(s)'
    BY <2>1, RenewTypes DEF WipeInv, Written, Sync
  <2> QED
    BY <1>2, <2>2, <2>3, <2>4 DEF RenewInv
<1>10. CASE RenewalFlag(s)
  <2>1. /\ z = [y EXCEPT !.pc = "reLoad"] /\ y.pc = "reFlag" /\ meta'.plan = meta.plan
        /\ meta'.noRefresh = FALSE /\ UNCHANGED <<lastPlan, lastAnchor, wiped>>
    BY <1>10, RenewTypes DEF RenewalFlag, PutMeta, Goto, At, NoPlanChange, Meta
  <2>2. AnchorInv(s)'
    BY <1>1, <2>1, RenewTypes DEF RenewInv, AnchorInv, Sync
  <2>3. PlanFollows(s) => PlanFollows(s)'
    BY <2>1, RenewTypes DEF PlanFollows, Sync
  <2>4. WipeInv(s) => WipeInv(s)'
    BY <2>1, RenewTypes DEF WipeInv, Written, Sync
  <2> QED
    BY <1>2, <2>2, <2>3, <2>4 DEF RenewInv
<1>11. CASE RenewalLoad(s)
  <2>1. /\ z.anchor = y.anchor /\ z.renew = y.renew /\ z.plan = y.plan
        /\ z.pc = (IF PeriodOf(meta, now) = Infinite THEN "caps" ELSE "reZero")
        /\ y.pc = "reLoad" /\ UNCHANGED <<meta, lastPlan, lastAnchor, wiped>>
    BY <1>11, RenewTypes DEF RenewalLoad, ResetLoad, At, Sync, OnlySync, NoPlanChange
  <2>2. AnchorInv(s)'
    BY <1>1, <2>1, RenewTypes DEF RenewInv, AnchorInv
  <2>3. PlanFollows(s) => PlanFollows(s)'
    BY <2>1 DEF PlanFollows
  <2>4. meta.plan = "PRO" /\ ~meta.noRefresh => z.pc = "reZero"
    BY <2>1, RenewTypes, PaidPeriod DEF PlanInv, PlanTypeOK, TypeOK
  <2>5. WipeInv(s) => WipeInv(s)'
    BY <2>1, <2>4 DEF WipeInv, Written
  <2> QED
    BY <1>2, <2>2, <2>3, <2>5 DEF RenewInv
<1>12. CASE RenewalZero(s)
  <2>1. /\ z = [y EXCEPT !.pc = "caps"] /\ y.pc = "reZero"
        /\ UNCHANGED <<meta, lastPlan, lastAnchor>>
        /\ wiped' = [wiped EXCEPT ![y.anchor] = IF @ = 2 THEN 2 ELSE @ + 1]
    BY <1>12, RenewTypes DEF RenewalZero, ResetZero, Goto, At
  <2>2. AnchorInv(s)'
    BY <1>1, <2>1, RenewTypes DEF RenewInv, AnchorInv, Sync
  <2>3. PlanFollows(s) => PlanFollows(s)'
    BY <2>1, RenewTypes DEF PlanFollows, Sync
  <2>4. ASSUME WipeInv(s) PROVE WipeInv(s)'
    <3>1. y.renew /\ y.anchor > lastAnchor
      BY <2>1, <2>4 DEF WipeInv, RenewInv, AnchorInv
    <3>2. wiped[y.anchor] = 0
      BY <2>1, <2>4, <3>1, RenewTypes DEF WipeInv, Written
    <3>3. wiped'[y.anchor] = 1 /\ \A a \in Times \ {y.anchor} : wiped'[a] = wiped[a]
      BY <2>1, <3>2, RenewTypes
    <3>4. z.pc = "caps" /\ z.renew /\ z.anchor = y.anchor
      BY <2>1, <3>1, RenewTypes DEF Sync
    <3> QED
      BY <2>1, <2>4, <3>1, <3>3, <3>4, RenewTypes DEF WipeInv, Written
  <2> QED
    BY <1>2, <2>2, <2>3, <2>4 DEF RenewInv
<1>13. CASE SetCaps(s)
  <2>1. /\ z = [y EXCEPT !.pc = "plan"] /\ y.pc = "caps" /\ meta'.plan = meta.plan
        /\ UNCHANGED <<lastPlan, lastAnchor, wiped>>
    BY <1>13, RenewTypes DEF SetCaps, PutMeta, Goto, At, NoPlanChange, Meta
  <2>2. AnchorInv(s)'
    BY <1>1, <2>1, RenewTypes DEF RenewInv, AnchorInv, Sync
  <2>3. PlanFollows(s) => PlanFollows(s)'
    BY <2>1, RenewTypes DEF PlanFollows, Sync
  <2>4. WipeInv(s) => WipeInv(s)'
    BY <2>1, RenewTypes DEF WipeInv, Written, Sync
  <2> QED
    BY <1>2, <2>2, <2>3, <2>4 DEF RenewInv
<1>14. CASE SetPlan(s)
  <2>1. /\ z = [y EXCEPT !.pc = IF y.plan = "PRO" THEN "flag" ELSE "cachePlan"]
        /\ y.pc = "plan" /\ meta'.plan = y.plan
        /\ UNCHANGED <<lastPlan, lastAnchor, wiped>>
    BY <1>14, RenewTypes DEF SetPlan, PutMeta, Goto, At, NoPlanChange, Meta
  <2>2. AnchorInv(s)'
    BY <1>1, <2>1, RenewTypes DEF RenewInv, AnchorInv, Sync
  <2>3. y.plan \in {"FREE", "PRO"}
    BY RenewTypes DEF Sync, Plans
  <2>4. PlanFollows(s) => PlanFollows(s)'
    BY <2>1, <2>3, RenewTypes DEF PlanFollows, Sync
  <2>5. WipeInv(s) => WipeInv(s)'
    BY <2>1, RenewTypes DEF WipeInv, Written, Sync
  <2> QED
    BY <1>2, <2>2, <2>4, <2>5 DEF RenewInv
<1>15. CASE ClearFlag(s)
  <2>1. /\ z = [y EXCEPT !.pc = IF y.anchor > 0 /\ ~y.renew THEN "anchor" ELSE "cachePlan"]
        /\ y.pc = "flag" /\ meta'.plan = meta.plan
        /\ UNCHANGED <<lastPlan, lastAnchor, wiped>>
    BY <1>15, RenewTypes DEF ClearFlag, PutMeta, Goto, At, NoPlanChange, Meta
  <2>2. AnchorInv(s)'
    BY <1>1, <2>1, RenewTypes DEF RenewInv, AnchorInv, Sync
  <2>4. PlanFollows(s) => PlanFollows(s)'
    BY <2>1, RenewTypes DEF PlanFollows, Sync
  <2>5. WipeInv(s) => WipeInv(s)'
    BY <2>1, RenewTypes DEF WipeInv, Written, Sync
  <2> QED
    BY <1>2, <2>2, <2>4, <2>5 DEF RenewInv
<1>16. CASE SetAnchor(s)
  <2>1. /\ z = [y EXCEPT !.pc = "cachePlan"]
        /\ y.pc = "anchor" /\ meta'.plan = meta.plan
        /\ UNCHANGED <<lastPlan, lastAnchor, wiped>>
    BY <1>16, RenewTypes DEF SetAnchor, PutMeta, Goto, At, NoPlanChange, Meta
  <2>2. AnchorInv(s)'
    BY <1>1, <2>1, RenewTypes DEF RenewInv, AnchorInv, Sync
  <2>4. PlanFollows(s) => PlanFollows(s)'
    BY <2>1, RenewTypes DEF PlanFollows, Sync
  <2>5. WipeInv(s) => WipeInv(s)'
    BY <2>1, RenewTypes DEF WipeInv, Written, Sync
  <2> QED
    BY <1>2, <2>2, <2>4, <2>5 DEF RenewInv
<1>17. CASE CachePlan(s)
  <2>1. /\ y.pc = "cachePlan" /\ lastPlan' = y.plan /\ UNCHANGED <<meta, lastAnchor, wiped>>
        /\ z = (IF y.anchor > 0 THEN [y EXCEPT !.pc = "cacheAnchor"] ELSE IdleSync)
    BY <1>17, RenewTypes DEF CachePlan, Goto, Finish, At
  <2>2. AnchorInv(s)'
    BY <1>1, <2>1, RenewTypes DEF RenewInv, AnchorInv, Sync, IdleSync
  <2>4. PlanFollows(s) => PlanFollows(s)'
    BY <2>1, RenewTypes DEF PlanFollows, Sync, IdleSync
  <2>5. WipeInv(s) => WipeInv(s)'
    <3>1. CASE y.anchor > 0
      BY <2>1, <3>1, RenewTypes DEF WipeInv, Written, Sync
    <3>2. CASE ~(y.anchor > 0)
      BY <2>1, <3>2, RenewTypes DEF WipeInv, Written, Sync, IdleSync, RenewInv, AnchorInv
    <3> QED
      BY <3>1, <3>2
  <2> QED
    BY <1>2, <2>2, <2>4, <2>5 DEF RenewInv
<1>18. CASE CacheAnchor(s)
  <2>1. /\ y.pc = "cacheAnchor" /\ lastAnchor' = y.anchor /\ UNCHANGED <<meta, lastPlan, wiped>>
        /\ z = IdleSync
    BY <1>18, RenewTypes DEF CacheAnchor, Finish, At
  <2>2. AnchorInv(s)'
    BY <1>1, <2>1, RenewTypes DEF RenewInv, AnchorInv, Sync, IdleSync
  <2>4. PlanFollows(s) => PlanFollows(s)'
    BY <2>1, RenewTypes DEF PlanFollows, Sync, IdleSync
  <2>5. lastAnchor <= y.anchor
    BY <2>1 DEF RenewInv, AnchorInv
  <2>6. PlanFollows(s) /\ WipeInv(s) => WipeInv(s)'
    BY <2>1, <2>5, RenewTypes DEF WipeInv, Written, Sync, IdleSync
  <2> QED
    BY <1>2, <2>2, <2>4, <2>6 DEF RenewInv
<1> QED
  BY <1>3, <1>4, <1>5, <1>6, <1>7, <1>8, <1>9, <1>10, <1>11, <1>12, <1>13, <1>14,
     <1>15, <1>16, <1>17, <1>18 DEF SyncStep

\* When one refresh runs at a time, a renewal has wiped the new period exactly
\* once by the time it writes the caps: the cached anchor keeps the next refresh
\* from wiping it again.
THEOREM RenewalWipes ==
    ASSUME NEW CONSTANT s, Syncers = {s}
    PROVE  SyncSpec => []RenewalWipesOnce
<1>1. SyncInit => RenewInv(s)
  <2> SUFFICES ASSUME SyncInit PROVE RenewInv(s)
    OBVIOUS
  <2>1. sync[s] = IdleSync /\ s \in Syncers
    BY DEF SyncInit
  <2>2. AnchorInv(s)
    BY <2>1 DEF SyncInit, AnchorInv, IdleSync
  <2>3. PlanFollows(s)
    BY <2>1 DEF SyncInit, PlanFollows, IdleSync, None
  <2>4. WipeInv(s)
    BY <2>1 DEF SyncInit, WipeInv, IdleSync
  <2> QED
    BY <2>2, <2>3, <2>4 DEF RenewInv
<1>2. PlanInv /\ RenewInv(s) /\ [SyncNext]_vars => RenewInv(s)'
  <2> SUFFICES ASSUME PlanInv, RenewInv(s), [SyncNext]_vars PROVE RenewInv(s)'
    OBVIOUS
  <2>1. CASE UNCHANGED vars
    BY <2>1 DEF vars, RenewInv, AnchorInv, Clean, PlanFollows, WipeInv
  <2>2. ASSUME NEW t \in Syncers, SyncStep(t) \/ SyncFault(t) PROVE RenewInv(s)'
    BY <2>2, RenewOverStep, RenewOverFault
  <2> QED
    BY <2>1, <2>2, RenewOverEnvironment, RenewOverQuota DEF SyncNext
<1>3. PlanInv /\ RenewInv(s) => RenewalWipesOnce
  BY DEF RenewInv, Clean, WipeInv, RenewalWipesOnce, At
<1> QED
  BY <1>1, <1>2, <1>3, PlanInvariant, PTL DEF SyncSpec

--------------------------------------------------------------------------------
(* Sums over finite sets.  The library's induction theorems take an operator; the existence of a   *)
(* least element (WFMin) does not, and gives induction for a set of naturals.                      *)

\* A set of naturals that has 0 and the successor of each of its members has all of them.
LEMMA NatSets ==
    ASSUME NEW T, T \subseteq Nat, 0 \in T, \A n \in T : n + 1 \in T
    PROVE  T = Nat
<1> SUFFICES ASSUME Nat \ T # {} PROVE FALSE
  OBVIOUS
<1>1. PICK m \in Nat \ T : \A n \in Nat \ T : ~(<<n, m>> \in OpToRel(<, Nat))
  BY NatLessThanWellFounded, WFMin
<1>2. m - 1 \in Nat /\ m - 1 < m
  OBVIOUS
<1>3. m - 1 \in T
  BY <1>1, <1>2 DEF OpToRel
<1> QED
  BY <1>2, <1>3

AnyOf(s) == CHOOSE x \in s : TRUE

SumStep(f, g, s) == IF s = {} THEN 0 ELSE f[AnyOf(s)] + g[s \ {AnyOf(s)}]

\* g adds f over each subset of S.
Adds(g, f, S) == g = [s \in SUBSET S |-> SumStep(f, g, s)]

LEMMA AnyOfIn == \A s : s # {} => AnyOf(s) \in s
BY DEF AnyOf

\* Of a subset, one element less.
LEMMA OneLess ==
    ASSUME NEW S, IsFiniteSet(S), NEW s \in SUBSET S, NEW x \in s
    PROVE  /\ IsFiniteSet(s) /\ Cardinality(s) \in Nat /\ Cardinality(s) > 0
           /\ s \ {x} \in SUBSET S /\ Cardinality(s \ {x}) = Cardinality(s) - 1
<1>1. IsFiniteSet(s) /\ Cardinality(s) \in Nat
  BY FS_Subset, FS_CardinalityType
<1>2. Cardinality(s) # 0 /\ Cardinality(s \ {x}) = Cardinality(s) - 1
  BY <1>1, FS_EmptySet, FS_RemoveElement
<1> QED
  BY <1>1, <1>2

LEMMA SumExists ==
    ASSUME NEW S, IsFiniteSet(S), NEW f
    PROVE  \E g : Adds(g, f, S)
<1> DEFINE Small(n) == {s \in SUBSET S : Cardinality(s) <= n}
           Good(n, g) == g = [s \in Small(n) |-> SumStep(f, g, s)]
           T == {n \in Nat : \E g : Good(n, g)}
<1>1. 0 \in T
  <2> DEFINE g == [s \in Small(0) |-> 0]
  <2>1. \A s \in Small(0) : s = {}
    BY FS_Subset, FS_EmptySet, FS_CardinalityType
  <2>2. Good(0, g)
    BY <2>1 DEF SumStep
  <2> QED
    BY <2>2
<1>2. ASSUME NEW n \in T PROVE n + 1 \in T
  <2>1. PICK g : Good(n, g)
    OBVIOUS
  <2> DEFINE h == [s \in Small(n + 1) |-> SumStep(f, g, s)]
  <2>2. \A s \in Small(n) : s \in Small(n + 1) /\ h[s] = g[s]
    BY <2>1, FS_Subset, FS_CardinalityType
  <2>3. ASSUME NEW s \in Small(n + 1) PROVE SumStep(f, g, s) = SumStep(f, h, s)
    <3>1. CASE s = {}
      BY <3>1 DEF SumStep
    <3>2. CASE s # {}
      <4>1. s \ {AnyOf(s)} \in Small(n)
        BY <3>2, AnyOfIn, OneLess
      <4>2. g[s \ {AnyOf(s)}] = h[s \ {AnyOf(s)}]
        BY <2>2, <4>1
      <4> QED
        BY <3>2, <4>2 DEF SumStep
    <3> QED
      BY <3>1, <3>2
  <2>4. Good(n + 1, h)
    BY <2>3
  <2>5. \E k : Good(n + 1, k)
    BY <2>4, Zenon
  <2>6. n + 1 \in Nat
    OBVIOUS
  <2> QED
    BY <2>5, <2>6
<1>3. T = Nat
  <2> HIDE DEF T
  <2>1. T \subseteq Nat
    BY DEF T
  <2> QED
    BY <1>1, <1>2, <2>1, NatSets
<1>4. Cardinality(S) \in Nat /\ Small(Cardinality(S)) = SUBSET S
  BY FS_Subset, FS_CardinalityType
<1>5. Cardinality(S) \in T
  BY <1>3, <1>4
<1>6. PICK g : Good(Cardinality(S), g)
  BY <1>5
<1>7. g = [s \in SUBSET S |-> SumStep(f, g, s)]
  BY <1>4, <1>6
<1> QED
  BY <1>7 DEF Adds

\* What a sum is does not depend on the set it is part of, nor on other values of the function.
LEMMA SumAgrees ==
    ASSUME NEW S, IsFiniteSet(S), NEW R, NEW f, NEW h, NEW g, NEW k, Adds(g, f, S), Adds(k, h, R),
           NEW s \in SUBSET S, s \subseteq R, \A x \in s : f[x] = h[x]
    PROVE  g[s] = k[s]
<1> DEFINE T == {n \in Nat : \A t \in SUBSET s : Cardinality(t) = n => g[t] = k[t]}
<1>1. \A t \in SUBSET s : g[t] = SumStep(f, g, t) /\ k[t] = SumStep(h, k, t)
  BY DEF Adds
<1>2. 0 \in T
  <2>1. \A t \in SUBSET s : Cardinality(t) = 0 => t = {}
    BY FS_Subset, FS_EmptySet
  <2> QED
    BY <1>1, <2>1 DEF SumStep
<1>3. ASSUME NEW n \in T PROVE n + 1 \in T
  <2> SUFFICES ASSUME NEW t \in SUBSET s, Cardinality(t) = n + 1 PROVE g[t] = k[t]
    OBVIOUS
  <2>1. t # {}
    BY FS_EmptySet
  <2>2. /\ AnyOf(t) \in t /\ t \ {AnyOf(t)} \in SUBSET s
        /\ Cardinality(t \ {AnyOf(t)}) = n
    BY <2>1, AnyOfIn, OneLess
  <2>3. g[t \ {AnyOf(t)}] = k[t \ {AnyOf(t)}] /\ f[AnyOf(t)] = h[AnyOf(t)]
    BY <2>2
  <2> QED
    BY <1>1, <2>1, <2>3 DEF SumStep
<1>4. T = Nat
  <2> HIDE DEF T
  <2>1. T \subseteq Nat
    BY DEF T
  <2> QED
    BY <1>2, <1>3, <2>1, NatSets
<1>5. Cardinality(s) \in Nat
  BY FS_Subset, FS_CardinalityType
<1> QED
  BY <1>4, <1>5

LEMMA SumIs ==
    ASSUME NEW S, IsFiniteSet(S), NEW f
    PROVE  \E g : Adds(g, f, S) /\ SumFunctionOnSet(f, S) = g[S]
<1> DEFINE G == CHOOSE g : Adds(g, f, S)
<1>1. Adds(G, f, S)
  BY SumExists
<1>2. SumFunctionOnSet(f, S) = G[S]
  BY DEF SumFunctionOnSet, FoldFunctionOnSet, MapThenFoldSet, Adds, SumStep, AnyOf
<1> QED
  BY <1>1, <1>2

\* An empty sum is zero; a sum is one of its terms and the sum of the others.
LEMMA SumFacts ==
    ASSUME NEW S, IsFiniteSet(S), NEW f, \A x \in S : f[x] \in Nat
    PROVE  /\ SumFunctionOnSet(f, S) \in Nat
           /\ S = {} => SumFunctionOnSet(f, S) = 0
           /\ \A x \in S : SumFunctionOnSet(f, S) = f[x] + SumFunctionOnSet(f, S \ {x})
<1>1. PICK g : Adds(g, f, S) /\ SumFunctionOnSet(f, S) = g[S]
  BY SumIs
<1>2. \A s \in SUBSET S : g[s] = SumStep(f, g, s)
  BY <1>1 DEF Adds
<1> DEFINE Nice(s) == g[s] \in Nat /\ \A x \in s : g[s] = f[x] + g[s \ {x}]
           T == {n \in Nat : \A s \in SUBSET S : Cardinality(s) <= n => Nice(s)}
<1>3. Nice({})
  <2>1. g[{}] = 0
    BY <1>2 DEF SumStep
  <2>2. \A x \in {} : g[{}] = f[x] + g[{} \ {x}]
    BY Zenon
  <2> QED
    BY <2>1, <2>2
<1>4. 0 \in T
  <2>1. \A s \in SUBSET S : Cardinality(s) <= 0 => s = {}
    BY FS_Subset, FS_EmptySet, FS_CardinalityType
  <2> QED
    BY <1>3, <2>1
<1>5. ASSUME NEW n \in T PROVE n + 1 \in T
  <2> SUFFICES ASSUME NEW s \in SUBSET S, Cardinality(s) <= n + 1, s # {} PROVE Nice(s)
    <3> HIDE DEF Nice
    <3> QED
      BY <1>3
  <2> DEFINE y == AnyOf(s)
  <2>1. y \in s /\ g[s] = f[y] + g[s \ {y}]
    BY <1>2, AnyOfIn DEF SumStep
  <2> HIDE DEF y
  <2>2. ASSUME NEW x \in s PROVE s \ {x} \in SUBSET S /\ Nice(s \ {x})
    <3>1. s \ {x} \in SUBSET S /\ Cardinality(s \ {x}) <= n
      BY OneLess
    <3> QED
      BY <3>1
  <2>3. g[s] \in Nat
    <3>1. f[y] \in Nat /\ g[s \ {y}] \in Nat
      BY <2>1, <2>2
    <3> QED
      BY <2>1, <3>1
  <2>4. ASSUME NEW x \in s, x # y PROVE g[s] = f[x] + g[s \ {x}]
    <3>1. g[s \ {y}] = f[x] + g[(s \ {y}) \ {x}] /\ g[s \ {x}] = f[y] + g[(s \ {x}) \ {y}]
      BY <2>1, <2>2, <2>4
    <3>2. g[(s \ {y}) \ {x}] = g[(s \ {x}) \ {y}]
      <4>1. (s \ {y}) \ {x} = (s \ {x}) \ {y}
        OBVIOUS
      <4> QED
        BY <4>1, Zenon
    <3>3. g[(s \ {x}) \ {y}] \in Nat
      <4>1. Cardinality((s \ {x}) \ {y}) <= n
        <5>1. Cardinality(s \ {x}) \in Nat /\ Cardinality(s \ {x}) <= n /\ y \in s \ {x}
          BY <2>1, <2>4, OneLess, FS_Subset, FS_CardinalityType
        <5> QED
          BY <2>2, <5>1, OneLess
      <4> QED
        BY <4>1
    <3>4. f[x] \in Nat /\ f[y] \in Nat
      BY <2>1
    <3> QED
      BY <2>1, <3>1, <3>2, <3>3, <3>4
  <2> QED
    BY <2>1, <2>3, <2>4
<1>6. T = Nat
  <2> HIDE DEF T
  <2>1. T \subseteq Nat
    BY DEF T
  <2> QED
    BY <1>4, <1>5, <2>1, NatSets
<1>7. \A s \in SUBSET S : Nice(s)
  <2> TAKE s \in SUBSET S
  <2>1. Cardinality(s) \in Nat /\ Cardinality(s) <= Cardinality(s)
    BY FS_Subset, FS_CardinalityType
  <2> HIDE DEF Nice
  <2> QED
    BY <1>6, <2>1
<1>8. \A x \in S : SumFunctionOnSet(f, S \ {x}) = g[S \ {x}]
  <2> TAKE x \in S
  <2>1. IsFiniteSet(S \ {x}) /\ S \ {x} \in SUBSET S
    BY FS_RemoveElement
  <2>2. PICK k : Adds(k, f, S \ {x}) /\ SumFunctionOnSet(f, S \ {x}) = k[S \ {x}]
    BY <2>1, SumIs
  <2> QED
    BY <1>1, <2>1, <2>2, SumAgrees
<1>9. S = {} => g[S] = 0
  BY <1>2 DEF SumStep
<1> QED
  BY <1>1, <1>7, <1>8, <1>9

\* Functions that agree on a set have the same sum over it.
LEMMA SumSame ==
    ASSUME NEW S, IsFiniteSet(S), NEW f, NEW h, \A x \in S : f[x] = h[x]
    PROVE  SumFunctionOnSet(f, S) = SumFunctionOnSet(h, S)
<1>1. PICK g : Adds(g, f, S) /\ SumFunctionOnSet(f, S) = g[S]
  BY SumIs
<1>2. PICK k : Adds(k, h, S) /\ SumFunctionOnSet(h, S) = k[S]
  BY SumIs
<1> QED
  BY <1>1, <1>2, SumAgrees

LEMMA SumBound ==
    ASSUME NEW S, IsFiniteSet(S), NEW b \in Nat, NEW f, \A x \in S : f[x] \in 0..b
    PROVE  SumFunctionOnSet(f, S) <= Cardinality(S) * b
<1> DEFINE T == {n \in Nat : \A s \in SUBSET S : Cardinality(s) = n => SumFunctionOnSet(f, s) <= n * b}
<1>1. \A s \in SUBSET S : IsFiniteSet(s) /\ Cardinality(s) \in Nat
  BY FS_Subset, FS_CardinalityType
<1>2. \A s \in SUBSET S : SumFunctionOnSet(f, s) \in Nat
  BY <1>1, SumFacts
<1>3. 0 \in T
  <2> SUFFICES ASSUME NEW s \in SUBSET S, Cardinality(s) = 0 PROVE SumFunctionOnSet(f, s) <= 0
    OBVIOUS
  <2>1. s = {}
    BY <1>1, FS_EmptySet
  <2> QED
    BY <1>1, <2>1, SumFacts
<1>4. ASSUME NEW n \in T PROVE n + 1 \in T
  <2> SUFFICES ASSUME NEW s \in SUBSET S, Cardinality(s) = n + 1
               PROVE  SumFunctionOnSet(f, s) <= (n + 1) * b
    OBVIOUS
  <2>1. PICK x \in s : TRUE
    BY FS_EmptySet
  <2>2. s \ {x} \in SUBSET S /\ Cardinality(s \ {x}) = n
    BY OneLess
  <2>3. SumFunctionOnSet(f, s) = f[x] + SumFunctionOnSet(f, s \ {x}) /\ f[x] \in 0..b
    BY <1>1, SumFacts
  <2>4. SumFunctionOnSet(f, s \ {x}) <= n * b /\ SumFunctionOnSet(f, s \ {x}) \in Nat
    BY <1>2, <2>2
  <2>5. n * b \in Nat /\ (n + 1) * b = n * b + b
    OBVIOUS
  <2> QED
    BY <2>3, <2>4, <2>5
<1>5. T = Nat
  <2> HIDE DEF T
  <2>1. T \subseteq Nat
    BY DEF T
  <2> QED
    BY <1>3, <1>4, <2>1, NatSets
<1> QED
  BY <1>1, <1>5

--------------------------------------------------------------------------------
(* The two fields that count uploads. *)

Recorded(p) == IF usage[p].ingest = Absent THEN 0 ELSE usage[p].ingest
Weight(r, p) == IF r.pc = "breakdown" /\ r.op = "upload" /\ r.period = p THEN r.amount ELSE 0
Overshoot(n) == (Cardinality(Chargers) - 1 + n) * LargestAmount

\* What was counted is recorded, on its way, or lost by a fault; a charge that passed the script
\* found the recorded part below the cap.
UploadInv ==
    \A p \in PeriodIds :
        /\ usage[p].unified <= Recorded(p) + Pending(p) + faults * LargestAmount
        /\ faults = 0 => usage[p].unified = Recorded(p) + Pending(p)
        /\ usage[p].unified <= LargestCap + Overshoot(faults)

LEMMA LargestAmountBounds ==
    /\ LargestAmount \in Nat
    /\ \A n \in Amounts \cup {0} : n \in 0..LargestAmount
<1>1. LargestAmount \in Amounts /\ \A n \in Amounts : n <= LargestAmount
  BY SizesAssumption DEF LargestAmount
<1> QED
  BY <1>1, QuotaAssumption

LEMMA NatTimes ==
    ASSUME NEW m \in Nat, NEW n \in Nat
    PROVE  m * n \in Nat /\ (m + 1) * n = m * n + n
OBVIOUS

LEMMA OvershootGrows ==
    ASSUME NEW n \in Nat, Cardinality(Chargers) > 0
    PROVE  Overshoot(n) \in Nat /\ Overshoot(n) <= Overshoot(n + 1)
<1> DEFINE k == Cardinality(Chargers) - 1 + n
<1>1. k \in Nat /\ LargestAmount \in Nat
  BY SizesAssumption, FS_CardinalityType, LargestAmountBounds
<1>2. Cardinality(Chargers) - 1 + (n + 1) = k + 1
  BY SizesAssumption, FS_CardinalityType
<1> HIDE DEF k
<1>3. k * LargestAmount \in Nat /\ (k + 1) * LargestAmount = k * LargestAmount + LargestAmount
  BY <1>1
<1>4. Overshoot(n) = k * LargestAmount
  BY DEF Overshoot, k
<1>5. Overshoot(n + 1) = (k + 1) * LargestAmount
  BY <1>2 DEF Overshoot
<1> QED
  BY <1>1, <1>3, <1>4, <1>5

LEMMA PendingIsNat ==
    ASSUME TypeOK, NEW p \in PeriodIds
    PROVE  Pending(p) \in Nat /\ Uploading(p) \subseteq Chargers /\ IsFiniteSet(Uploading(p))
<1>1. Uploading(p) \subseteq Chargers /\ IsFiniteSet(Uploading(p))
  BY SizesAssumption, FS_Subset DEF Uploading
<1>2. \A c \in Uploading(p) : [d \in Chargers |-> charge[d].amount][c] \in Nat
  BY <1>1, AmountFacts DEF TypeOK, Charge
<1> QED
  BY <1>1, <1>2, SumFacts DEF Pending

\* A request's step changes what is on its way by what that request had and has in it.
LEMMA PendingMoves ==
    ASSUME TypeOK, NEW c \in Chargers, NEW r \in Charge, charge' = [charge EXCEPT ![c] = r],
           NEW p \in PeriodIds
    PROVE  /\ Pending(p) \in Nat /\ Pending(p)' \in Nat
           /\ Pending(p)' + Weight(charge[c], p) = Pending(p) + Weight(r, p)
<1> DEFINE f == [d \in Chargers |-> charge[d].amount]
           h == [d \in Chargers |-> charge'[d].amount]
           S == Uploading(p)
           R == Uploading(p)'
<1>1. charge \in [Chargers -> Charge] /\ charge' \in [Chargers -> Charge]
  BY DEF TypeOK
<1>2. /\ S \subseteq Chargers /\ IsFiniteSet(S) /\ R \subseteq Chargers /\ IsFiniteSet(R)
  BY SizesAssumption, FS_Subset DEF Uploading
<1>3. \A d \in Chargers : f[d] \in Nat /\ h[d] \in Nat /\ (d # c => f[d] = h[d])
  BY <1>1, AmountFacts DEF Charge
<1>4. S \ {c} = R \ {c}
  BY <1>1 DEF Uploading
<1>5. SumFunctionOnSet(f, S \ {c}) = SumFunctionOnSet(h, R \ {c}) /\ SumFunctionOnSet(f, S \ {c}) \in Nat
  <2> HIDE DEF f, h, S, R
  <2>1. IsFiniteSet(S \ {c}) /\ \A d \in S \ {c} : f[d] = h[d] /\ f[d] \in Nat
    BY <1>2, <1>3, FS_RemoveElement
  <2>2. SumFunctionOnSet(f, S \ {c}) = SumFunctionOnSet(h, S \ {c})
    BY <2>1, SumSame
  <2>3. SumFunctionOnSet(f, S \ {c}) \in Nat
    BY <2>1, SumFacts
  <2> QED
    BY <1>4, <2>2, <2>3, Zenon
<1>6. Pending(p) = SumFunctionOnSet(f, S) /\ Pending(p)' = SumFunctionOnSet(h, R)
  BY DEF Pending
<1>7. Pending(p) = SumFunctionOnSet(f, S \ {c}) + Weight(charge[c], p)
  <2>1. c \in S <=> charge[c].pc = "breakdown" /\ charge[c].op = "upload" /\ charge[c].period = p
    BY DEF Uploading
  <2>2. f[c] = charge[c].amount
    OBVIOUS
  <2> HIDE DEF f, h, S, R
  <2>3. CASE c \in S
    BY <1>2, <1>3, <1>5, <1>6, <2>1, <2>2, <2>3, SumFacts DEF Weight
  <2>4. CASE c \notin S
    <3>1. S \ {c} = S
      BY <2>4
    <3>2. SumFunctionOnSet(f, S \ {c}) = SumFunctionOnSet(f, S)
      BY <3>1, Zenon
    <3>3. Weight(charge[c], p) = 0
      BY <2>1, <2>4 DEF Weight
    <3> QED
      BY <1>5, <1>6, <3>2, <3>3
  <2> QED
    BY <2>3, <2>4
<1>8. Pending(p)' = SumFunctionOnSet(h, R \ {c}) + Weight(r, p)
  <2>1. c \in R <=> r.pc = "breakdown" /\ r.op = "upload" /\ r.period = p
    BY <1>1 DEF Uploading
  <2>2. h[c] = r.amount
    BY <1>1
  <2> HIDE DEF f, h, S, R
  <2>3. CASE c \in R
    <3>1. \A d \in R : h[d] \in Nat
      BY <1>2, <1>3
    <3>2. SumFunctionOnSet(h, R) = h[c] + SumFunctionOnSet(h, R \ {c})
      BY <1>2, <2>3, <3>1, SumFacts
    <3>3. h[c] = Weight(r, p) /\ h[c] \in Nat /\ SumFunctionOnSet(h, R \ {c}) \in Nat
      BY <1>3, <1>5, <2>1, <2>2, <2>3 DEF Weight
    <3> QED
      BY <1>6, <3>2, <3>3
  <2>4. CASE c \notin R
    <3>1. R \ {c} = R
      BY <2>4
    <3>2. SumFunctionOnSet(h, R \ {c}) = SumFunctionOnSet(h, R)
      BY <3>1, Zenon
    <3>3. Weight(r, p) = 0
      BY <2>1, <2>4 DEF Weight
    <3>4. SumFunctionOnSet(h, R \ {c}) \in Nat
      BY <1>5
    <3> QED
      BY <1>6, <3>2, <3>3, <3>4
  <2> QED
    BY <2>3, <2>4
<1>9. Weight(charge[c], p) \in Nat /\ Weight(r, p) \in Nat
  BY <1>1, AmountFacts DEF Weight, Charge
<1> HIDE DEF f, h, S, R
<1> QED
  BY <1>5, <1>7, <1>8, <1>9

\* The invariant at one period, from what a step adds to the field that is compared, to the one
\* that is incremented, and to what is on its way.
LEMMA UploadStep ==
    ASSUME TypeOK, TypeOK', UploadInv, NEW c \in Chargers, NEW r \in Charge,
           charge' = [charge EXCEPT ![c] = r], NEW p \in PeriodIds,
           \/ faults' = faults
           \/ faults' = faults + 1,
           usage'[p].unified + Recorded(p) + Weight(charge[c], p)
              <= usage[p].unified + Recorded(p)' + Weight(r, p) + (faults' - faults) * LargestAmount,
           faults' = 0 => usage'[p].unified + Recorded(p) + Weight(charge[c], p)
                             = usage[p].unified + Recorded(p)' + Weight(r, p),
           \/ usage'[p].unified = usage[p].unified
           \/ usage'[p].unified <= LargestCap + Overshoot(faults')
    PROVE  /\ usage'[p].unified <= Recorded(p)' + Pending(p)' + faults' * LargestAmount
           /\ faults' = 0 => usage'[p].unified = Recorded(p)' + Pending(p)'
           /\ usage'[p].unified <= LargestCap + Overshoot(faults')
<1> DEFINE u == usage[p].unified
           v == usage'[p].unified
           a == Recorded(p)
           b == Recorded(p)'
           x == Weight(charge[c], p)
           y == Weight(r, p)
           l == LargestAmount
           s == Pending(p)
           t == Pending(p)'
<1>1. usage \in [PeriodIds -> Usage] /\ usage' \in [PeriodIds -> Usage] /\ charge \in [Chargers -> Charge]
  BY DEF TypeOK
<1>2. u \in Nat /\ v \in Nat /\ a \in Nat /\ b \in Nat
  <2>1. usage[p] \in Usage /\ usage'[p] \in Usage
    BY <1>1
  <2> QED
    BY <2>1 DEF Usage, Recorded
<1>3. x \in Nat /\ y \in Nat
  BY <1>1, AmountFacts DEF Weight, Charge
<1>4. l \in Nat /\ faults \in Nat /\ faults' \in Nat
  BY LargestAmountBounds, QuotaAssumption DEF TypeOK
<1>5. s \in Nat /\ t \in Nat /\ t + x = s + y
  BY PendingMoves
<1>6. u <= a + s + faults * l /\ (faults = 0 => u = a + s) /\ u <= LargestCap + Overshoot(faults)
  BY DEF UploadInv
<1>7. Overshoot(faults) \in Nat /\ Overshoot(faults') \in Nat /\ Overshoot(faults) <= Overshoot(faults')
  <2>1. Cardinality(Chargers) > 0
    BY SizesAssumption, FS_CardinalityType, FS_EmptySet
  <2> QED
    BY <1>4, <2>1, OvershootGrows
<1>8. LargestCap \in Nat
  BY LargestCapBounds
<1> HIDE DEF u, v, a, b, x, y, l, s, t
<1>9. v + a + x <= u + b + y + (faults' - faults) * l
  BY DEF u, v, a, b, x, y, l
<1>10. v <= b + t + faults' * l
  <2>0. faults * l \in Nat /\ (faults + 1) * l = faults * l + l
    BY <1>4, NatTimes
  <2>1. CASE faults' = faults
    <3>1. (faults' - faults) * l = 0
      BY <1>4, <2>1
    <3>2. v + a + x <= u + b + y
      BY <1>2, <1>3, <1>9, <3>1
    <3>3. u <= a + s + faults' * l
      BY <1>6, <2>1
    <3>4. faults' * l \in Nat
      BY <2>0, <2>1
    <3> QED
      BY <1>2, <1>3, <1>5, <3>2, <3>3, <3>4
  <2>2. CASE faults' = faults + 1
    <3>1. (faults' - faults) * l = l /\ faults' * l = faults * l + l
      BY <1>4, <2>0, <2>2
    <3>2. v + a + x <= u + b + y + l
      BY <1>9, <3>1
    <3>3. v <= b + t + (faults * l + l)
      BY <1>2, <1>3, <1>4, <1>5, <1>6, <2>0, <3>2
    <3> QED
      BY <3>1, <3>3
  <2> QED
    BY <2>1, <2>2
<1>11. faults' = 0 => v = b + t
  <2> SUFFICES ASSUME faults' = 0 PROVE v = b + t
    OBVIOUS
  <2>1. faults = 0
    BY <1>4
  <2>2. v + a + x = u + b + y
    BY DEF u, v, a, b, x, y
  <2> QED
    BY <1>2, <1>3, <1>5, <1>6, <2>1, <2>2
<1>12. v <= LargestCap + Overshoot(faults')
  <2>1. v = u \/ v <= LargestCap + Overshoot(faults')
    BY DEF u, v
  <2> QED
    BY <1>2, <1>6, <1>7, <1>8, <2>1
<1> QED
  BY <1>10, <1>11, <1>12 DEF v, b, t, l

LEMMA WeightBound ==
    ASSUME NEW r \in Charge, NEW p
    PROVE  /\ Weight(r, p) \in 0..LargestAmount
           /\ r.pc # "breakdown" \/ r.op # "upload" => Weight(r, p) = 0
<1>1. r.amount \in 0..LargestAmount /\ LargestAmount \in Nat
  BY LargestAmountBounds DEF Charge
<1> QED
  BY <1>1 DEF Weight

\* A step that leaves both fields alone: what is on its way stays, or a fault is counted.
LEMMA UploadSilent ==
    ASSUME TypeOK, TypeOK', UploadInv, NEW c \in Chargers, charge' = [charge EXCEPT ![c] = charge'[c]],
           \A p \in PeriodIds : usage'[p].unified = usage[p].unified /\ usage'[p].ingest = usage[p].ingest,
           \/ faults' = faults /\ \A p \in PeriodIds : Weight(charge[c], p) = Weight(charge'[c], p)
           \/ faults' = faults + 1
    PROVE  UploadInv'
<1> SUFFICES ASSUME NEW p \in PeriodIds
             PROVE  /\ usage'[p].unified <= Recorded(p)' + Pending(p)' + faults' * LargestAmount
                    /\ faults' = 0 => usage'[p].unified = Recorded(p)' + Pending(p)'
                    /\ usage'[p].unified <= LargestCap + Overshoot(faults')
  BY DEF UploadInv, Overshoot
<1>1. charge[c] \in Charge /\ charge'[c] \in Charge
  BY DEF TypeOK
<1>2. Weight(charge[c], p) \in 0..LargestAmount /\ Weight(charge'[c], p) \in 0..LargestAmount
  BY <1>1, WeightBound
<1>3. LargestAmount \in Nat /\ faults \in Nat
  BY LargestAmountBounds, QuotaAssumption DEF TypeOK
<1>4. Recorded(p)' = Recorded(p) /\ Recorded(p) \in Nat /\ usage[p].unified \in Nat
      /\ usage'[p].unified = usage[p].unified
  <2>1. usage[p] \in Usage
    BY DEF TypeOK
  <2> QED
    BY <2>1 DEF Recorded, Usage
<1>5. /\ usage'[p].unified + Recorded(p) + Weight(charge[c], p)
           <= usage[p].unified + Recorded(p)' + Weight(charge'[c], p) + (faults' - faults) * LargestAmount
      /\ faults' = 0 => usage'[p].unified + Recorded(p) + Weight(charge[c], p)
                          = usage[p].unified + Recorded(p)' + Weight(charge'[c], p)
  <2>1. CASE faults' = faults /\ Weight(charge[c], p) = Weight(charge'[c], p)
    <3>1. (faults' - faults) * LargestAmount = 0
      BY <1>3, <2>1
    <3> QED
      BY <1>2, <1>4, <2>1, <3>1
  <2>2. CASE faults' = faults + 1
    <3>1. (faults' - faults) * LargestAmount = LargestAmount /\ faults' # 0
      BY <1>3, <2>2
    <3> QED
      BY <1>2, <1>3, <1>4, <3>1
  <2> QED
    BY <2>1, <2>2
<1>6. faults' = faults \/ faults' = faults + 1
  OBVIOUS
<1> QED
  BY <1>1, <1>4, <1>5, <1>6, UploadStep

\* The script of an upload: it found what it compares below the cap.
LEMMA UploadAdds ==
    ASSUME TypeOK, TypeOK', UploadInv, NEW c \in Chargers, CheckAndAddFileProcessing(c)
    PROVE  UploadInv'
<1> DEFINE r == charge[c]
           q == r.period
           a == r.amount
<1>1. /\ r \in Charge /\ charge'[c] \in Charge /\ q \in PeriodIds /\ a \in Nat /\ r.cap \in Nat
      /\ r.cap <= LargestCap /\ LargestCap \in Nat /\ LargestAmount \in Nat /\ faults \in Nat
  <2>1. r \in Charge /\ charge'[c] \in Charge /\ faults \in Nat
    BY QuotaAssumption DEF TypeOK
  <2>2. q \in PeriodIds /\ a \in Nat /\ r.cap \in Caps
    BY <2>1, AmountFacts DEF Charge
  <2> QED
    BY <2>1, <2>2, CapFacts, LargestCapBounds, LargestAmountBounds
<1>2. charge' = [charge EXCEPT ![c] = charge'[c]] /\ faults' = faults /\ r.pc = "eval" /\ r.op = "upload"
  BY DEF CheckAndAddFileProcessing, Admitted, SetCharge, TypeOK
<1>3. CASE UNCHANGED usage /\ SetCharge(c, IdleCharge)
  <2>1. \A p \in PeriodIds : Weight(r, p) = 0 /\ Weight(charge'[c], p) = 0
    BY <1>1, <1>2, <1>3 DEF Weight, SetCharge, IdleCharge, TypeOK
  <2> QED
    BY <1>2, <1>3, <2>1, UploadSilent
<1>4. CASE /\ Fits(c, FileProcessingUsed(usage[q]))
           /\ usage' = [usage EXCEPT ![q].unified = @ + a]
           /\ Admitted(c)
  <2> SUFFICES ASSUME NEW p \in PeriodIds
               PROVE  /\ usage'[p].unified <= Recorded(p)' + Pending(p)' + faults' * LargestAmount
                      /\ faults' = 0 => usage'[p].unified = Recorded(p)' + Pending(p)'
                      /\ usage'[p].unified <= LargestCap + Overshoot(faults')
    BY DEF UploadInv, Overshoot
  <2>1. usage \in [PeriodIds -> Usage] /\ usage[p] \in Usage /\ usage[p].unified \in Nat
        /\ Recorded(p) \in Nat
    <3>1. usage \in [PeriodIds -> Usage] /\ usage[p] \in Usage
      BY DEF TypeOK
    <3> QED
      BY <3>1 DEF Usage, Recorded
  <2>2. /\ usage'[p].unified = usage[p].unified + (IF p = q THEN a ELSE 0)
        /\ usage'[p].ingest = usage[p].ingest
    BY <1>1, <1>4, <2>1 DEF Usage
  <2>3. Recorded(p)' = Recorded(p)
    BY <2>2 DEF Recorded
  <2>4. Weight(charge[c], p) = 0 /\ Weight(charge'[c], p) = IF p = q THEN a ELSE 0
    <3>1. charge \in [Chargers -> Charge]
      BY DEF TypeOK
    <3>2. CASE a > 0
      <4>1. charge'[c] = [r EXCEPT !.pc = "breakdown"]
        BY <1>2, <1>4, <3>1, <3>2 DEF Admitted, HasBreakdown, SetCharge
      <4>2. charge'[c].pc = "breakdown" /\ charge'[c].op = "upload" /\ charge'[c].period = q
            /\ charge'[c].amount = a
        BY <1>1, <1>2, <4>1 DEF Charge
      <4> QED
        BY <1>2, <4>2 DEF Weight
    <3>3. CASE a = 0
      <4>1. charge'[c] = IdleCharge
        BY <1>2, <1>4, <3>1, <3>3 DEF Admitted, HasBreakdown, SetCharge
      <4> QED
        BY <1>2, <3>3, <4>1 DEF Weight, IdleCharge
    <3> QED
      BY <1>1, <3>2, <3>3
  <2>5. (faults' - faults) * LargestAmount = 0
    BY <1>1, <1>2
  <2>6. usage'[p].unified = usage[p].unified \/ usage'[p].unified <= LargestCap + Overshoot(faults')
    <3> SUFFICES ASSUME p = q PROVE usage'[p].unified <= LargestCap + Overshoot(faults)
      BY <1>2, <2>1, <2>2
    <3>0. FileProcessingUsed(usage[p]) + a <= r.cap
      BY <1>4 DEF Fits
    <3>1. Cardinality(Chargers) \in Nat /\ Cardinality(Chargers) > 0
      BY SizesAssumption, FS_CardinalityType, FS_EmptySet
    <3>2. Overshoot(faults) \in Nat
      BY <1>1, <3>1, OvershootGrows
    <3>3. CASE FileProcessingUsed(usage[p]) = usage[p].unified
      BY <1>1, <2>1, <2>2, <3>0, <3>2, <3>3
    <3>4. CASE FileProcessingUsed(usage[p]) = Recorded(p)
      <4> DEFINE k == Cardinality(Chargers) - 1
                 l == LargestAmount
                 n == Cardinality(Uploading(p))
      <4>1. n \in Nat /\ n <= k /\ k \in Nat
        <5>1. Uploading(p) \subseteq Chargers \ {c}
          BY <1>2 DEF Uploading
        <5>2. IsFiniteSet(Chargers \ {c}) /\ Cardinality(Chargers \ {c}) = k
          BY SizesAssumption, FS_RemoveElement
        <5> QED
          BY <5>1, <5>2, <3>1, FS_Subset, FS_CardinalityType
      <4>2. Pending(p) \in Nat /\ Pending(p) <= n * l
        <5> DEFINE f == [d \in Chargers |-> charge[d].amount]
        <5>1. Pending(p) \in Nat /\ Uploading(p) \subseteq Chargers /\ IsFiniteSet(Uploading(p))
          BY PendingIsNat
        <5>2. \A d \in Uploading(p) : f[d] \in 0..l
          BY <5>1, LargestAmountBounds DEF TypeOK, Charge
        <5> HIDE DEF f
        <5>3. SumFunctionOnSet(f, Uploading(p)) <= n * l
          BY <1>1, <5>1, <5>2, SumBound
        <5> QED
          BY <5>1, <5>3 DEF Pending, f
      <4>3. usage[p].unified <= Recorded(p) + Pending(p) + faults * l
        BY DEF UploadInv
      <4> HIDE DEF n, k
      <4>4. n * l + faults * l <= (k + faults) * l /\ n * l \in Nat /\ faults * l \in Nat
        <5> DEFINE d == k - n
        <5>1. d \in Nat /\ k = n + d
          BY <4>1
        <5> HIDE DEF d, l
        <5>2. l \in Nat /\ faults \in Nat
          BY <1>1 DEF l
        <5>3. (n + d + faults) * l = n * l + d * l + faults * l
          BY <4>1, <5>1, <5>2
        <5>4. n * l \in Nat /\ d * l \in Nat /\ faults * l \in Nat
          BY <4>1, <5>1, <5>2, NatTimes
        <5> QED
          BY <5>1, <5>3, <5>4
      <4>5. Overshoot(faults) = (k + faults) * l
        BY DEF Overshoot, k
      <4>6. usage'[p].unified <= Recorded(p) + a + (Pending(p) + faults * l)
        BY <1>1, <2>1, <2>2, <4>2, <4>3, <4>4
      <4>7. Recorded(p) + a <= LargestCap
        BY <1>1, <2>1, <3>0, <3>4
      <4> HIDE DEF l
      <4> QED
        BY <1>1, <2>1, <2>2, <3>2, <4>2, <4>4, <4>5, <4>6, <4>7
    <3>5. FileProcessingUsed(usage[p]) = usage[p].unified \/ FileProcessingUsed(usage[p]) = Recorded(p)
      BY DEF FileProcessingUsed, Recorded
    <3> QED
      BY <3>3, <3>4, <3>5
  <2>7. usage'[p].unified + Recorded(p) + Weight(charge[c], p)
           = usage[p].unified + Recorded(p)' + Weight(charge'[c], p) + (faults' - faults) * LargestAmount
    BY <1>1, <2>1, <2>2, <2>3, <2>4, <2>5
  <2>8. usage'[p].unified + Recorded(p) + Weight(charge[c], p)
           = usage[p].unified + Recorded(p)' + Weight(charge'[c], p)
    BY <1>1, <2>1, <2>2, <2>3, <2>4
  <2>9. usage'[p].unified + Recorded(p) + Weight(charge[c], p) \in Nat
    BY <1>1, <2>1, <2>2, <2>4
  <2> QED
    BY <1>1, <1>2, <2>6, <2>7, <2>8, <2>9, UploadStep
<1> QED
  BY <1>3, <1>4 DEF CheckAndAddFileProcessing

\* The breakdown of an upload: what was on its way is recorded.
LEMMA UploadRecords ==
    ASSUME TypeOK, TypeOK', UploadInv, NEW c \in Chargers, RecordBreakdown(c)
    PROVE  UploadInv'
<1> DEFINE r == charge[c]
           q == r.period
           a == r.amount
<1>1. r \in Charge /\ charge'[c] \in Charge /\ q \in PeriodIds /\ a \in Nat /\ faults \in Nat
      /\ charge \in [Chargers -> Charge] /\ usage \in [PeriodIds -> Usage]
  <2>1. r \in Charge /\ charge'[c] \in Charge /\ faults \in Nat
        /\ charge \in [Chargers -> Charge] /\ usage \in [PeriodIds -> Usage]
    BY QuotaAssumption DEF TypeOK
  <2> QED
    BY <2>1, AmountFacts DEF Charge
<1>2. /\ charge' = [charge EXCEPT ![c] = charge'[c]] /\ charge'[c] = IdleCharge
      /\ faults' = faults /\ r.pc = "breakdown"
  BY <1>1 DEF RecordBreakdown, SetCharge
<1>3. \A p : Weight(charge'[c], p) = 0
  BY <1>2 DEF Weight, IdleCharge
<1>4. CASE r.op # "upload"
  <2>1. \A p \in PeriodIds : /\ usage'[p].unified = usage[p].unified
                             /\ usage'[p].ingest = usage[p].ingest
    BY <1>1, <1>4 DEF RecordBreakdown, Usage
  <2>2. \A p \in PeriodIds : Weight(charge[c], p) = Weight(charge'[c], p)
    BY <1>3, <1>4 DEF Weight
  <2> QED
    BY <1>2, <2>1, <2>2, UploadSilent
<1>5. CASE r.op = "upload"
  <2> SUFFICES ASSUME NEW p \in PeriodIds
               PROVE  /\ usage'[p].unified <= Recorded(p)' + Pending(p)' + faults' * LargestAmount
                      /\ faults' = 0 => usage'[p].unified = Recorded(p)' + Pending(p)'
                      /\ usage'[p].unified <= LargestCap + Overshoot(faults')
    BY DEF UploadInv, Overshoot
  <2>1. usage[p] \in Usage /\ usage[p].unified \in Nat /\ Recorded(p) \in Nat
    <3>1. usage[p] \in Usage
      BY <1>1
    <3> QED
      BY <3>1 DEF Usage, Recorded
  <2>2. usage' = [usage EXCEPT ![q].ingest = Recorded(q) + a]
    BY <1>5 DEF RecordBreakdown, Recorded
  <2>3. usage'[p].unified = usage[p].unified
    BY <1>1, <2>1, <2>2 DEF Usage
  <2>4. Recorded(p)' = Recorded(p) + (IF p = q THEN a ELSE 0)
    <3>1. CASE p = q
      <4>1. usage'[p].ingest = Recorded(p) + a
        BY <1>1, <2>1, <2>2, <3>1 DEF Usage
      <4>2. usage'[p].ingest # Absent
        BY <1>1, <2>1, <4>1 DEF Absent
      <4> QED
        BY <3>1, <4>1, <4>2 DEF Recorded
    <3>2. CASE p # q
      <4>1. usage'[p] = usage[p]
        BY <1>1, <2>2, <3>2
      <4> QED
        BY <2>1, <3>2, <4>1 DEF Recorded
    <3> QED
      BY <3>1, <3>2
  <2>5. Weight(charge[c], p) = IF p = q THEN a ELSE 0
    BY <1>2, <1>5 DEF Weight
  <2>6. (faults' - faults) * LargestAmount = 0
    BY <1>1, <1>2, LargestAmountBounds
  <2>7. usage'[p].unified + Recorded(p) + Weight(charge[c], p)
           = usage[p].unified + Recorded(p)' + Weight(charge'[c], p) + (faults' - faults) * LargestAmount
    BY <1>1, <1>3, <2>1, <2>3, <2>4, <2>5, <2>6
  <2>8. usage'[p].unified + Recorded(p) + Weight(charge[c], p)
           = usage[p].unified + Recorded(p)' + Weight(charge'[c], p)
    BY <1>1, <1>3, <2>1, <2>3, <2>4, <2>5
  <2>9. usage'[p].unified + Recorded(p) + Weight(charge[c], p) \in Nat
    BY <1>1, <2>1, <2>3, <2>5
  <2> QED
    BY <1>1, <1>2, <2>3, <2>7, <2>8, <2>9, UploadStep
<1> QED
  BY <1>4, <1>5

\* The uploads of a period are counted as they should be: without a fault the field that is
\* compared with the cap and what is on its way to it make up the one that is incremented, and
\* the cap is passed by no more than an upload for each other request and each fault.
THEOREM UploadsAreCounted == Spec => []UploadsCounted
<1>1. Init => UploadInv
  <2> SUFFICES ASSUME Init, NEW p \in PeriodIds
               PROVE  /\ usage[p].unified <= Recorded(p) + Pending(p) + faults * LargestAmount
                      /\ faults = 0 => usage[p].unified = Recorded(p) + Pending(p)
                      /\ usage[p].unified <= LargestCap + Overshoot(faults)
    BY DEF UploadInv
  <2>1. usage[p].unified = 0 /\ Recorded(p) = 0 /\ faults = 0
    BY DEF Init, NoUsage, Recorded
  <2>2. Uploading(p) = {}
    BY DEF Init, Uploading, IdleCharge
  <2>3. Pending(p) = 0
    BY <2>2, SumFacts, FS_EmptySet DEF Pending
  <2>4. LargestCap \in Nat /\ LargestAmount \in Nat
    BY LargestCapBounds, LargestAmountBounds
  <2>5. Overshoot(0) \in Nat
    BY SizesAssumption, FS_CardinalityType, FS_EmptySet, OvershootGrows
  <2> QED
    BY <2>1, <2>3, <2>4, <2>5
<1>2. TypeOK /\ TypeOK' /\ UploadInv /\ [Next]_quotaVars => UploadInv'
  <2> SUFFICES ASSUME TypeOK, TypeOK', UploadInv, [Next]_quotaVars PROVE UploadInv'
    OBVIOUS
  <2>1. CASE Tick \/ UNCHANGED quotaVars
    <3>1. UNCHANGED <<usage, charge, faults>>
      BY <2>1 DEF Tick, quotaVars
    <3>2. \A p \in PeriodIds : /\ Recorded(p)' = Recorded(p)
                               /\ Pending(p)' = Pending(p)
      BY <3>1 DEF Recorded, Pending, Uploading
    <3> QED
      BY <3>1, <3>2 DEF UploadInv, Overshoot
  <2>2. ASSUME NEW c \in Chargers, ChargeStep(c) PROVE UploadInv'
    <3>1. charge[c] \in Charge /\ charge'[c] \in Charge /\ charge \in [Chargers -> Charge]
      BY DEF TypeOK
    <3>2. ASSUME charge' = [charge EXCEPT ![c] = charge'[c]], UNCHANGED <<usage, faults>>,
                 charge[c].pc # "breakdown",
                 charge'[c].pc # "breakdown" \/ charge'[c].op # "upload"
          PROVE  UploadInv'
      <4>1. \A p \in PeriodIds : Weight(charge[c], p) = Weight(charge'[c], p)
        BY <3>2 DEF Weight
      <4> QED
        BY <3>2, <4>1, UploadSilent
    <3>3. CASE \E op \in Ops, n \in Amounts \cup {0} : Begin(c, op, n)
      <4>1. PICK op \in Ops, n \in Amounts \cup {0} : Begin(c, op, n)
        BY <3>3
      <4>2. charge'[c] = [IdleCharge EXCEPT !.pc = "load", !.op = op, !.amount = n]
        BY <3>1, <4>1 DEF Begin, SetCharge
      <4>3. charge'[c].pc = "load"
        BY <4>2 DEF IdleCharge
      <4>4. charge' = [charge EXCEPT ![c] = charge'[c]] /\ UNCHANGED <<usage, faults>> /\ charge[c].pc = "idle"
        BY <4>1, <4>2 DEF Begin, SetCharge
      <4> QED
        BY <3>2, <4>3, <4>4
    <3>4. CASE LoadMeta(c) \/ WriteDefault(c)
      <4>1. charge' = [charge EXCEPT ![c] = charge'[c]] /\ UNCHANGED <<usage, faults>>
            /\ charge[c].pc \in {"load", "default"}
        BY <3>1, <3>4 DEF LoadMeta, WriteDefault, Loaded, SetCharge
      <4>2. charge'[c].pc \in {"idle", "eval", "default"}
        <5>1. CASE charge' = [charge EXCEPT ![c] = IdleCharge]
          <6>1. charge'[c] = IdleCharge
            BY <3>1, <5>1
          <6> QED
            BY <6>1 DEF IdleCharge
        <5>2. CASE \E cap, period : charge' = [charge EXCEPT ![c] =
                     [charge[c] EXCEPT !.pc = "eval", !.cap = cap, !.period = period]]
          <6>1. PICK cap, period : charge' = [charge EXCEPT ![c] =
                     [charge[c] EXCEPT !.pc = "eval", !.cap = cap, !.period = period]]
            BY <5>2
          <6>2. charge'[c] = [charge[c] EXCEPT !.pc = "eval", !.cap = cap, !.period = period]
            BY <3>1, <6>1
          <6> QED
            BY <3>1, <6>2 DEF Charge
        <5>3. CASE charge' = [charge EXCEPT ![c] = [charge[c] EXCEPT !.pc = "default"]]
          <6>1. charge'[c] = [charge[c] EXCEPT !.pc = "default"]
            BY <3>1, <5>3
          <6> QED
            BY <3>1, <6>1 DEF Charge
        <5> QED
          BY <3>4, <5>1, <5>2, <5>3 DEF LoadMeta, WriteDefault, Loaded, SetCharge
      <4> QED
        BY <3>2, <4>1, <4>2
    <3>5. CASE CheckAndAdd(c)
      <4>1. charge' = [charge EXCEPT ![c] = charge'[c]] /\ faults' = faults /\ charge[c].pc = "eval"
        BY <3>1, <3>5 DEF CheckAndAdd, Admitted, SetCharge
      <4>2. charge'[c].pc # "breakdown" \/ charge'[c].op # "upload"
        BY <3>1, <3>5 DEF CheckAndAdd, Admitted, SetCharge, IdleCharge, Counters, Charge
      <4>3. \A p \in PeriodIds : /\ usage'[p].unified = usage[p].unified
                                 /\ usage'[p].ingest = usage[p].ingest
        BY <3>5 DEF CheckAndAdd, TypeOK, Usage
      <4>4. \A p \in PeriodIds : Weight(charge[c], p) = Weight(charge'[c], p)
        BY <4>1, <4>2 DEF Weight
      <4> QED
        BY <4>1, <4>3, <4>4, UploadSilent
    <3>6. CASE FailOpen(c) \/ Abandon(c)
      <4>1. charge' = [charge EXCEPT ![c] = charge'[c]] /\ faults' = faults + 1 /\ usage' = usage
        BY <3>1, <3>6 DEF FailOpen, Abandon, Admitted, SetCharge
      <4> QED
        BY <4>1, UploadSilent
    <3> QED
      BY <2>2, <3>3, <3>4, <3>5, <3>6, UploadAdds, UploadRecords DEF ChargeStep
  <2> QED
    BY <2>1, <2>2 DEF Next
<1>3. TypeOK /\ UploadInv => UploadsCounted
  <2> SUFFICES ASSUME TypeOK, UploadInv PROVE UploadsCounted
    OBVIOUS
  <2>1. UploadAccounting
    BY DEF UploadInv, UploadAccounting, Recorded
  <2>2. UploadOvershootBounded
    BY DEF UploadInv, UploadOvershootBounded, Overshoot
  <2> QED
    BY <2>1, <2>2 DEF UploadsCounted
<1> QED
  BY <1>1, <1>2, <1>3, QuotaInvariant, PTL DEF Spec

================================================================================
