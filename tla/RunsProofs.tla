------------------------------- MODULE RunsProofs -------------------------------
(***************************************************************************)
(* Proofs about WorkflowRuns, for any number of requests, ids and faults:  *)
(* copies of the run stay coherent, and a deleted run is not cached again. *)
(* And for requests that follow one another: its artifacts are the ones    *)
(* its versions name, no store drops a version, a deletion leaves nothing. *)
(***************************************************************************)
EXTENDS WorkflowRuns, TLAPS

\* One of the versions has the highest number: NextNumber may ask for it.
Topped(run) ==
    run.versions # {} => \E v \in run.versions : \A w \in run.versions : w.number <= v.number

\* A run as the operations leave it, whose ids are below n.
Sound(run, n) ==
    /\ run \in Run
    /\ Coherent(run)
    /\ Topped(run)
    /\ \A v \in run.versions : v.id < n

\* What a thread keeps: its copy is sound, and it has the artifact it is storing.
Holds(local, n) ==
    /\ local \in Local
    /\ Sound(local.run, n)
    /\ local.pc \in {"art", "artWrite"} => local.art # None

CopyInv ==
    /\ TypeOK
    /\ doc # NoDoc => Sound(doc, fresh)
    /\ \A a \in Actors : Holds(act[a], fresh)

--------------------------------------------------------------------------------
(* What the operators on a run keep. *)

\* The next number is above all others.
LEMMA NextNumberAbove ==
    ASSUME NEW run \in Run, Topped(run)
    PROVE  /\ NextNumber(run) \in Nat \ {0}
           /\ \A v \in run.versions : v.number < NextNumber(run)
<1> DEFINE ns == {v.number : v \in run.versions}
<1>1. ASSUME NEW v \in run.versions PROVE v.number \in Nat \ {0}
  BY DEF Run, Version
<1>2. CASE run.versions = {}
  BY <1>2 DEF NextNumber
<1>3. CASE run.versions # {}
  <2>1. PICK t \in ns : \A n \in ns : t >= n
    BY <1>1, <1>3 DEF Topped
  <2>2. Max(ns) \in ns /\ \A n \in ns : Max(ns) >= n
    BY <2>1 DEF Max
  <2>3. Max(ns) \in Nat
    BY <2>2, <1>1
  <2>4. NextNumber(run) = Max(ns) + 1
    BY <1>3 DEF NextNumber
  <2>5. ASSUME NEW v \in run.versions PROVE v.number < NextNumber(run)
    <3>1. v.number \in ns
      OBVIOUS
    <3>2. Max(ns) >= v.number
      BY <3>1, <2>2
    <3> HIDE DEF ns
    <3> QED
      BY <3>2, <2>3, <2>4, <1>1
  <2> HIDE DEF ns
  <2> QED
    BY <2>3, <2>4, <2>5
<1> QED
  BY <1>2, <1>3

\* A run is as sound under a higher bound.
LEMMA SoundLater ==
    ASSUME NEW run, NEW n \in Nat, NEW m \in Nat, n <= m, Sound(run, n)
    PROVE  Sound(run, m)
<1>1. \A v \in run.versions : v.id \in Nat
  BY RunsAssumption DEF Sound, Run, Version, Ids
<1> QED
  BY <1>1 DEF Sound

\* A new version, with a parent among the others or none, leaves the run sound.
LEMMA RecordedSound ==
    ASSUME NEW run, NEW n \in Ids, NEW parent, NEW art \in Ids \cup {None}, Sound(run, n),
           parent = None \/ \E v \in run.versions : v.id = parent
    PROVE  /\ Sound(Recorded(run, n, parent, art), n + 1)
           /\ Recorded(run, n, parent, art).versions # {}
<1> DEFINE new == [id |-> n, number |-> NextNumber(run), parent |-> parent, text |-> n, art |-> art]
           r == Recorded(run, n, parent, art)
<1>1. run \in Run /\ Coherent(run) /\ Topped(run) /\ \A v \in run.versions : v.id < n
  BY DEF Sound
<1>2. NextNumber(run) \in Nat \ {0} /\ \A v \in run.versions : v.number < NextNumber(run)
  BY <1>1, NextNumberAbove
<1>3. n \in Nat \ {0} /\ n # None
  BY RunsAssumption DEF Ids, None
<1>4. \A v \in run.versions : v \in Version /\ v.id \in Nat /\ v.number \in Nat
  BY <1>1, RunsAssumption DEF Run, Version, Ids
<1>5. new \in Version
  BY <1>1, <1>2 DEF Version, Run
<1>6. /\ r.versions = run.versions \cup {new} /\ r.text = n /\ r.art = art /\ r.active = n
      /\ r.status = run.status
  BY <1>1 DEF Recorded, Run
<1>7. r \in Run
  BY <1>1, <1>4, <1>5, <1>6 DEF Recorded, Run
<1>8. Coherent(r)
  <2>1. \A v, w \in r.versions : v.id = w.id \/ v.number = w.number => v = w
    BY <1>1, <1>2, <1>3, <1>4, <1>6 DEF Coherent
  <2>2. ASSUME NEW v \in r.versions
        PROVE  v.parent = None \/ \E w \in r.versions : w.id = v.parent /\ w.number < v.number
    BY <1>1, <1>2, <1>6 DEF Coherent
  <2> QED
    BY <2>1, <2>2, <1>3, <1>6 DEF Coherent
<1>9. Topped(r)
  <2>1. new \in r.versions /\ new.number = NextNumber(run)
    BY <1>6
  <2>2. \A w \in r.versions : w.number <= new.number
    BY <1>2, <1>4, <1>6
  <2> QED
    BY <2>1, <2>2 DEF Topped
<1>10. \A v \in r.versions : v.id < n + 1
  BY <1>1, <1>3, <1>4, <1>6
<1> QED
  BY <1>6, <1>7, <1>8, <1>9, <1>10 DEF Sound

\* So does another text or artifact of a version, be it made the active one or not.
LEMMA ChangedSound ==
    ASSUME NEW run, NEW n \in Nat, NEW v \in run.versions, NEW text \in Ids,
           NEW art \in Ids \cup {None}, NEW active \in {run.active, v.id}, Sound(run, n)
    PROVE  Sound(Changed([run EXCEPT !.active = active], v, text, art), n)
<1> DEFINE new == [v EXCEPT !.text = text, !.art = art]
           r == Changed([run EXCEPT !.active = active], v, text, art)
<1>1. run \in Run /\ Coherent(run) /\ Topped(run) /\ \A w \in run.versions : w.id < n
  BY DEF Sound
<1>2. \A w \in run.versions : w \in Version
  BY <1>1 DEF Run
<1>3. /\ new \in Version /\ new.id = v.id /\ new.number = v.number /\ new.parent = v.parent
      /\ new.text = text /\ new.art = art
  BY <1>2 DEF Version
<1>4. /\ r.versions = (run.versions \ {v}) \cup {new}
      /\ r.text = IF active = v.id THEN text ELSE run.text
      /\ r.art = IF active = v.id THEN art ELSE run.art
      /\ r.active = active /\ r.status = run.status
  BY <1>1 DEF Changed, Run
<1>5. r \in Run
  <2>1. active \in Ids \cup {None}
    BY <1>1, <1>2 DEF Run, Version
  <2>2. r.versions \subseteq Version
    BY <1>2, <1>3, <1>4
  <2> QED
    BY <2>1, <2>2, <1>1, <1>4 DEF Changed, Run
<1>6. Coherent(r)
  <2>1. \E w \in r.versions : r.active = w.id /\ r.text = w.text /\ r.art = w.art
    <3>1. CASE active = v.id
      BY <3>1, <1>3, <1>4
    <3>2. CASE active # v.id
      BY <3>2, <1>1, <1>4 DEF Coherent
    <3> QED
      BY <3>1, <3>2
  <2>2. \A w, x \in r.versions : w.id = x.id \/ w.number = x.number => w = x
    <3>1. \A w, x \in run.versions : w.id = x.id \/ w.number = x.number => w = x
      BY <1>1 DEF Coherent
    <3> HIDE DEF new, r
    <3> QED
      BY <3>1, <1>3, <1>4
  <2>3. ASSUME NEW w \in r.versions
        PROVE  w.parent = None \/ \E x \in r.versions : x.id = w.parent /\ x.number < w.number
    <3> HIDE DEF new, r
    <3>1. \A y \in run.versions :
            y.parent = None \/ \E x \in run.versions : x.id = y.parent /\ x.number < y.number
      BY <1>1 DEF Coherent
    <3>2. PICK y \in run.versions : w.id = y.id /\ w.number = y.number /\ w.parent = y.parent
      BY <1>3, <1>4
    <3>3. \A x \in run.versions : \E z \in r.versions : z.id = x.id /\ z.number = x.number
      BY <1>3, <1>4
    <3> QED
      BY <3>1, <3>2, <3>3
  <2>4. r.text # None
    <3>1. text # None
      BY RunsAssumption DEF Ids, None
    <3> QED
      BY <3>1, <1>1, <1>4 DEF Coherent
  <2> QED
    BY <2>1, <2>2, <2>3, <2>4, <1>4 DEF Coherent
<1>7. Topped(r)
  BY <1>1, <1>3, <1>4 DEF Topped
<1>8. \A w \in r.versions : w.id < n
  BY <1>1, <1>3, <1>4
<1> QED
  BY <1>5, <1>6, <1>7, <1>8 DEF Sound

\* And another status, completed only if there is a version.
LEMMA StatusSound ==
    ASSUME NEW run, NEW n \in Nat, Sound(run, n),
           NEW status \in {"queued", "running", "completed", "failed"},
           status = "completed" => run.versions # {}
    PROVE  Sound([run EXCEPT !.status = status], n)
BY DEF Sound, Run, Coherent, Topped

\* The run as it is created.
LEMMA NewRunSound == ASSUME NEW n \in Nat PROVE Sound(NewRun, n)
BY DEF Sound, NewRun, Run, Coherent, Topped, None

\* And making one of its versions the active one.
LEMMA SelectedSound ==
    ASSUME NEW run, NEW n \in Nat, NEW v \in run.versions, Sound(run, n)
    PROVE  Sound([run EXCEPT !.status = "completed", !.text = v.text,
                             !.art = v.art, !.active = v.id], n)
<1>1. run \in Run /\ v \in Version
  BY DEF Sound, Run
<1>2. v.text # None
  BY <1>1, RunsAssumption DEF Version, Ids, None
<1> QED
  BY <1>1, <1>2 DEF Sound, Run, Version, Coherent, Topped

--------------------------------------------------------------------------------
(* A step of one thread. *)

\* What TypeOK says of all variables but the document and the threads.
Others ==
    /\ arts \subseteq Ids
    /\ artCache \subseteq Ids
    /\ cached \in BOOLEAN /\ tomb \in BOOLEAN /\ billed \in BOOLEAN
    /\ phase \in {"new", "created", "deleted"}
    /\ fresh \in 1..(MaxIds + 1)
    /\ faults \in 0..MaxFaults

\* A thread moves to a local state it may hold, and what is stored is sound.
LEMMA ThreadStep ==
    ASSUME CopyInv, Others', fresh <= fresh',
           doc' = doc \/ doc' = NoDoc \/ Sound(doc', fresh'),
           NEW a \in Actors, NEW l, Holds(l, fresh'), act' = [act EXCEPT ![a] = l]
    PROVE  CopyInv'
<1>1. fresh \in Nat /\ fresh' \in Nat
  BY RunsAssumption DEF CopyInv, TypeOK, Others
<1>2. doc' # NoDoc => Sound(doc', fresh')
  BY <1>1, SoundLater DEF CopyInv
<1>3. act' \in [Actors -> Local]
  BY DEF CopyInv, TypeOK, Holds
<1>4. ASSUME NEW b \in Actors PROVE Holds(act'[b], fresh')
  <2>1. CASE b = a
    BY <2>1 DEF CopyInv, TypeOK
  <2>2. CASE b # a
    <3>1. act'[b] = act[b] /\ Holds(act[b], fresh)
      BY <2>2 DEF CopyInv, TypeOK
    <3> QED
      BY <3>1, <1>1, SoundLater DEF Holds
  <2> QED
    BY <2>1, <2>2
<1>5. doc' \in Run \cup {NoDoc}
  BY <1>2 DEF Sound
<1> QED
  BY <1>2, <1>3, <1>4, <1>5 DEF CopyInv, TypeOK, Others

\* It goes on with the copy it has.
LEMMA GotoStep ==
    ASSUME CopyInv, Others', fresh' = fresh, doc' = doc \/ doc' = NoDoc,
           NEW a \in Actors,
           NEW pc \in {"idle", "queued", "generate", "submit", "art", "artWrite", "check",
                       "cache", "write", "mark", "uncache", "delDoc", "delArts"},
           pc \in {"art", "artWrite"} => act[a].art # None,
           Goto(a, pc)
    PROVE  CopyInv'
<1> DEFINE l == [act[a] EXCEPT !.pc = pc]
<1>1. fresh \in Nat
  BY RunsAssumption DEF CopyInv, TypeOK
<1>2. Holds(l, fresh')
  BY DEF CopyInv, TypeOK, Holds, Local
<1>3. act' = [act EXCEPT ![a] = l]
  BY DEF Goto, CopyInv, TypeOK
<1>4. fresh <= fresh'
  BY <1>1
<1> HIDE DEF l
<1> QED
  BY <1>2, <1>3, <1>4, ThreadStep

\* It has nothing to do.
LEMMA IdleHolds == ASSUME NEW n \in Nat PROVE Holds(Idle, n)
<1>1. Sound(NewRun, n)
  BY NewRunSound
<1> QED
  BY <1>1 DEF Holds, Idle, Local, Sound, None

\* It starts to store a sound copy.
LEMMA StoreHolds ==
    ASSUME NEW a \in Actors, NEW run, NEW n \in Nat, Sound(run, n),
           NEW art \in Ids \cup {None}, NEW then \in {"idle", "generate", "submit"},
           Store(a, run, art, then)
    PROVE  \E l : Holds(l, n) /\ act' = [act EXCEPT ![a] = l]
<1> DEFINE l == [Idle EXCEPT !.pc = IF art = None THEN "check" ELSE "art",
                             !.then = then, !.run = run, !.art = art]
<1>1. Holds(l, n)
  BY DEF Holds, Idle, Local, Sound
<1>2. act' = [act EXCEPT ![a] = l]
  BY DEF Store, Become
<1> QED
  BY <1>1, <1>2

\* It returns from a store.
LEMMA ReturnHolds ==
    ASSUME CopyInv, NEW a \in Actors, Return(a)
    PROVE  \E l : Holds(l, fresh) /\ act' = [act EXCEPT ![a] = l]
<1>1. fresh \in Nat
  BY RunsAssumption DEF CopyInv, TypeOK
<1>2. CASE act[a].then = "idle"
  BY <1>1, <1>2, IdleHolds DEF Return, Become
<1>3. CASE act[a].then # "idle"
  <2> DEFINE l == [Idle EXCEPT !.pc = act[a].then, !.run = act[a].run]
  <2>1. act[a] \in Local /\ Sound(act[a].run, fresh)
    BY DEF CopyInv, Holds
  <2>2. Holds(l, fresh)
    BY <2>1 DEF Holds, Idle, Local, Sound
  <2>3. act' = [act EXCEPT ![a] = l]
    BY <1>3 DEF Return, Become
  <2> QED
    BY <2>2, <2>3
<1> QED
  BY <1>2, <1>3

--------------------------------------------------------------------------------
(* The actions. *)

\* The steps of a store, failed writes included.
LEMMA PersistSteps ==
    ASSUME CopyInv, NEW a \in Actors, Persist(a) \/ PersistFault(a)
    PROVE  CopyInv'
<1> USE DEF stores, memory, counters
<1>1. Others /\ fresh \in Nat /\ faults \in Nat /\ MaxFaults \in Nat
  BY RunsAssumption DEF CopyInv, TypeOK, Others
<1>2. act[a] \in Local /\ Sound(act[a].run, fresh)
  BY DEF CopyInv, Holds
<1>3. act[a].pc \in {"art", "artWrite"} => act[a].art \in Ids
  BY <1>2 DEF CopyInv, Holds, Local
<1>4. CASE CacheArtifact(a)
  <2>1. Others' /\ fresh' = fresh /\ doc' = doc
    BY <1>1, <1>3, <1>4 DEF CacheArtifact, Others
  <2>2. act[a].art # None
    BY <1>4 DEF CacheArtifact, CopyInv, Holds
  <2> QED
    BY <1>1, <1>4, <2>1, <2>2, GotoStep, ThreadStep DEF CacheArtifact
<1>5. CASE WriteArtifact(a)
  <2>1. Others' /\ fresh' = fresh /\ doc' = doc
    BY <1>1, <1>3, <1>5 DEF WriteArtifact, Others
  <2> QED
    BY <1>1, <1>5, <2>1, GotoStep, ThreadStep DEF WriteArtifact
<1>6. CASE WriteArtifactFails(a)
  <2>1. Others' /\ fresh' = fresh /\ doc' = doc
    BY <1>1, <1>6 DEF WriteArtifactFails, Fault, Others
  <2> QED
    BY <1>1, <1>6, <2>1, GotoStep, ThreadStep DEF WriteArtifactFails
<1>7. CASE CheckDeleted(a)
  <2>1. Others' /\ fresh' = fresh /\ doc' = doc
    BY <1>1, <1>7 DEF CheckDeleted, Others
  <2>2. CASE tomb
    BY <1>1, <1>7, <2>1, <2>2, ReturnHolds, ThreadStep DEF CheckDeleted
  <2>3. CASE ~tomb
    BY <1>1, <1>7, <2>1, <2>3, GotoStep, ThreadStep DEF CheckDeleted
  <2> QED
    BY <2>2, <2>3
<1>8. CASE CacheRun(a)
  <2>1. Others' /\ fresh' = fresh /\ doc' = doc
    BY <1>1, <1>8 DEF CacheRun, Others
  <2> QED
    BY <1>1, <1>8, <2>1, GotoStep, ThreadStep DEF CacheRun
<1>9. CASE WriteRun(a)
  <2>1. Others' /\ fresh' = fresh /\ Sound(doc', fresh')
    BY <1>1, <1>2, <1>9 DEF WriteRun, Others
  <2> QED
    BY <1>1, <1>9, <2>1, ReturnHolds, ThreadStep DEF WriteRun
<1>10. CASE WriteRunFails(a)
  <2>1. Others' /\ fresh' = fresh /\ doc' = doc
    BY <1>1, <1>10 DEF WriteRunFails, Fault, Others
  <2> QED
    BY <1>1, <1>10, <2>1, ReturnHolds, ThreadStep DEF WriteRunFails
<1> QED
  BY <1>4, <1>5, <1>6, <1>7, <1>8, <1>9, <1>10 DEF Persist, PersistFault

\* The run is created and its job queued.
LEMMA CreateSteps ==
    ASSUME CopyInv, NEW c \in Requesters, Create(c) \/ Submit(c) \/ SubmitFails(c)
    PROVE  CopyInv'
<1> USE DEF stores, memory, counters
<1>1. /\ Others /\ fresh \in Nat /\ faults \in Nat /\ MaxFaults \in Nat
      /\ c \in Actors /\ Worker \in Actors /\ c # Worker
  BY RunsAssumption DEF CopyInv, TypeOK, Others, Actors
<1>2. CASE Create(c)
  <2>1. Others' /\ fresh' = fresh /\ doc' = doc
    BY <1>1, <1>2 DEF Create, Others
  <2>2. Sound(NewRun, fresh) /\ None \in Ids \cup {None}
    BY <1>1, NewRunSound
  <2> QED
    BY <1>1, <1>2, <2>1, <2>2, StoreHolds, ThreadStep DEF Create
<1>3. CASE Submit(c)
  <2> DEFINE l == [act[Worker] EXCEPT !.pc = "queued"]
  <2>1. Others' /\ fresh' = fresh /\ doc' = doc
    BY <1>1, <1>3 DEF Submit, Others
  <2>2. act'[Worker] = l /\ act'[c] = Idle /\ act' \in [Actors -> Local]
        /\ \A b \in Actors \ {c, Worker} : act'[b] = act[b]
    BY <1>1, <1>3, IdleHolds DEF Submit, CopyInv, TypeOK, Holds, Local
  <2>3. Holds(l, fresh) /\ Holds(Idle, fresh)
    BY <1>1, IdleHolds DEF CopyInv, Holds, Local
  <2>4. \A b \in Actors : Holds(act'[b], fresh)
    BY <2>2, <2>3 DEF CopyInv
  <2> QED
    BY <2>1, <2>2, <2>4 DEF CopyInv, TypeOK, Others
<1>4. CASE SubmitFails(c)
  <2>1. Others' /\ fresh' = fresh /\ doc' = doc
    BY <1>1, <1>4 DEF SubmitFails, Fault, Others
  <2>2. Sound([NewRun EXCEPT !.status = "failed"], fresh) /\ None \in Ids \cup {None}
    BY <1>1, NewRunSound, StatusSound
  <2> QED
    BY <1>1, <1>4, <2>1, <2>2, StoreHolds, ThreadStep DEF SubmitFails
<1> QED
  BY <1>2, <1>3, <1>4

\* The job of the run.
LEMMA ExecuteSteps == ASSUME CopyInv, Execute PROVE CopyInv'
<1> USE DEF stores, memory, counters
<1>1. /\ Others /\ fresh \in Nat /\ MaxIds \in Nat /\ Worker \in Actors
      /\ None \in Ids \cup {None} /\ fresh \in 1..(MaxIds + 1)
  BY RunsAssumption DEF CopyInv, TypeOK, Others, Actors
<1>2. Sound(act[Worker].run, fresh)
  BY <1>1 DEF CopyInv, Holds
<1>3. CASE Start
  <2>1. Others' /\ fresh' = fresh /\ doc' = doc
    BY <1>1, <1>3 DEF Start, Others
  <2>2. CASE doc = NoDoc
    BY <1>1, <1>3, <2>1, <2>2, IdleHolds, ThreadStep DEF Start, Become
  <2>3. CASE doc # NoDoc
    <3>1. Sound([doc EXCEPT !.status = "running"], fresh)
      BY <1>1, <2>3, StatusSound DEF CopyInv
    <3> QED
      BY <1>1, <1>3, <2>1, <2>3, <3>1, StoreHolds, ThreadStep DEF Start
  <2> QED
    BY <2>2, <2>3
<1>4. CASE GenerateFails
  <2>1. Others' /\ fresh' = fresh /\ doc' = doc
    BY <1>1, <1>4 DEF GenerateFails, Others
  <2>2. Sound([act[Worker].run EXCEPT !.status = "failed"], fresh)
    BY <1>1, <1>2, StatusSound
  <2> QED
    BY <1>1, <1>4, <2>1, <2>2, StoreHolds, ThreadStep DEF GenerateFails
<1>5. CASE GenerateRefused
  <2> DEFINE r == Recorded(act[Worker].run, fresh, None, None)
  <2>1. fresh \in Ids /\ fresh' = fresh + 1 /\ Others' /\ doc' = doc
    BY <1>1, <1>5 DEF GenerateRefused, Others, Ids
  <2>2. Sound(r, fresh')
    BY <1>1, <1>2, <2>1, RecordedSound
  <2>3. Sound([r EXCEPT !.status = "failed"], fresh')
    <3> HIDE DEF r
    <3>1. fresh' \in Nat
      BY <1>1, <2>1
    <3> QED
      BY <3>1, <2>2, StatusSound
  <2>4. Store(Worker, [r EXCEPT !.status = "failed"], None, "idle")
    BY <1>5 DEF GenerateRefused
  <2> HIDE DEF r
  <2> QED
    BY <1>1, <2>1, <2>3, <2>4, StoreHolds, ThreadStep
<1>6. CASE Generate
  <2>1. PICK art \in {None, fresh + 1} :
          /\ fresh < MaxIds /\ fresh' = fresh + 2 /\ billed' = TRUE
          /\ Store(Worker,
                   [Recorded(act[Worker].run, fresh, None, art) EXCEPT !.status = "completed"],
                   art, "idle")
          /\ UNCHANGED <<stores, memory, phase, faults>>
    BY <1>6 DEF Generate
  <2> DEFINE r == Recorded(act[Worker].run, fresh, None, art)
  <2>2. fresh \in Ids /\ art \in Ids \cup {None} /\ Others' /\ doc' = doc
    BY <1>1, <2>1 DEF Others, Ids
  <2>3. Sound(r, fresh + 1) /\ r.versions # {}
    BY <1>1, <1>2, <2>2, RecordedSound
  <2>4. Sound(r, fresh')
    BY <1>1, <2>1, <2>3, SoundLater
  <2>5. Sound([r EXCEPT !.status = "completed"], fresh')
    <3> HIDE DEF r
    <3>1. fresh' \in Nat
      BY <1>1, <2>1
    <3> QED
      BY <3>1, <2>3, <2>4, StatusSound
  <2>6. Store(Worker, [r EXCEPT !.status = "completed"], art, "idle")
    BY <2>1
  <2> HIDE DEF r
  <2> QED
    BY <1>1, <2>1, <2>2, <2>5, <2>6, StoreHolds, ThreadStep
<1> QED
  BY <1>3, <1>4, <1>5, <1>6 DEF Execute

\* A request that loads the document and stores a sound copy of it.
LEMMA StoreStep ==
    ASSUME CopyInv, NEW c \in Requesters, NEW op, Loads(c, op),
           fresh <= fresh', fresh' \in 1..(MaxIds + 1),
           NEW run, Sound(run, fresh'), NEW art \in Ids \cup {None},
           Store(c, run, art, "idle")
    PROVE  CopyInv'
<1>1. Others' /\ doc' = doc /\ c \in Actors /\ fresh' \in Nat
  BY RunsAssumption DEF CopyInv, TypeOK, Others, Loads, stores, memory, Actors
<1>2. PICK l : Holds(l, fresh') /\ act' = [act EXCEPT ![c] = l]
  BY <1>1, StoreHolds
<1> QED
  BY <1>1, <1>2, ThreadStep

\* What a request has loaded.
LEMMA Loaded ==
    ASSUME CopyInv, NEW c \in Requesters, NEW op, Loads(c, op)
    PROVE  /\ Sound(doc, fresh) /\ doc \in Run
           /\ doc.art \in Ids \cup {None}
           /\ \A v \in doc.versions : v \in Version
           /\ MaxIds \in Nat /\ fresh \in Nat /\ fresh \in 1..(MaxIds + 1)
           /\ fresh <= MaxIds => fresh \in Ids
BY RunsAssumption DEF CopyInv, TypeOK, Loads, Sound, Run, Ids

\* A completed run shows one of its versions.
LEMMA ShownVersion ==
    ASSUME CopyInv, doc # NoDoc, Completed
    PROVE  VersionOf(doc, doc.active) \in doc.versions
<1>1. PICK v \in doc.versions : v.id = doc.active
  BY DEF CopyInv, Sound, Coherent, Completed
<1> QED
  BY <1>1 DEF VersionOf

\* The requests that rename, edit, refine, select and save.
LEMMA LoadSteps == ASSUME CopyInv, NEW c \in Requesters, Load(c) PROVE CopyInv'
<1>1. CASE Rename(c)
  <2> DEFINE art == IF doc.text = None THEN None ELSE doc.art
  <2>1. Loads(c, "rename") /\ fresh' = fresh /\ Store(c, doc, art, "idle")
    BY <1>1 DEF Rename
  <2>2. Sound(doc, fresh') /\ art \in Ids \cup {None} /\ fresh <= fresh' /\ fresh' \in 1..(MaxIds + 1)
    BY <2>1, Loaded
  <2> HIDE DEF art
  <2> QED
    BY <2>1, <2>2, StoreStep
<1>2. CASE Touch(c)
  <2>1. Loads(c, "touch") /\ fresh' = fresh /\ Store(c, doc, None, "idle")
    BY <1>2 DEF Touch
  <2>2. Sound(doc, fresh') /\ None \in Ids \cup {None} /\ fresh <= fresh' /\ fresh' \in 1..(MaxIds + 1)
    BY <2>1, Loaded
  <2> QED
    BY <2>1, <2>2, StoreStep
<1>3. CASE Select(c)
  <2>1. Loads(c, "select") /\ fresh' = fresh
    BY <1>3 DEF Select
  <2>2. PICK v \in doc.versions :
          Store(c, [doc EXCEPT !.status = "completed", !.text = v.text,
                               !.art = v.art, !.active = v.id], None, "idle")
    BY <1>3 DEF Select
  <2> DEFINE r == [doc EXCEPT !.status = "completed", !.text = v.text,
                              !.art = v.art, !.active = v.id]
  <2>3. Sound(r, fresh') /\ None \in Ids \cup {None} /\ fresh <= fresh' /\ fresh' \in 1..(MaxIds + 1)
    <3>1. Sound(doc, fresh) /\ fresh \in Nat /\ fresh \in 1..(MaxIds + 1)
      BY <2>1, Loaded
    <3>2. Sound(r, fresh)
      BY <3>1, SelectedSound
    <3> HIDE DEF r
    <3> QED
      BY <2>1, <3>1, <3>2
  <2>4. Store(c, r, None, "idle")
    BY <2>2
  <2> HIDE DEF r
  <2> QED
    BY <2>1, <2>3, <2>4, StoreStep
<1>4. ASSUME NEW op \in {"edit", "refine"}, AddVersion(c, op) PROVE CopyInv'
  <2>1. Loads(c, op) /\ fresh < MaxIds /\ fresh' = fresh + 2
    BY <1>4 DEF AddVersion
  <2>2. PICK base \in doc.versions, art \in {None, fresh + 1} :
          Store(c, Recorded(doc, fresh, base.id, art), art, "idle")
    BY <1>4 DEF AddVersion
  <2>3. /\ fresh \in Ids /\ art \in Ids \cup {None} /\ fresh + 1 \in Nat /\ fresh' \in Nat
        /\ fresh + 1 <= fresh' /\ fresh <= fresh' /\ fresh' \in 1..(MaxIds + 1)
    BY <2>1, Loaded DEF Ids
  <2>4. Sound(Recorded(doc, fresh, base.id, art), fresh + 1)
    BY <2>1, <2>3, Loaded, RecordedSound
  <2>5. Sound(Recorded(doc, fresh, base.id, art), fresh')
    BY <2>3, <2>4, SoundLater
  <2> QED
    BY <2>1, <2>2, <2>3, <2>5, StoreStep
<1>5. CASE Overwrite(c)
  <2>1. Loads(c, "overwrite") /\ fresh < MaxIds
    BY <1>5 DEF Overwrite
  <2> DEFINE Art(base) == IF base.art = None THEN fresh + 1 ELSE base.art
  <2>2. PICK base \in doc.versions :
          /\ Store(c, Changed([doc EXCEPT !.active = base.id], base, fresh, Art(base)),
                   Art(base), "idle")
          /\ fresh' = IF base.art = None THEN fresh + 2 ELSE fresh + 1
    BY <1>5 DEF Overwrite
  <2> DEFINE art == Art(base)
             r == Changed([doc EXCEPT !.active = base.id], base, fresh, art)
  <2>3. base \in Version
    BY <2>1, Loaded
  <2>4. /\ fresh \in Ids /\ art \in Ids \cup {None} /\ fresh' \in Nat
        /\ fresh <= fresh' /\ fresh' \in 1..(MaxIds + 1)
    BY <2>1, <2>2, <2>3, Loaded DEF Ids, Version
  <2>5. Sound(r, fresh)
    BY <2>1, <2>4, Loaded, ChangedSound
  <2>6. Store(c, r, art, "idle")
    BY <2>2
  <2> HIDE DEF r, art
  <2>7. Sound(r, fresh')
    BY <2>1, <2>4, <2>5, Loaded, SoundLater
  <2> QED
    BY <2>1, <2>4, <2>6, <2>7, StoreStep
<1>6. CASE SaveRun(c)
  <2>1. Loads(c, "saveRun") /\ Completed
    BY <1>6 DEF SaveRun
  <2>2. CASE Store(c, doc, None, "idle") /\ UNCHANGED fresh
    <3>1. Sound(doc, fresh') /\ None \in Ids \cup {None} /\ fresh <= fresh' /\ fresh' \in 1..(MaxIds + 1)
      BY <2>1, <2>2, Loaded
    <3> QED
      BY <2>1, <2>2, <3>1, StoreStep
  <2> DEFINE v == VersionOf(doc, doc.active)
             r == Changed(doc, v, v.text, fresh)
  <2>3. CASE fresh <= MaxIds /\ fresh' = fresh + 1 /\ Store(c, r, fresh, "idle")
    <3>1. v \in doc.versions
      BY <2>1, ShownVersion DEF Loads
    <3>2. Sound(r, fresh) /\ fresh \in Ids \cup {None}
      <4> HIDE DEF v
      <4>1. v.text \in Ids /\ doc = [doc EXCEPT !.active = doc.active]
        BY <2>1, <3>1, Loaded DEF Version, Run
      <4> QED
        BY <2>1, <2>3, <3>1, <4>1, Loaded, ChangedSound
    <3>3. fresh' \in Nat /\ fresh <= fresh' /\ fresh' \in 1..(MaxIds + 1) /\ fresh \in Nat
      BY <2>1, <2>3, Loaded
    <3> HIDE DEF r
    <3>4. Sound(r, fresh')
      BY <3>2, <3>3, SoundLater
    <3> QED
      BY <2>1, <2>3, <3>2, <3>3, <3>4, StoreStep
  <2> QED
    BY <1>6, <2>2, <2>3 DEF SaveRun
<1>7. CASE SaveVersion(c)
  <2>1. Loads(c, "saveVersion") /\ fresh <= MaxIds /\ fresh' = fresh + 1
    BY <1>7 DEF SaveVersion
  <2>2. PICK v \in doc.versions : Store(c, Changed(doc, v, v.text, fresh), fresh, "idle")
    BY <1>7 DEF SaveVersion
  <2> DEFINE r == Changed(doc, v, v.text, fresh)
  <2>3. Sound(r, fresh) /\ fresh \in Ids \cup {None}
    <3>1. v.text \in Ids /\ doc = [doc EXCEPT !.active = doc.active]
      BY <2>1, Loaded DEF Version, Run
    <3> QED
      BY <2>1, <3>1, Loaded, ChangedSound
  <2>4. fresh' \in Nat /\ fresh <= fresh' /\ fresh' \in 1..(MaxIds + 1) /\ fresh \in Nat
    BY <2>1, Loaded
  <2>5. Store(c, r, fresh, "idle")
    BY <2>2
  <2> HIDE DEF r
  <2>6. Sound(r, fresh')
    BY <2>3, <2>4, SoundLater
  <2> QED
    BY <2>1, <2>3, <2>4, <2>5, <2>6, StoreStep
<1> QED
  BY <1>1, <1>2, <1>3, <1>4, <1>5, <1>6, <1>7 DEF Load

\* The steps of a deletion, failed ones included.
LEMMA DeletionSteps ==
    ASSUME CopyInv, NEW c \in Requesters,
           \/ Delete(c) \/ DeleteSteps(c) \/ DeleteDocFails(c) \/ DeleteArtifactsFails(c)
    PROVE  CopyInv'
<1> USE DEF stores, memory, counters
<1>1. /\ Others /\ fresh \in Nat /\ faults \in Nat /\ MaxFaults \in Nat /\ c \in Actors
      /\ Holds(Idle, fresh)
  BY RunsAssumption, IdleHolds DEF CopyInv, TypeOK, Others, Actors
<1>2. act[c] \in Local /\ act[c].gone \subseteq Ids
  BY <1>1 DEF CopyInv, Holds, Local
<1>3. CASE Delete(c)
  <2> DEFINE l == [Idle EXCEPT !.pc = "mark", !.run = doc,
                               !.gone = Artifacts(doc) \cup ({doc.art} \ {None})]
  <2>1. Loads(c, "delete") /\ fresh' = fresh /\ act' = [act EXCEPT ![c] = l]
    BY <1>3 DEF Delete, Become
  <2>2. Others' /\ doc' = doc
    BY <1>1, <2>1 DEF Loads, Others
  <2>3. Artifacts(doc) \cup ({doc.art} \ {None}) \subseteq Ids
    BY <2>1, Loaded DEF Artifacts, Version
  <2>4. Holds(l, fresh')
    BY <2>1, <2>3, Loaded DEF Holds, Idle, Local
  <2>5. fresh <= fresh'
    BY <1>1, <2>1
  <2> HIDE DEF l
  <2> QED
    BY <1>1, <2>1, <2>2, <2>4, <2>5, ThreadStep
<1>4. CASE MarkDeleted(c)
  <2>1. Others' /\ fresh' = fresh /\ doc' = doc
    BY <1>1, <1>4 DEF MarkDeleted, Others
  <2> QED
    BY <1>1, <1>4, <2>1, GotoStep DEF MarkDeleted
<1>5. CASE Uncache(c)
  <2>1. Others' /\ fresh' = fresh /\ doc' = doc
    BY <1>1, <1>5 DEF Uncache, Others
  <2> QED
    BY <1>1, <1>5, <2>1, GotoStep DEF Uncache
<1>6. CASE DeleteDoc(c)
  <2>1. Others' /\ fresh' = fresh /\ doc' = NoDoc
    BY <1>1, <1>6 DEF DeleteDoc, Others
  <2> QED
    BY <1>1, <1>6, <2>1, GotoStep DEF DeleteDoc
<1>7. CASE DeleteDocFails(c)
  <2>1. Others' /\ fresh' = fresh /\ doc' = doc
    BY <1>1, <1>7 DEF DeleteDocFails, Fault, Others
  <2> QED
    BY <1>1, <1>7, <2>1, GotoStep DEF DeleteDocFails
<1>8. CASE DeleteArtifacts(c)
  <2>1. /\ Others' /\ fresh' = fresh /\ doc' = doc
        /\ act' = [act EXCEPT ![c] = Idle]
    BY <1>1, <1>8 DEF DeleteArtifacts, Become, Others
  <2>2. Holds(Idle, fresh') /\ fresh <= fresh'
    BY <1>1, <2>1
  <2> QED
    BY <1>1, <2>1, <2>2, ThreadStep
<1>9. CASE DeleteArtifactsFails(c)
  <2>1. /\ Others' /\ fresh' = fresh /\ doc' = doc
        /\ act' = [act EXCEPT ![c] = Idle]
    BY <1>1, <1>9 DEF DeleteArtifactsFails, Become, Others
  <2>2. Holds(Idle, fresh') /\ fresh <= fresh'
    BY <1>1, <2>1
  <2> QED
    BY <1>1, <2>1, <2>2, ThreadStep
<1> QED
  BY <1>3, <1>4, <1>5, <1>6, <1>7, <1>8, <1>9 DEF DeleteSteps

\* The process stops.
LEMMA RestartStep == ASSUME CopyInv, Restart PROVE CopyInv'
<1>1. Others' /\ fresh' = fresh /\ doc' = doc
  <2>1. Others /\ faults \in Nat /\ MaxFaults \in Nat
    BY RunsAssumption DEF CopyInv, TypeOK, Others
  <2>2. /\ faults < MaxFaults /\ faults' = faults + 1 /\ UNCHANGED <<phase, billed, fresh>>
        /\ cached' = FALSE /\ artCache' = {} /\ tomb' = FALSE /\ arts' = arts /\ doc' = doc
    BY DEF Restart, Fault, stores
  <2>3. faults' \in 0..MaxFaults
    BY <2>1, <2>2
  <2> QED
    BY <2>1, <2>2, <2>3, Zenon DEF Others
<1>2. \A a \in Actors : act'[a] = Idle
  BY DEF Restart
<1>3. Holds(Idle, fresh)
  BY RunsAssumption, IdleHolds DEF CopyInv, TypeOK
<1>4. act' \in [Actors -> Local]
  BY <1>3 DEF Restart, Holds
<1> QED
  BY <1>1, <1>2, <1>3, <1>4 DEF CopyInv, TypeOK, Others

--------------------------------------------------------------------------------
(* The theorems. *)

LEMMA InitCopies == Init => CopyInv
<1>1. Holds(Idle, 1)
  BY IdleHolds
<1>2. MaxIds \in Nat /\ MaxFaults \in Nat
  BY RunsAssumption
<1> SUFFICES ASSUME Init PROVE CopyInv
  OBVIOUS
<1>3. act \in [Actors -> Local] /\ \A a \in Actors : act[a] = Idle
  BY <1>1 DEF Init, Holds
<1>4. TypeOK
  <2>1. fresh \in 1..(MaxIds + 1) /\ faults \in 0..MaxFaults
    BY <1>2 DEF Init
  <2> QED
    BY <1>3, <2>1, Zenon DEF Init, TypeOK
<1> QED
  BY <1>1, <1>3, <1>4 DEF Init, CopyInv

LEMMA NextCopies == CopyInv /\ [Next]_vars => CopyInv'
<1> SUFFICES ASSUME CopyInv, [Next]_vars PROVE CopyInv'
  OBVIOUS
<1>1. ASSUME NEW a \in Actors, Working(a) PROVE CopyInv'
  BY <1>1, PersistSteps, CreateSteps, DeletionSteps, ExecuteSteps DEF Working
<1>2. ASSUME NEW c \in Requesters, Request(c) PROVE CopyInv'
  BY <1>2, CreateSteps, LoadSteps, DeletionSteps DEF Request
<1>3. CASE Faulty
  BY <1>3, PersistSteps, CreateSteps, DeletionSteps, RestartStep DEF Faulty
<1>4. CASE UNCHANGED vars
  BY <1>4 DEF vars, CopyInv, TypeOK
<1> QED
  BY <1>1, <1>2, <1>3, <1>4 DEF Next

\* However the requests, the job, failed writes and restarts interleave, the document and
\* every copy in flight are a run that shows its active version and numbers its versions
\* along their tree (_persist_run_state stores whole copies).
THEOREM RunsStayCoherent == Spec => []RunsCoherent
<1>1. CopyInv => RunsCoherent
  BY DEF CopyInv, Holds, Sound, RunsCoherent, CopiesCoherent
<1> QED
  BY <1>1, InitCopies, NextCopies, PTL DEF Spec

\* What a step does to the tombstone, the cache of runs and a thread about to clear it.
Uncaching == \E c \in Requesters : act[c].pc = "uncache"

LEMMA StillUncaching ==
    ASSUME CopyInv, Uncaching, NEW b \in Actors, act[b].pc # "uncache",
           \A a \in Actors : a # b => act'[a] = act[a]
    PROVE  Uncaching'
BY DEF Uncaching, Actors

\* A run of this process's list that another request has deleted is never put back in it,
\* not by a write that passed the tombstone's check before (_cache_run, delete_run).
THEOREM DeletedNeverCached == Spec => []DeletedNotCached
<1> DEFINE Inv == tomb /\ cached => Uncaching
<1>1. Inv => DeletedNotCached
  BY DEF DeletedNotCached, Uncaching
<1>2. Init => Inv
  BY DEF Init
<1>3. CopyInv /\ Inv /\ [Next]_vars => Inv'
  <2> SUFFICES ASSUME CopyInv, Inv, [Next]_vars PROVE Inv'
    OBVIOUS
  <2> USE DEF stores, memory, counters
  <2>1. ASSUME NEW b \in Actors, act[b].pc # "uncache", tomb' = tomb,
               cached' => cached \/ ~tomb,
               \A a \in Actors : a # b => act'[a] = act[a]
        PROVE  Inv'
    BY <2>1, StillUncaching
  <2>2. \A a \in Actors : \A pc : Goto(a, pc) =>
           /\ \A b \in Actors : b # a => act'[b] = act[b]
           /\ act'[a].pc = pc
    BY DEF Goto, CopyInv, TypeOK, Local
  <2>3. \A a \in Actors : \A l : Become(a, l) => \A b \in Actors : b # a => act'[b] = act[b]
    BY DEF Become, CopyInv, TypeOK
  <2>4. \A a \in Actors : \A run, art, then :
           Store(a, run, art, then) => \A b \in Actors : b # a => act'[b] = act[b]
    BY <2>3 DEF Store
  <2>5. \A a \in Actors : Return(a) => \A b \in Actors : b # a => act'[b] = act[b]
    BY <2>3 DEF Return
  <2>6. ASSUME NEW a \in Actors, Persist(a) \/ PersistFault(a) PROVE Inv'
    BY <2>1, <2>2, <2>5, <2>6
       DEF Persist, PersistFault, CacheArtifact, WriteArtifact, CheckDeleted, CacheRun,
           WriteRun, WriteArtifactFails, WriteRunFails
  <2>7. ASSUME NEW c \in Requesters, Create(c) \/ SubmitFails(c) PROVE Inv'
    BY <2>1, <2>4, <2>7 DEF Create, SubmitFails, Actors
  <2>8. ASSUME NEW c \in Requesters, Submit(c) PROVE Inv'
    <3>1. \A b \in Requesters : b # c => act'[b] = act[b]
      BY <2>8, RunsAssumption DEF Submit, CopyInv, TypeOK, Actors
    <3> QED
      BY <2>8, <3>1 DEF Submit, Uncaching
  <2>9. CASE Execute
    <3>1. Worker \in Actors
      BY DEF Actors
    <3> QED
      BY <2>1, <2>3, <2>4, <2>9, <3>1
         DEF Execute, Start, GenerateFails, GenerateRefused, Generate
  <2>10. ASSUME NEW c \in Requesters, Load(c) PROVE Inv'
    BY <2>1, <2>4, <2>10
       DEF Load, Loads, Rename, Touch, Select, AddVersion, Overwrite, SaveRun, SaveVersion, Actors
  <2>11. ASSUME NEW c \in Requesters, Delete(c) PROVE Inv'
    BY <2>1, <2>3, <2>11 DEF Delete, Loads, Actors
  <2>12. ASSUME NEW c \in Requesters, DeleteDoc(c) \/ DeleteDocFails(c) PROVE Inv'
    BY <2>1, <2>2, <2>12 DEF DeleteDoc, DeleteDocFails, Actors
  <2>13. ASSUME NEW c \in Requesters, DeleteArtifacts(c) \/ DeleteArtifactsFails(c)
         PROVE  Inv'
    BY <2>1, <2>3, <2>13 DEF DeleteArtifacts, DeleteArtifactsFails, Actors
  <2>14. ASSUME NEW c \in Requesters, MarkDeleted(c) PROVE Inv'
    BY <2>2, <2>14 DEF MarkDeleted, Uncaching, Actors
  <2>15. ASSUME NEW c \in Requesters, Uncache(c) PROVE Inv'
    BY <2>15 DEF Uncache
  <2>16. CASE Restart
    BY <2>16 DEF Restart
  <2>17. CASE UNCHANGED vars
    BY <2>17 DEF vars, Uncaching
  <2> QED
    BY <2>6, <2>7, <2>8, <2>9, <2>10, <2>11, <2>12, <2>13, <2>14, <2>15, <2>16,
       <2>17
       DEF Next, Working, Request, Faulty, DeleteSteps
<1> QED
  BY <1>1, <1>2, <1>3, InitCopies, NextCopies, PTL DEF Spec

--------------------------------------------------------------------------------
(* One request at a time, and no rename: nothing is stored over what another stored. *)

\* Requests follow one another; renames, which a running job does not exclude, are left out.
Alone == "rename" \notin Ops /\ \E r : Requesters = {r}
Caller == CHOOSE r : Requesters = {r}

Storing == {"art", "artWrite", "check", "cache", "write"}
Deleting == {"mark", "uncache", "delDoc", "delArts"}
VersionIds(run) == {v.id : v \in run.versions}

\* As long as nothing failed and the run is not deleted, each artifact is accounted for.
Counted == phase = "created" /\ faults = 0

\* While the job is under way the run has no version yet, and a request can only delete it.
JobInv ==
    LET w == act[Worker] IN
    /\ w.then # "submit"
    /\ w.pc # "idle" =>
        /\ w.pc \in {"queued", "generate"} \cup Storing
        /\ act[Caller].pc \in {"idle"} \cup Deleting
        /\ doc # NoDoc => doc.versions = {} /\ doc.status \in {"queued", "running"}
        /\ w.pc = "generate" \/ (w.pc \in Storing /\ w.then = "generate") =>
              w.run.versions = {} /\ w.run.status = "running" /\ w.art = None
        /\ w.pc \in {"art", "artWrite"} => Artifacts(w.run) = {w.art}
        /\ Counted => arts = IF w.pc \in {"check", "cache", "write"} THEN Artifacts(w.run) ELSE {}

\* A request stores the run it loaded and one artifact more, or deletes all there are.
RequestInv ==
    LET r == act[Caller] IN
    /\ r.pc \in {"idle", "submit"} \cup Storing \cup Deleting
    /\ r.pc \in Storing => act[Worker].pc = "idle" /\ r.then # "generate"
    /\ r.pc \in Storing /\ r.then = "submit" =>
          r.run = NewRun /\ r.art = None /\ doc = NoDoc /\ ~tomb /\ (Counted => arts = {})
    /\ r.pc = "submit" => act[Worker].pc = "idle" /\ doc = NewRun /\ (Counted => arts = {})
    /\ r.pc \in Storing /\ r.then = "idle" =>
          /\ doc # NoDoc /\ VersionIds(doc) \subseteq VersionIds(r.run)
          /\ Counted /\ r.pc \in {"art", "artWrite"} =>
                arts = Artifacts(doc) /\ Artifacts(r.run) = arts \cup {r.art}
          /\ Counted /\ r.pc \in {"check", "cache", "write"} => arts = Artifacts(r.run)
    /\ r.pc \in Deleting /\ Counted /\ r.run.status \in {"completed", "failed"} =>
          act[Worker].pc = "idle" /\ arts \subseteq r.gone

StoresInv ==
    /\ phase = "new" => doc = NoDoc /\ arts = {} /\ ~tomb /\ \A a \in Actors : act[a].pc = "idle"
    /\ Counted /\ tomb => act[Caller].pc \in {"uncache", "delDoc", "delArts"}
    /\ Counted /\ doc = NoDoc =>
          act[Caller].pc = "delArts" \/ (act[Caller].pc \in Storing /\ act[Caller].then = "submit")
    /\ Counted /\ act[Caller].pc = "idle" /\ act[Worker].pc = "idle" => arts = Artifacts(doc)

AloneInv == JobInv /\ RequestInv /\ StoresInv

VersionsKept == doc # NoDoc /\ doc' # NoDoc => VersionIds(doc) \subseteq VersionIds(doc')

LEMMA CallerIs ==
    ASSUME Alone
    PROVE  /\ Requesters = {Caller} /\ Actors = {Caller, Worker} /\ Caller # Worker
           /\ "rename" \notin Ops
BY RunsAssumption DEF Alone, Caller, Actors

\* What a thread has after its steps.
LEMMA GotoGives ==
    ASSUME CopyInv, NEW a \in Actors, NEW pc, Goto(a, pc)
    PROVE  /\ act'[a].pc = pc /\ act'[a].then = act[a].then /\ act'[a].run = act[a].run
           /\ act'[a].art = act[a].art /\ act'[a].gone = act[a].gone
           /\ \A b \in Actors : b # a => act'[b] = act[b]
<1>1. act[a] \in Local /\ act' = [act EXCEPT ![a] = [act[a] EXCEPT !.pc = pc]]
  BY DEF Goto, CopyInv, TypeOK
<1>2. act'[a] = [act[a] EXCEPT !.pc = pc] /\ \A b \in Actors : b # a => act'[b] = act[b]
  BY <1>1 DEF CopyInv, TypeOK
<1> QED
  BY <1>1, <1>2 DEF Local

LEMMA StoreGives ==
    ASSUME CopyInv, NEW a \in Actors, NEW run, NEW art, NEW then, Store(a, run, art, then)
    PROVE  /\ act'[a].pc = (IF art = None THEN "check" ELSE "art") /\ act'[a].then = then
           /\ act'[a].run = run /\ act'[a].art = art
           /\ \A b \in Actors : b # a => act'[b] = act[b]
<1> DEFINE l == [Idle EXCEPT !.pc = IF art = None THEN "check" ELSE "art",
                             !.then = then, !.run = run, !.art = art]
<1>1. act' = [act EXCEPT ![a] = l]
  BY DEF Store, Become
<1>2. l.pc = (IF art = None THEN "check" ELSE "art") /\ l.then = then /\ l.run = run /\ l.art = art
  BY DEF Idle
<1> HIDE DEF l
<1> QED
  BY <1>1, <1>2 DEF CopyInv, TypeOK

LEMMA BecomeGives ==
    ASSUME CopyInv, NEW a \in Actors, NEW l, Become(a, l)
    PROVE  act'[a] = l /\ \A b \in Actors : b # a => act'[b] = act[b]
BY DEF Become, CopyInv, TypeOK

LEMMA ReturnGives ==
    ASSUME CopyInv, NEW a \in Actors, Return(a)
    PROVE  /\ act'[a].then = "idle" /\ act'[a].art = None /\ act'[a].pc = act[a].then
           /\ act[a].then # "idle" => act'[a].run = act[a].run
           /\ \A b \in Actors : b # a => act'[b] = act[b]
<1> DEFINE l == IF act[a].then = "idle" THEN Idle ELSE [Idle EXCEPT !.pc = act[a].then, !.run = act[a].run]
<1>1. Become(a, l)
  BY DEF Return
<1>2. /\ l.then = "idle" /\ l.art = None /\ l.pc = act[a].then
      /\ act[a].then # "idle" => l.run = act[a].run
  BY DEF Idle
<1> HIDE DEF l
<1> QED
  BY <1>1, <1>2, BecomeGives

LEMMA FaultUncounted == ASSUME CopyInv, faults' = faults + 1 PROVE ~(Counted')
BY RunsAssumption DEF Counted, CopyInv, TypeOK

\* The artifacts and versions of a run given another one.
LEMMA RecordedGives ==
    ASSUME NEW run \in Run, NEW id, NEW parent, NEW art
    PROVE  /\ Artifacts(Recorded(run, id, parent, art)) = Artifacts(run) \cup ({art} \ {None})
           /\ VersionIds(run) \subseteq VersionIds(Recorded(run, id, parent, art))
<1> DEFINE new == [id |-> id, number |-> NextNumber(run), parent |-> parent, text |-> id, art |-> art]
<1>1. Recorded(run, id, parent, art).versions = run.versions \cup {new} /\ new.art = art
  BY DEF Recorded, Run
<1> HIDE DEF new
<1> QED
  BY <1>1 DEF Artifacts, VersionIds

LEMMA ChangedGives ==
    ASSUME NEW run \in Run, NEW v \in run.versions, NEW text, NEW art
    PROVE  /\ VersionIds(run) \subseteq VersionIds(Changed(run, v, text, art))
           /\ v.art \in {None, art} => Artifacts(Changed(run, v, text, art)) = Artifacts(run) \cup ({art} \ {None})
<1> DEFINE new == [v EXCEPT !.text = text, !.art = art]
           r == Changed(run, v, text, art)
<1>1. v \in Version
  BY DEF Run
<1>2. r.versions = (run.versions \ {v}) \cup {new} /\ new.id = v.id /\ new.art = art
  BY <1>1 DEF Changed, Run, Version
<1> HIDE DEF new, r
<1>3. VersionIds(run) \subseteq VersionIds(r)
  <2> SUFFICES ASSUME NEW w \in run.versions PROVE \E x \in r.versions : x.id = w.id
    BY DEF VersionIds
  <2> QED
    BY <1>2
<1>4. v.art \in {None, art} => \A x : x \in Artifacts(r) <=> x \in Artifacts(run) \cup ({art} \ {None})
  BY <1>2 DEF Artifacts
<1> QED
  BY <1>3, <1>4 DEF r

LEMMA CallerPersists ==
    ASSUME Alone, CopyInv, AloneInv, Persist(Caller) \/ PersistFault(Caller)
    PROVE  AloneInv' /\ VersionsKept
<1> DEFINE r == act[Caller]
           w == act[Worker]
<1> USE DEF stores, memory, counters
<1>0. /\ Caller \in Actors /\ Worker \in Actors /\ Actors = {Caller, Worker} /\ Caller # Worker
      /\ r.pc \in Storing => w.pc = "idle" /\ r.then \in {"idle", "submit"}
      /\ r.pc \in {"art", "artWrite"} => r.then = "idle" /\ r.art # None
      /\ \A b \in Actors : act[b] \in Local
  BY CallerIs DEF AloneInv, RequestInv, CopyInv, Holds, Local, Storing
<1>1. CASE CacheArtifact(Caller)
  <2>1. Goto(Caller, "artWrite") /\ r.pc = "art" /\ UNCHANGED <<doc, arts, tomb, phase, faults>>
    BY <1>1 DEF CacheArtifact
  <2>2. act'[Worker] = w /\ act'[Caller].pc = "artWrite" /\ act'[Caller].then = r.then
        /\ act'[Caller].run = r.run /\ act'[Caller].art = r.art
    BY <1>0, <2>1, GotoGives
  <2> QED
    BY <1>0, <2>1, <2>2 DEF AloneInv, JobInv, RequestInv, StoresInv, Storing, Deleting, VersionsKept, Counted
<1>2. CASE WriteArtifact(Caller)
  <2>1. Goto(Caller, "check") /\ r.pc = "artWrite" /\ UNCHANGED <<doc, tomb, phase, faults>>
        /\ arts' = arts \cup {r.art}
    BY <1>2 DEF WriteArtifact
  <2>2. act'[Worker] = w /\ act'[Caller].pc = "check" /\ act'[Caller].then = r.then
        /\ act'[Caller].run = r.run /\ act'[Caller].art = r.art
    BY <1>0, <2>1, GotoGives
  <2> QED
    BY <1>0, <2>1, <2>2 DEF AloneInv, JobInv, RequestInv, StoresInv, Storing, Deleting, VersionsKept, Counted
<1>3. CASE WriteArtifactFails(Caller)
  <2>1. Goto(Caller, "check") /\ r.pc = "artWrite" /\ UNCHANGED <<doc, arts, tomb, phase>> /\ ~(Counted')
    BY <1>3, FaultUncounted DEF WriteArtifactFails, Fault
  <2>2. act'[Worker] = w /\ act'[Caller].pc = "check" /\ act'[Caller].then = r.then
        /\ act'[Caller].run = r.run /\ act'[Caller].art = r.art
    BY <1>0, <2>1, GotoGives
  <2> QED
    BY <1>0, <2>1, <2>2 DEF AloneInv, JobInv, RequestInv, StoresInv, Storing, Deleting, VersionsKept
<1>4. CASE CheckDeleted(Caller)
  <2>1. r.pc = "check" /\ UNCHANGED <<doc, arts, tomb, phase, faults>>
    BY <1>4 DEF CheckDeleted
  <2>2. CASE tomb
    <3>1. Return(Caller) /\ r.then = "idle" /\ ~Counted
      BY <1>0, <1>4, <2>1, <2>2 DEF CheckDeleted, AloneInv, RequestInv, StoresInv, Storing
    <3>2. act'[Worker] = w /\ act'[Caller].pc = "idle" /\ act'[Caller].then = "idle"
      BY <1>0, <3>1, ReturnGives
    <3> QED
      BY <1>0, <2>1, <3>1, <3>2 DEF AloneInv, JobInv, RequestInv, StoresInv, Storing, Deleting, VersionsKept, Counted
  <2>3. CASE ~tomb
    <3>1. act'[Worker] = w /\ act'[Caller].pc = "cache" /\ act'[Caller].then = r.then
          /\ act'[Caller].run = r.run /\ act'[Caller].art = r.art
      BY <1>0, <1>4, <2>3, GotoGives DEF CheckDeleted
    <3> QED
      BY <1>0, <2>1, <2>3, <3>1 DEF AloneInv, JobInv, RequestInv, StoresInv, Storing, Deleting, VersionsKept, Counted
  <2> QED
    BY <2>2, <2>3
<1>5. CASE CacheRun(Caller)
  <2>1. Goto(Caller, "write") /\ r.pc = "cache" /\ UNCHANGED <<doc, arts, tomb, phase, faults>>
    BY <1>5 DEF CacheRun
  <2>2. act'[Worker] = w /\ act'[Caller].pc = "write" /\ act'[Caller].then = r.then
        /\ act'[Caller].run = r.run /\ act'[Caller].art = r.art
    BY <1>0, <2>1, GotoGives
  <2> QED
    BY <1>0, <2>1, <2>2 DEF AloneInv, JobInv, RequestInv, StoresInv, Storing, Deleting, VersionsKept, Counted
<1>6. CASE WriteRun(Caller)
  <2>1. Return(Caller) /\ r.pc = "write" /\ UNCHANGED <<arts, tomb, phase, faults>> /\ doc' = r.run
    BY <1>6 DEF WriteRun
  <2>2. act'[Worker] = w /\ act'[Caller].pc = r.then /\ act'[Caller].then = "idle"
    BY <1>0, <2>1, ReturnGives
  <2>3. doc' # NoDoc
    BY <1>0, <2>1 DEF Local, Run, NoDoc
  <2>4. r.then = "submit" => r.run = NewRun /\ Artifacts(NewRun) = {}
    BY <2>1 DEF Artifacts, NewRun, AloneInv, RequestInv, Storing
  <2> QED
    BY <1>0, <2>1, <2>2, <2>3, <2>4 DEF AloneInv, JobInv, RequestInv, StoresInv, Storing, Deleting, VersionsKept,
       Counted
<1>7. CASE WriteRunFails(Caller)
  <2>1. Return(Caller) /\ r.pc = "write" /\ r.then = "idle" /\ UNCHANGED <<doc, arts, tomb, phase>>
        /\ ~(Counted')
    BY <1>0, <1>7, FaultUncounted DEF WriteRunFails, Fault, Storing
  <2>2. act'[Worker] = w /\ act'[Caller].pc = "idle" /\ act'[Caller].then = "idle"
    BY <1>0, <2>1, ReturnGives
  <2> QED
    BY <1>0, <2>1, <2>2 DEF AloneInv, JobInv, RequestInv, StoresInv, Storing, Deleting, VersionsKept
<1> QED
  BY <1>1, <1>2, <1>3, <1>4, <1>5, <1>6, <1>7 DEF Persist, PersistFault

LEMMA JobPersists ==
    ASSUME Alone, CopyInv, AloneInv, Persist(Worker) \/ PersistFault(Worker)
    PROVE  AloneInv' /\ VersionsKept
<1> DEFINE r == act[Caller]
           w == act[Worker]
<1> USE DEF stores, memory, counters
<1>0. /\ Caller \in Actors /\ Worker \in Actors /\ Actors = {Caller, Worker} /\ Caller # Worker
      /\ \A b \in Actors : act[b] \in Local
      /\ w.pc \in Storing => w.then \in {"idle", "generate"} /\ r.pc \in {"idle"} \cup Deleting
      /\ w.pc \in {"art", "artWrite"} => w.then = "idle" /\ w.art # None
  BY CallerIs DEF AloneInv, JobInv, CopyInv, Holds, Local, Storing
<1>1. ASSUME NEW pc \in Storing, Goto(Worker, pc), w.pc \in Storing,
             UNCHANGED <<doc, arts, tomb, phase, faults>>,
             {pc, w.pc} \subseteq {"art", "artWrite"} \/ {pc, w.pc} \subseteq {"check", "cache", "write"}
      PROVE  AloneInv' /\ VersionsKept
  <2>1. act'[Caller] = r /\ act'[Worker].pc = pc /\ act'[Worker].then = w.then
        /\ act'[Worker].run = w.run /\ act'[Worker].art = w.art
    BY <1>0, <1>1, GotoGives
  <2> QED
    BY <1>0, <1>1, <2>1 DEF AloneInv, JobInv, RequestInv, StoresInv, Storing, Deleting, VersionsKept, Counted
<1>2. CASE CacheArtifact(Worker)
  BY <1>1, <1>2 DEF CacheArtifact, Storing
<1>3. CASE WriteArtifact(Worker)
  <2>1. Goto(Worker, "check") /\ w.pc = "artWrite" /\ UNCHANGED <<doc, tomb, phase, faults>>
        /\ arts' = arts \cup {w.art}
    BY <1>3 DEF WriteArtifact
  <2>2. act'[Caller] = r /\ act'[Worker].pc = "check" /\ act'[Worker].then = w.then
        /\ act'[Worker].run = w.run /\ act'[Worker].art = w.art
    BY <1>0, <2>1, GotoGives
  <2> QED
    BY <1>0, <2>1, <2>2 DEF AloneInv, JobInv, RequestInv, StoresInv, Storing, Deleting, VersionsKept, Counted
<1>4. CASE WriteArtifactFails(Worker)
  <2>1. Goto(Worker, "check") /\ w.pc = "artWrite" /\ UNCHANGED <<doc, arts, tomb, phase>> /\ ~(Counted')
    BY <1>4, FaultUncounted DEF WriteArtifactFails, Fault
  <2>2. act'[Caller] = r /\ act'[Worker].pc = "check" /\ act'[Worker].then = w.then
        /\ act'[Worker].run = w.run /\ act'[Worker].art = w.art
    BY <1>0, <2>1, GotoGives
  <2> QED
    BY <1>0, <2>1, <2>2 DEF AloneInv, JobInv, RequestInv, StoresInv, Storing, Deleting, VersionsKept
<1>5. ASSUME Return(Worker), w.pc \in {"check", "write"}, UNCHANGED <<arts, tomb, phase>>,
             faults' = faults \/ ~(Counted'),
             \/ doc' = w.run
             \/ doc' = doc /\ (~(Counted') \/ ~(Counted /\ r.pc = "idle"))
      PROVE  AloneInv' /\ VersionsKept
  <2>1. act'[Caller] = r /\ act'[Worker].pc = w.then /\ act'[Worker].then = "idle"
        /\ act'[Worker].art = None /\ (w.then # "idle" => act'[Worker].run = w.run)
    BY <1>0, <1>5, ReturnGives
  <2>2. w.run \in Run /\ w.run # NoDoc
    BY <1>0 DEF Local, Run, NoDoc
  <2>3. w.then = "generate" => /\ w.run.versions = {} /\ Artifacts(w.run) = {}
                               /\ w.run.status \in {"queued", "running"}
    BY <1>5 DEF AloneInv, JobInv, Storing, Artifacts
  <2> QED
    BY <1>0, <1>5, <2>1, <2>2, <2>3 DEF AloneInv, JobInv, RequestInv, StoresInv, Storing, Deleting, VersionsKept,
       Counted, VersionIds
<1>6. CASE CheckDeleted(Worker)
  <2>1. CASE tomb
    <3>1. ~(Counted /\ r.pc = "idle")
      BY <2>1 DEF AloneInv, StoresInv
    <3> QED
      BY <1>5, <1>6, <2>1, <3>1 DEF CheckDeleted
  <2>2. CASE ~tomb
    BY <1>1, <1>6, <2>2 DEF CheckDeleted, Storing
  <2> QED
    BY <2>1, <2>2
<1>7. CASE CacheRun(Worker)
  BY <1>1, <1>7 DEF CacheRun, Storing
<1>8. CASE WriteRun(Worker)
  BY <1>5, <1>8 DEF WriteRun
<1>9. CASE WriteRunFails(Worker)
  <2>1. ~(Counted')
    BY <1>9, FaultUncounted DEF WriteRunFails, Fault
  <2> QED
    BY <1>5, <1>9, <2>1 DEF WriteRunFails, Fault
<1> QED
  BY <1>2, <1>3, <1>4, <1>6, <1>7, <1>8, <1>9 DEF Persist, PersistFault

LEMMA CallerCreates ==
    ASSUME Alone, CopyInv, AloneInv, Create(Caller) \/ Submit(Caller) \/ SubmitFails(Caller)
    PROVE  AloneInv' /\ VersionsKept
<1> DEFINE r == act[Caller]
           w == act[Worker]
<1> USE DEF stores, memory, counters
<1>0. Caller \in Actors /\ Worker \in Actors /\ Actors = {Caller, Worker} /\ Caller # Worker
  BY CallerIs
<1>1. CASE Create(Caller)
  <2>1. Store(Caller, NewRun, None, "submit") /\ phase = "new" /\ phase' = "created"
        /\ UNCHANGED <<doc, arts, tomb, faults>>
    BY <1>1 DEF Create
  <2>2. act'[Worker] = w /\ act'[Caller].pc = "check" /\ act'[Caller].then = "submit"
        /\ act'[Caller].run = NewRun /\ act'[Caller].art = None
    BY <1>0, <2>1, StoreGives
  <2> QED
    BY <1>0, <2>1, <2>2 DEF AloneInv, JobInv, RequestInv, StoresInv, Storing, Deleting, VersionsKept, Counted
<1>2. CASE Submit(Caller)
  <2>1. r.pc = "submit" /\ act' = [act EXCEPT ![Caller] = Idle, ![Worker] = [w EXCEPT !.pc = "queued"]]
        /\ UNCHANGED <<doc, arts, tomb, phase, faults>>
    BY <1>0, <1>2 DEF Submit, CopyInv, TypeOK
  <2>2. w \in Local /\ w.then \in {"idle", "generate", "submit"}
    BY <1>0 DEF CopyInv, Holds, Local
  <2>3. /\ act'[Caller] = Idle /\ act'[Worker] = [w EXCEPT !.pc = "queued"] /\ Idle.pc = "idle"
        /\ act'[Worker].pc = "queued" /\ act'[Worker].then = w.then
    BY <1>0, <2>1, <2>2 DEF CopyInv, TypeOK, Local, Idle
  <2> QED
    BY <1>0, <2>1, <2>2, <2>3 DEF AloneInv, JobInv, RequestInv, StoresInv, Storing, Deleting, VersionsKept,
       Counted, NewRun
<1>3. CASE SubmitFails(Caller)
  <2> DEFINE run == [NewRun EXCEPT !.status = "failed"]
  <2>1. Store(Caller, run, None, "idle") /\ r.pc = "submit" /\ UNCHANGED <<doc, arts, tomb, phase>> /\ ~(Counted')
    BY <1>3, FaultUncounted DEF SubmitFails, Fault
  <2>2. run.versions = NewRun.versions
    BY DEF NewRun
  <2>3. NewRun # NoDoc
    BY NewRunSound DEF Sound, Run, NoDoc
  <2> HIDE DEF run
  <2>4. act'[Worker] = w /\ act'[Caller].pc = "check" /\ act'[Caller].then = "idle"
        /\ act'[Caller].run = run /\ act'[Caller].art = None
    BY <1>0, <2>1, StoreGives
  <2> QED
    BY <1>0, <2>1, <2>2, <2>3, <2>4 DEF AloneInv, JobInv, RequestInv, StoresInv, Storing, Deleting, VersionsKept,
       VersionIds
<1> QED
  BY <1>1, <1>2, <1>3

LEMMA JobExecutes ==
    ASSUME Alone, CopyInv, AloneInv, Execute
    PROVE  AloneInv' /\ VersionsKept
<1> DEFINE r == act[Caller]
           w == act[Worker]
<1> USE DEF stores, memory, counters
<1>0. /\ Caller \in Actors /\ Worker \in Actors /\ Actors = {Caller, Worker} /\ Caller # Worker
      /\ w \in Local /\ w.run \in Run
  BY CallerIs DEF CopyInv, Holds, Local
<1>1. CASE Start
  <2>1. w.pc = "queued" /\ UNCHANGED <<doc, arts, tomb, phase, faults>>
    BY <1>1 DEF Start
  <2>2. CASE doc = NoDoc
    <3>1. act'[Worker] = Idle /\ act'[Caller] = r /\ Idle.pc = "idle" /\ Idle.then = "idle"
      BY <1>0, <1>1, <2>2, BecomeGives DEF Start, Idle
    <3> QED
      BY <1>0, <2>1, <2>2, <3>1 DEF AloneInv, JobInv, RequestInv, StoresInv, Storing, Deleting, VersionsKept,
         Counted
  <2>3. CASE doc # NoDoc
    <3> DEFINE run == [doc EXCEPT !.status = "running"]
    <3>1. run.versions = doc.versions /\ run.status = "running"
      BY <2>3 DEF CopyInv, TypeOK, Run
    <3>2. Store(Worker, run, None, "generate")
      BY <1>1, <2>3 DEF Start
    <3> HIDE DEF run
    <3>3. act'[Caller] = r /\ act'[Worker].pc = "check" /\ act'[Worker].then = "generate"
          /\ act'[Worker].run = run /\ act'[Worker].art = None
      BY <1>0, <3>2, StoreGives
    <3>4. doc.versions = {} /\ Artifacts(run) = {}
      BY <2>1, <2>3, <3>1 DEF AloneInv, JobInv, Artifacts
    <3> QED
      BY <1>0, <2>1, <2>3, <3>1, <3>3, <3>4 DEF AloneInv, JobInv, RequestInv, StoresInv, Storing, Deleting,
         VersionsKept, Counted
  <2> QED
    BY <2>2, <2>3
<1>2. ASSUME NEW run, NEW art, Store(Worker, run, art, "idle"), w.pc = "generate",
             art \in {None} \/ Artifacts(run) = {art}, art = None => Artifacts(run) = {},
             UNCHANGED <<doc, arts, tomb, phase, faults>>
      PROVE  AloneInv' /\ VersionsKept
  <2>1. act'[Caller] = r /\ act'[Worker].pc = (IF art = None THEN "check" ELSE "art")
        /\ act'[Worker].then = "idle" /\ act'[Worker].run = run /\ act'[Worker].art = art
    BY <1>0, <1>2, StoreGives
  <2> QED
    BY <1>0, <1>2, <2>1 DEF AloneInv, JobInv, RequestInv, StoresInv, Storing, Deleting, VersionsKept, Counted
<1>3. w.pc = "generate" => Artifacts(w.run) = {}
  BY DEF AloneInv, JobInv, Artifacts
<1>4. \A run \in Run : \A status : Artifacts([run EXCEPT !.status = status]) = Artifacts(run)
  BY DEF Artifacts, Run
<1>5. CASE GenerateFails
  BY <1>0, <1>2, <1>3, <1>4, <1>5 DEF GenerateFails
<1>6. CASE GenerateRefused
  <2> DEFINE made == Recorded(w.run, fresh, None, None)
             run == [made EXCEPT !.status = "failed"]
  <2>1. w.pc = "generate" /\ Store(Worker, run, None, "idle") /\ UNCHANGED <<doc, arts, tomb, phase, faults>>
    BY <1>6 DEF GenerateRefused
  <2>2. run.versions = made.versions
    BY <1>0 DEF Recorded, Run
  <2>3. Artifacts(made) = {}
    BY <1>0, <1>3, <2>1, RecordedGives
  <2>4. Artifacts(run) = {}
    BY <2>2, <2>3 DEF Artifacts
  <2> HIDE DEF run
  <2> QED
    BY <1>2, <2>1, <2>4
<1>7. CASE Generate
  <2>1. PICK art \in {None, fresh + 1} :
          /\ w.pc = "generate" /\ UNCHANGED <<doc, arts, tomb, phase, faults>>
          /\ Store(Worker, [Recorded(w.run, fresh, None, art) EXCEPT !.status = "completed"], art, "idle")
    BY <1>7 DEF Generate
  <2> DEFINE made == Recorded(w.run, fresh, None, art)
             run == [made EXCEPT !.status = "completed"]
  <2>2. run.versions = made.versions
    BY <1>0 DEF Recorded, Run
  <2>3. Artifacts(made) = {art} \ {None}
    BY <1>0, <1>3, <2>1, RecordedGives
  <2>4. Artifacts(run) = {art} \ {None}
    BY <2>2, <2>3 DEF Artifacts
  <2>5. Store(Worker, run, art, "idle")
    BY <2>1
  <2> HIDE DEF run
  <2> QED
    BY <1>2, <2>1, <2>4, <2>5
<1> QED
  BY <1>1, <1>5, <1>6, <1>7 DEF Execute

\* A request stores what it loaded, with one artifact more or with none.
LEMMA LoadGives ==
    ASSUME Alone, CopyInv, AloneInv, NEW op, Loads(Caller, op), act[Worker].pc = "idle",
           NEW run, NEW art, Store(Caller, run, art, "idle"),
           VersionIds(doc) \subseteq VersionIds(run),
           Counted => Artifacts(run) = Artifacts(doc) \cup ({art} \ {None})
    PROVE  AloneInv'
<1> USE DEF stores, memory
<1>0. Caller \in Actors /\ Worker \in Actors /\ Actors = {Caller, Worker} /\ Caller # Worker
  BY CallerIs
<1>1. act[Caller].pc = "idle" /\ doc # NoDoc /\ UNCHANGED <<doc, arts, tomb, phase, faults>>
  BY DEF Loads
<1>2. /\ act'[Worker] = act[Worker] /\ act'[Caller].pc = (IF art = None THEN "check" ELSE "art")
      /\ act'[Caller].then = "idle" /\ act'[Caller].run = run /\ act'[Caller].art = art
  BY <1>0, StoreGives
<1> QED
  BY <1>0, <1>1, <1>2 DEF AloneInv, JobInv, RequestInv, StoresInv, Storing, Deleting, Counted

LEMMA CallerLoads ==
    ASSUME Alone, CopyInv, AloneInv, Load(Caller)
    PROVE  AloneInv' /\ VersionsKept
<1>0. /\ Caller \in Actors /\ Caller \in Requesters /\ ~Rename(Caller)
      /\ \A op : Loads(Caller, op) => doc # NoDoc /\ doc \in Run /\ doc' = doc
      /\ doc = [doc EXCEPT !.active = doc.active] \/ doc = NoDoc
  BY CallerIs DEF Actors, Rename, Loads, stores, CopyInv, TypeOK, Run
<1>1. VersionsKept
  BY <1>0 DEF Load, Touch, Select, AddVersion, Overwrite, SaveRun, SaveVersion, VersionsKept
<1>2. doc # NoDoc /\ doc.versions # {} => act[Worker].pc = "idle"
  BY DEF AloneInv, JobInv
<1>3. doc # NoDoc /\ Completed => doc.versions # {}
  BY DEF CopyInv, Sound, Coherent, Completed
<1>4. CASE Touch(Caller)
  BY <1>0, <1>2, <1>1, <1>4, LoadGives DEF Touch
<1>5. CASE Select(Caller)
  <2>1. PICK v \in doc.versions :
          Store(Caller, [doc EXCEPT !.status = "completed", !.text = v.text,
                                    !.art = v.art, !.active = v.id], None, "idle")
    BY <1>5 DEF Select
  <2> DEFINE run == [doc EXCEPT !.status = "completed", !.text = v.text, !.art = v.art, !.active = v.id]
  <2>2. Loads(Caller, "select")
    BY <1>5 DEF Select
  <2>3. run.versions = doc.versions
    BY <1>0, <2>2 DEF Run
  <2>4. VersionIds(doc) \subseteq VersionIds(run) /\ Artifacts(run) = Artifacts(doc) \cup ({None} \ {None})
    BY <2>3 DEF VersionIds, Artifacts
  <2>5. Store(Caller, run, None, "idle")
    BY <2>1
  <2> HIDE DEF run
  <2> QED
    BY <1>0, <1>1, <1>2, <2>1, <2>2, <2>4, <2>5, LoadGives
<1>6. ASSUME NEW op \in {"edit", "refine"}, AddVersion(Caller, op) PROVE AloneInv'
  <2>1. PICK base \in doc.versions, art \in {None, fresh + 1} :
          Store(Caller, Recorded(doc, fresh, base.id, art), art, "idle")
    BY <1>6 DEF AddVersion
  <2>2. Loads(Caller, op) /\ Completed
    BY <1>6 DEF AddVersion
  <2> QED
    BY <1>0, <1>2, <1>3, <2>1, <2>2, LoadGives, RecordedGives
<1>7. CASE Overwrite(Caller)
  <2>1. PICK base \in doc.versions :
          LET art == IF base.art = None THEN fresh + 1 ELSE base.art
          IN  Store(Caller, Changed([doc EXCEPT !.active = base.id], base, fresh, art), art, "idle")
    BY <1>7 DEF Overwrite
  <2> DEFINE art == IF base.art = None THEN fresh + 1 ELSE base.art
  <2>2. Loads(Caller, "overwrite") /\ Completed
    BY <1>7 DEF Overwrite
  <2>3. base.art \in {None, art}
    OBVIOUS
  <2>4. Store(Caller, Changed([doc EXCEPT !.active = base.id], base, fresh, art), art, "idle")
    BY <2>1
  <2> HIDE DEF art
  <2> DEFINE shown == [doc EXCEPT !.active = base.id]
             run == Changed(shown, base, fresh, art)
  <2>5. shown \in Run /\ shown.versions = doc.versions
    BY <1>0, <2>2 DEF Run, Version
  <2> HIDE DEF shown
  <2>6. VersionIds(shown) \subseteq VersionIds(run) /\ Artifacts(run) = Artifacts(shown) \cup ({art} \ {None})
    BY <2>3, <2>5, ChangedGives
  <2>7. VersionIds(doc) \subseteq VersionIds(run) /\ Artifacts(run) = Artifacts(doc) \cup ({art} \ {None})
    BY <2>5, <2>6 DEF VersionIds, Artifacts
  <2>8. Store(Caller, run, art, "idle")
    BY <2>4 DEF shown
  <2>9. act[Worker].pc = "idle"
    BY <1>0, <1>2, <1>3, <2>2
  <2> HIDE DEF run
  <2> QED
    BY <1>1, <2>2, <2>7, <2>8, <2>9, LoadGives
<1>8. CASE SaveRun(Caller)
  <2>1. Loads(Caller, "saveRun") /\ Completed
    BY <1>8 DEF SaveRun
  <2>2. CASE Store(Caller, doc, None, "idle")
    <3>1. Artifacts(doc) = Artifacts(doc) \cup ({None} \ {None}) /\ VersionIds(doc) \subseteq VersionIds(doc)
      OBVIOUS
    <3>2. act[Worker].pc = "idle"
      BY <1>0, <1>2, <1>3, <2>1
    <3> QED
      BY <1>1, <2>1, <2>2, <3>1, <3>2, LoadGives
  <2> DEFINE v == VersionOf(doc, doc.active)
  <2>3. CASE /\ ~(doc.art # None /\ ArtifactFound(doc.art))
             /\ Store(Caller, Changed(doc, v, v.text, fresh), fresh, "idle")
    <3>1. v \in doc.versions /\ v.id = doc.active
      <4>1. PICK x \in doc.versions : x.id = doc.active
        BY <1>0, <2>1 DEF CopyInv, Sound, Coherent, Completed
      <4> QED
        BY <4>1 DEF VersionOf
    <3>2. \E x \in doc.versions : doc.active = x.id /\ doc.art = x.art
      BY <1>0, <2>1 DEF CopyInv, Sound, Coherent, Completed
    <3>3. v.art = doc.art
      BY <1>0, <2>1, <3>1, <3>2 DEF CopyInv, Sound, Coherent
    <3>4. Counted => v.art = None
      <4>1. Counted => arts = Artifacts(doc)
        BY <1>0, <1>2, <1>3, <2>1 DEF AloneInv, StoresInv, Loads
      <4>2. v.art # None => v.art \in Artifacts(doc)
        BY <3>1 DEF Artifacts
      <4> QED
        BY <2>3, <3>3, <4>1, <4>2 DEF ArtifactFound
    <3> HIDE DEF v
    <3>5. VersionIds(doc) \subseteq VersionIds(Changed(doc, v, v.text, fresh))
      BY <1>0, <2>1, <3>1, ChangedGives
    <3>6. Counted => Artifacts(Changed(doc, v, v.text, fresh)) = Artifacts(doc) \cup ({fresh} \ {None})
      BY <1>0, <2>1, <3>1, <3>4, ChangedGives
    <3>7. act[Worker].pc = "idle"
      BY <1>0, <1>2, <1>3, <2>1
    <3>8. Store(Caller, Changed(doc, v, v.text, fresh), fresh, "idle")
      BY <2>3 DEF v
    <3> QED
      BY <1>1, <2>1, <3>5, <3>6, <3>7, <3>8, LoadGives
  <2> QED
    BY <1>8, <2>2, <2>3 DEF SaveRun
<1>9. CASE SaveVersion(Caller)
  <2>1. PICK v \in doc.versions :
          /\ v.art = None \/ ~ArtifactFound(v.art)
          /\ Store(Caller, Changed(doc, v, v.text, fresh), fresh, "idle")
    BY <1>9 DEF SaveVersion
  <2>2. Loads(Caller, "saveVersion")
    BY <1>9 DEF SaveVersion
  <2>3. Counted => v.art = None
    <3>1. Counted => arts = Artifacts(doc)
      BY <1>0, <1>2, <2>1, <2>2 DEF AloneInv, StoresInv, Loads
    <3>2. v.art # None => v.art \in Artifacts(doc)
      BY DEF Artifacts
    <3> QED
      BY <2>1, <3>1, <3>2 DEF ArtifactFound
  <2>4. VersionIds(doc) \subseteq VersionIds(Changed(doc, v, v.text, fresh))
    BY <1>0, <2>2, ChangedGives
  <2>5. Counted => Artifacts(Changed(doc, v, v.text, fresh)) = Artifacts(doc) \cup ({fresh} \ {None})
    BY <1>0, <2>2, <2>3, ChangedGives
  <2>6. act[Worker].pc = "idle"
    BY <1>0, <1>2, <2>2
  <2> QED
    BY <1>1, <2>1, <2>2, <2>4, <2>5, <2>6, LoadGives
<1> QED
  BY <1>0, <1>1, <1>4, <1>5, <1>6, <1>7, <1>8, <1>9 DEF Load

LEMMA CallerDeletes ==
    ASSUME Alone, CopyInv, AloneInv,
           \/ Delete(Caller) \/ DeleteSteps(Caller) \/ DeleteDocFails(Caller) \/ DeleteArtifactsFails(Caller)
    PROVE  AloneInv' /\ VersionsKept
<1> DEFINE r == act[Caller]
           w == act[Worker]
<1> USE DEF stores, memory, counters
<1>0. Caller \in Actors /\ Worker \in Actors /\ Actors = {Caller, Worker} /\ Caller # Worker
  BY CallerIs
<1>1. CASE Delete(Caller)
  <2> DEFINE l == [Idle EXCEPT !.pc = "mark", !.run = doc,
                               !.gone = Artifacts(doc) \cup ({doc.art} \ {None})]
  <2>1. /\ r.pc = "idle" /\ doc # NoDoc /\ UNCHANGED <<doc, arts, tomb, phase, faults>> /\ Become(Caller, l)
    BY <1>1 DEF Delete, Loads
  <2>2. l.pc = "mark" /\ l.run = doc /\ Artifacts(doc) \subseteq l.gone
    BY DEF Idle
  <2> HIDE DEF l
  <2>3. act'[Worker] = w /\ act'[Caller] = l
    BY <1>0, <2>1, BecomeGives
  <2> QED
    BY <1>0, <2>1, <2>2, <2>3 DEF AloneInv, JobInv, RequestInv, StoresInv, Storing, Deleting, VersionsKept, Counted
<1>2. ASSUME NEW pc \in {"uncache", "delDoc", "delArts"}, Goto(Caller, pc), r.pc \in Deleting \ {"delArts"},
             UNCHANGED <<arts, phase>>, faults' = faults \/ ~(Counted'),
             doc' = doc \/ (doc' = NoDoc /\ pc = "delArts")
      PROVE  AloneInv' /\ VersionsKept
  <2>1. act'[Worker] = w /\ act'[Caller].pc = pc /\ act'[Caller].run = r.run /\ act'[Caller].gone = r.gone
    BY <1>0, <1>2, GotoGives
  <2> QED
    BY <1>0, <1>2, <2>1 DEF AloneInv, JobInv, RequestInv, StoresInv, Storing, Deleting, VersionsKept, Counted
<1>3. CASE MarkDeleted(Caller)
  BY <1>2, <1>3 DEF MarkDeleted, Deleting
<1>4. CASE Uncache(Caller)
  BY <1>2, <1>4 DEF Uncache, Deleting
<1>5. CASE DeleteDoc(Caller)
  BY <1>2, <1>5 DEF DeleteDoc, Deleting
<1>6. CASE DeleteDocFails(Caller)
  BY <1>2, <1>6, FaultUncounted DEF DeleteDocFails, Fault, Deleting
<1>7. CASE DeleteArtifacts(Caller) \/ DeleteArtifactsFails(Caller)
  <2>1. Become(Caller, Idle) /\ phase' = "deleted" /\ doc' = doc /\ r.pc = "delArts"
    BY <1>7 DEF DeleteArtifacts, DeleteArtifactsFails
  <2>2. act'[Worker] = w /\ act'[Caller] = Idle /\ Idle.pc = "idle"
    BY <1>0, <2>1, BecomeGives DEF Idle
  <2> QED
    BY <1>0, <2>1, <2>2 DEF AloneInv, JobInv, RequestInv, StoresInv, Storing, Deleting, VersionsKept, Counted
<1> QED
  BY <1>1, <1>3, <1>4, <1>5, <1>6, <1>7 DEF DeleteSteps

LEMMA AloneRestarts ==
    ASSUME Alone, CopyInv, AloneInv, Restart
    PROVE  AloneInv' /\ VersionsKept
<1>1. /\ \A a \in Actors : act'[a] = Idle
      /\ Idle.pc = "idle" /\ Idle.then = "idle" /\ doc' = doc /\ ~(Counted') /\ phase' # "new"
  BY FaultUncounted DEF Restart, Fault, Idle, stores
<1>2. Caller \in Actors /\ Worker \in Actors
  BY CallerIs
<1> QED
  BY <1>1, <1>2 DEF AloneInv, JobInv, RequestInv, StoresInv, Storing, Deleting, VersionsKept

LEMMA AloneStarts == Alone /\ Init => AloneInv
<1> SUFFICES ASSUME Alone, Init PROVE AloneInv
  OBVIOUS
<1>1. Caller \in Actors /\ Worker \in Actors
  BY CallerIs
<1>2. \A a \in Actors : act[a].pc = "idle" /\ act[a].then = "idle"
  BY DEF Init, Idle
<1> QED
  BY <1>1, <1>2 DEF Init, AloneInv, JobInv, RequestInv, StoresInv, Storing, Deleting, Counted

LEMMA AloneGoesOn ==
    ASSUME Alone, CopyInv, AloneInv, [Next]_vars
    PROVE  AloneInv' /\ VersionsKept
<1>1. Requesters = {Caller} /\ Actors = {Caller, Worker} /\ Caller # Worker
  BY CallerIs
<1>2. ASSUME NEW a \in Actors, Working(a) PROVE AloneInv' /\ VersionsKept
  BY <1>1, <1>2, CallerPersists, JobPersists, CallerCreates, CallerDeletes, JobExecutes DEF Working
<1>3. ASSUME NEW c \in Requesters, Request(c) PROVE AloneInv' /\ VersionsKept
  BY <1>1, <1>3, CallerCreates, CallerLoads, CallerDeletes DEF Request
<1>4. CASE Faulty
  BY <1>1, <1>4, CallerPersists, JobPersists, CallerCreates, CallerDeletes, AloneRestarts DEF Faulty
<1>5. CASE UNCHANGED vars
  BY <1>5 DEF vars, AloneInv, JobInv, RequestInv, StoresInv, Counted, VersionsKept
<1> QED
  BY <1>2, <1>3, <1>4, <1>5 DEF Next

\* While requests follow one another, every artifact in the store is one a version of the run
\* names: edits, refinements and saves store it under the id they record, and an artifact
\* that is there is not stored under another (save_artifact_for_run).
THEOREM ArtifactsNamed == Alone => (Spec => []NoOrphanArtifacts)
<1> SUFFICES ASSUME Alone PROVE Spec => []NoOrphanArtifacts
  OBVIOUS
<1>1. AloneInv => NoOrphanArtifacts
  BY CallerIs DEF AloneInv, StoresInv, NoOrphanArtifacts, Quiet, Counted
<1>2. Init => CopyInv /\ AloneInv
  BY InitCopies, AloneStarts
<1>3. CopyInv /\ AloneInv /\ [Next]_vars => CopyInv' /\ AloneInv'
  BY NextCopies, AloneGoesOn
<1> QED
  BY <1>1, <1>2, <1>3, PTL DEF Spec

\* Nor does a store of the document drop a version, through failed writes and restarts: only a
\* second request (or a rename beside the job) can store a copy loaded before.
THEOREM VersionsAdd == Alone => (Spec => NoVersionLost)
<1> SUFFICES ASSUME Alone PROVE Spec => NoVersionLost
  OBVIOUS
<1>1. Init => CopyInv /\ AloneInv
  BY InitCopies, AloneStarts
<1>2. CopyInv /\ AloneInv /\ [Next]_vars => CopyInv' /\ AloneInv'
  BY NextCopies, AloneGoesOn
<1>3. CopyInv /\ AloneInv /\ [Next]_vars =>
        [doc # NoDoc /\ doc' # NoDoc =>
            {v.id : v \in doc.versions} \subseteq {v.id : v \in doc'.versions}]_vars
  BY AloneGoesOn DEF VersionsKept, VersionIds
<1> QED
  BY <1>1, <1>2, <1>3, PTL DEF Spec, NoVersionLost

\* And a deletion after the job leaves none of the run's artifacts (delete_run names those of
\* every version), if nothing has failed.
THEOREM DeletionComplete == Alone /\ MaxFaults = 0 => (Spec => DeletionLeavesNothing)
<1> SUFFICES ASSUME Alone, MaxFaults = 0 PROVE Spec => DeletionLeavesNothing
  OBVIOUS
<1>1. Init => CopyInv /\ AloneInv
  BY InitCopies, AloneStarts
<1>2. CopyInv /\ AloneInv /\ [Next]_vars => CopyInv' /\ AloneInv'
  BY NextCopies, AloneGoesOn
<1>3. CopyInv /\ AloneInv =>
        \A c \in Requesters :
            /\ DeleteArtifacts(c)
            /\ phase = "created"
            /\ act[c].run.status \in {"completed", "failed"}
            => arts' = {}
  <2> SUFFICES ASSUME CopyInv, AloneInv, NEW c \in Requesters, DeleteArtifacts(c), phase = "created",
                      act[c].run.status \in {"completed", "failed"}
               PROVE  arts' = {}
    OBVIOUS
  <2>1. c = Caller /\ faults = 0
    BY CallerIs DEF CopyInv, TypeOK
  <2>2. act[c].pc = "delArts" /\ arts' = arts \ act[c].gone
    BY DEF DeleteArtifacts
  <2>3. arts \subseteq act[c].gone
    BY <2>1, <2>2 DEF AloneInv, RequestInv, Deleting, Counted
  <2> QED
    BY <2>2, <2>3
<1>4. CopyInv /\ AloneInv /\ [Next]_vars =>
        [\A c \in Requesters :
            /\ DeleteArtifacts(c)
            /\ phase = "created"
            /\ act[c].run.status \in {"completed", "failed"}
            => arts' = {}]_vars
  BY <1>3
<1> QED
  BY <1>1, <1>2, <1>4, PTL DEF Spec, DeletionLeavesNothing
================================================================================
