----------------------- MODULE RunOrchestrationProofs -----------------------
(***************************************************************************)
(* Proofs about RunOrchestration, for any session ids, limits and plans.   *)
(*                                                                         *)
(* The loop works on a copy of the checkpoint, and SQL and the file are    *)
(* replaced one after the other.  The argument is about the distance       *)
(* between the three: the copy is at most one outcome ahead of the file,   *)
(* and the file names no session whose row could still be lost.            *)
(***************************************************************************)
EXTENDS RunOrchestration, SequenceTheorems, FiniteSetTheorems, TLAPS

\* The session that `m` is in is still to contribute its outcome.
MayContribute(m) ==
    /\ ~Recorded(m, m.current)
    /\ Len(m.outcomes) < MaxSessions
    /\ FailedCount(m) <= MaxFailedSessions

\* Each session has one outcome in `m`, and its row is committed.
Backed(m) ==
    /\ \A i \in DOMAIN m.outcomes : m.outcomes[i].sid \in rows
    /\ \A i, j \in DOMAIN m.outcomes : m.outcomes[i].sid = m.outcomes[j].sid => i = j

\* A checkpoint is something to resume from.
DiskInPlace ==
    disk # NoCheckpoint =>
        /\ Backed(disk)
        /\ disk.current # None => disk.current \in rows /\ MayContribute(disk)

\* The session of a running loop is created, and not over.
CurrentInPlace ==
    /\ pc # "idle" /\ mem.current # None =>
          /\ MayContribute(mem)
          /\ mem.current \in rows \/ (pc = "committing" /\ mem.current \in flushed)
    /\ pc \in {"insession", "recovering"} => mem.current # None
    /\ pc = "deciding" => mem.current = None
    /\ pc \in {"committing", "publishing"} => (mem.current # None <=> after = "insession")

\* The outcomes of `m` are those of the file, or one more.
OneAhead(m) ==
    \/ m.outcomes = Published
    \/ \E sid \in Sids, ok \in BOOLEAN :
          /\ \A i \in DOMAIN Published : Published[i].sid # sid
          /\ Len(Published) < MaxSessions
          /\ Cardinality({i \in DOMAIN Published : ~Published[i].ok}) <= MaxFailedSessions
          /\ m.outcomes = Append(Published, [sid |-> sid, ok |-> ok])

\* How far the loop is ahead of the file, which has no result while it runs.
LoopInPlace ==
    /\ pc = "loaded" => mem = IF disk = NoCheckpoint THEN Fresh ELSE disk
    /\ pc \in {"deciding", "insession", "recovering"} => mem.outcomes = Published
    /\ pc \in {"committing", "publishing"} => OneAhead(mem)
    /\ pc \in {"committing", "publishing", "deciding", "insession", "recovering"} =>
          /\ mem.status = "running"
          /\ disk # NoCheckpoint => disk.status = "running"

\* The inductive invariant.
InPlace ==
    /\ TypeOK
    /\ Backed(mem)
    /\ DiskInPlace
    /\ CurrentInPlace
    /\ LoopInPlace

-----------------------------------------------------------------------------
(* Lemmas about the working state *)

(* Everything the invariant says of a state is about its outcomes.         *)
LEMMA SameOutcomes ==
    ASSUME NEW m, NEW n, m.outcomes = n.outcomes
    PROVE  /\ FailedCount(m) = FailedCount(n)
           /\ Backed(m) <=> Backed(n)
           /\ \A sid : Recorded(m, sid) <=> Recorded(n, sid)
           /\ m.current = n.current => (MayContribute(m) <=> MayContribute(n))
           /\ OneAhead(m) <=> OneAhead(n)
BY DEF FailedCount, Backed, Recorded, MayContribute, OneAhead

(* An iteration counts a step and leaves the rest as it is.                *)
LEMMA StepKeeps ==
    ASSUME NEW m \in State
    PROVE  /\ Step(m) \in State
           /\ Step(m).outcomes = m.outcomes
           /\ Step(m).current = m.current
           /\ Step(m).status = m.status
           /\ Step(m).plan = m.plan
           /\ Step(m).round = m.round
BY DEF State, Step

(* Proposed questions, a rewritten item and abandonments make a plan.      *)
LEMMA ProposedPlan ==
    ASSUME NEW plan \in Seq(Item), NEW n \in Nat
    PROVE  /\ Proposed(plan, n) \in Seq(Item)
           /\ DOMAIN plan \subseteq DOMAIN Proposed(plan, n)
<1>1. [status |-> "pending", sid |-> None] \in Item
  BY DEF Item, ItemStatus, SidOrNone
<1>2. [i \in 1 .. n |-> [status |-> "pending", sid |-> None]] \in Seq(Item)
  BY <1>1
<1> QED
  BY <1>2 DEF Proposed

LEMMA RevisedPlan ==
    ASSUME NEW plan \in Seq(Item), NEW known \in SUBSET DOMAIN plan,
           NEW revised \in Revisions(plan, known)
    PROVE  revised \in Seq(Item)
<1>1. CASE revised = plan
  BY <1>1
<1>2. CASE \E i \in known, item \in Item : revised = [plan EXCEPT ![i] = item]
  <2>1. PICK i \in known, item \in Item : revised = [plan EXCEPT ![i] = item]
    BY <1>2
  <2> QED
    BY <2>1
<1> QED
  BY <1>1, <1>2 DEF Revisions

LEMMA RestatedItem ==
    ASSUME NEW item \in Item, NEW st \in ItemStatus
    PROVE  [item EXCEPT !.status = st] \in Item
BY DEF Item

LEMMA ItemwisePlan ==
    ASSUME NEW plan \in Seq(Item), NEW new \in [DOMAIN plan -> Item]
    PROVE  new \in Seq(Item)
<1>1. Len(plan) \in Nat /\ DOMAIN plan = 1 .. Len(plan)
  BY LenProperties
<1>2. new \in [1 .. Len(plan) -> Item]
  BY <1>1
<1> QED
  BY <1>1, <1>2, SeqDef

LEMMA AbandonedPlan ==
    ASSUME NEW plan \in Seq(Item), NEW items
    PROVE  Abandoned(plan, items) \in Seq(Item)
<1>1. \A i \in DOMAIN plan : plan[i] \in Item
  OBVIOUS
<1>2. \A i \in DOMAIN plan : [plan[i] EXCEPT !.status = "abandoned"] \in Item
  BY <1>1, RestatedItem DEF ItemStatus
<1>3. Abandoned(plan, items) \in [DOMAIN plan -> Item]
  BY <1>1, <1>2 DEF Abandoned
<1> QED
  BY <1>3, ItemwisePlan

(* The plan a decision leads to is a plan.                                 *)
LEMMA DecidedPlan ==
    ASSUME NEW plan \in Seq(Item), NEW n \in 0 .. MaxProposed,
           NEW revised \in Revisions(Proposed(plan, n), DOMAIN plan), NEW items
    PROVE  Abandoned(revised, items) \in Seq(Item)
<1>1. n \in Nat
  BY ConfigAssumption
<1>2. /\ Proposed(plan, n) \in Seq(Item)
      /\ DOMAIN plan \subseteq DOMAIN Proposed(plan, n)
  BY <1>1, ProposedPlan
<1>3. revised \in Seq(Item)
  BY <1>2, RevisedPlan
<1> QED
  BY <1>3, AbandonedPlan

(* An item that a session is begun for changes nothing but the plan.       *)
LEMMA BegunItemKeeps ==
    ASSUME NEW m \in State, NEW i \in DOMAIN m.plan, NEW sid \in Sids
    PROVE  LET s == [m EXCEPT !.plan[i] = [status |-> "running", sid |-> sid]]
           IN  /\ s \in State
               /\ s.outcomes = m.outcomes
               /\ s.current = m.current
               /\ s.status = m.status
<1>1. [status |-> "running", sid |-> sid] \in Item
  BY DEF Item, ItemStatus, SidOrNone
<1>2. m.plan \in Seq(Item)
  BY DEF State
<1>3. [m.plan EXCEPT ![i] = [status |-> "running", sid |-> sid]] \in Seq(Item)
  BY <1>1, <1>2
<1> QED
  BY <1>3 DEF State

(* A planning round replaces the plan.                                     *)
LEMMA ReplanKeeps ==
    ASSUME NEW m \in State, NEW plan \in Seq(Item)
    PROVE  LET r == [Step(m) EXCEPT !.round = @ + 1, !.plan = plan]
           IN  /\ r \in State
               /\ r.outcomes = m.outcomes
               /\ r.current = m.current
               /\ r.status = m.status
               /\ r.plan = plan
<1> DEFINE s == Step(m)
           r == [s EXCEPT !.round = @ + 1, !.plan = plan]
<1>1. s \in State /\ s.outcomes = m.outcomes /\ s.current = m.current /\ s.status = m.status
  BY StepKeeps
<1> HIDE DEF s
<1>2. s.round + 1 \in Nat
  BY <1>1 DEF State
<1>3. r = [s EXCEPT !.round = s.round + 1, !.plan = plan]
  OBVIOUS
<1>4. r \in State
  BY <1>1, <1>2, <1>3 DEF State
<1>5. /\ r.outcomes = m.outcomes
      /\ r.current = m.current
      /\ r.status = m.status
      /\ r.plan = plan
  BY <1>1 DEF State
<1> QED
  BY <1>4, <1>5 DEF s

(* An outcome closes the current session, and its item in the plan.        *)
LEMMA WithOutcomeAppends ==
    ASSUME NEW m \in State, NEW ok \in BOOLEAN, m.current # None
    PROVE  /\ WithOutcome(m, ok) \in State
           /\ WithOutcome(m, ok).outcomes = Append(m.outcomes, [sid |-> m.current, ok |-> ok])
           /\ WithOutcome(m, ok).current = None
           /\ WithOutcome(m, ok).status = m.status
<1> DEFINE o == [sid |-> m.current, ok |-> ok]
           plan == [i \in DOMAIN m.plan |->
                       IF m.plan[i].sid = m.current
                          /\ \A j \in 1 .. i - 1 : m.plan[j].sid # m.current
                       THEN [m.plan[i] EXCEPT !.status =
                                  IF ok THEN "completed" ELSE "failed"]
                       ELSE m.plan[i]]
<1>1. m.current \in Sids /\ m.outcomes \in Seq(Outcome) /\ m.plan \in Seq(Item)
  BY DEF State, SidOrNone
<1>2. Append(m.outcomes, o) \in Seq(Outcome)
  BY <1>1 DEF Outcome
<1>3. plan \in Seq(Item)
  <2>1. \A i \in DOMAIN m.plan : m.plan[i] \in Item
    BY <1>1
  <2>2. \A i \in DOMAIN m.plan :
           [m.plan[i] EXCEPT !.status = IF ok THEN "completed" ELSE "failed"] \in Item
    BY <2>1, RestatedItem DEF ItemStatus
  <2>3. plan \in [DOMAIN m.plan -> Item]
    BY <2>1, <2>2
  <2> QED
    BY <1>1, <2>3, ItemwisePlan
<1>4. WithOutcome(m, ok) = [m EXCEPT !.outcomes = Append(m.outcomes, o),
                                     !.current = None, !.plan = plan]
  BY DEF WithOutcome, State
<1> HIDE DEF plan, o
<1>5. /\ WithOutcome(m, ok) \in State
      /\ WithOutcome(m, ok).outcomes = Append(m.outcomes, o)
      /\ WithOutcome(m, ok).current = None
      /\ WithOutcome(m, ok).status = m.status
  BY <1>2, <1>3, <1>4 DEF State, SidOrNone
<1> QED
  BY <1>5 DEF o

-----------------------------------------------------------------------------
(* How a value of the working state goes to disk *)

(* The file may be replaced without a commit, for a pause or a result: the *)
(* session it is in, if any, was committed when it was started.            *)
LEMMA PublishOnlyKeeps ==
    ASSUME InPlace, NEW m \in State, NEW next \in {"pausing", "finishing"},
           m.outcomes = mem.outcomes, m.current = mem.current,
           pc \notin {"idle", "committing"}, PublishOnly(m, next)
    PROVE  InPlace'
<1> USE DEF InPlace, PublishOnly
<1>1. TypeOK'
  BY DEF TypeOK, Pc
<1>2. Backed(m)
  BY SameOutcomes
<1>3. m.current # None => m.current \in rows /\ MayContribute(m)
  BY SameOutcomes DEF CurrentInPlace
<1>4. Backed(mem)' /\ Backed(disk)'
  BY <1>2 DEF Backed
<1>5. DiskInPlace'
  BY <1>3, <1>4 DEF DiskInPlace, MayContribute, Recorded, FailedCount
<1>6. CurrentInPlace'
  BY <1>3 DEF CurrentInPlace, MayContribute, Recorded, FailedCount
<1>7. LoopInPlace'
  BY DEF LoopInPlace
<1> QED
  BY <1>1, <1>4, <1>5, <1>6, <1>7

(* _persist: the value goes to disk in two steps, and a session it is in   *)
(* has its row in the open transaction or in SQL.                          *)
LEMMA PersistKeeps ==
    ASSUME InPlace, NEW m \in State, NEW next \in {"deciding", "insession"},
           Persist(m, next), UNCHANGED <<disk, rows, runStatus, pause>>,
           flushed' \subseteq Sids,
           Backed(m), OneAhead(m), m.status = "running",
           disk # NoCheckpoint => disk.status = "running",
           m.current # None <=> next = "insession",
           m.current # None => /\ MayContribute(m)
                               /\ m.current \in rows \union flushed'
    PROVE  InPlace'
<1> USE DEF InPlace, Persist
<1>1. TypeOK'
  BY DEF TypeOK, Pc
<1>2. Backed(mem)'
  BY DEF Backed
<1>3. DiskInPlace'
  BY DEF DiskInPlace, Backed, MayContribute, Recorded, FailedCount
<1>4. CurrentInPlace'
  BY DEF CurrentInPlace, MayContribute, Recorded, FailedCount
<1>5. LoopInPlace'
  BY DEF LoopInPlace, OneAhead, Published
<1> QED
  BY <1>1, <1>2, <1>3, <1>4, <1>5

(* An execution that ends without a result leaves the file as it is.       *)
LEMMA StoppingKeeps ==
    ASSUME InPlace, pc' = "idle", UNCHANGED <<mem, disk, after>>,
           rows \subseteq rows', rows' \subseteq Sids, flushed' \subseteq Sids,
           runStatus' \in {"running", "paused", "completed", "failed"},
           pause' \in BOOLEAN
    PROVE  InPlace'
<1> USE DEF InPlace
<1>1. TypeOK'
  BY DEF TypeOK, Pc
<1>2. Backed(mem)'
  BY DEF Backed
<1>3. DiskInPlace'
  BY DEF DiskInPlace, Backed, MayContribute, Recorded, FailedCount
<1>4. CurrentInPlace' /\ LoopInPlace'
  BY DEF CurrentInPlace, LoopInPlace
<1> QED
  BY <1>1, <1>2, <1>3, <1>4

(* A session is started for an id without a row, hence without an outcome. *)
LEMMA StartSessionKeeps ==
    ASSUME InPlace, MayDecide, NEW m \in State, NEW sid \in Sids,
           m.outcomes = mem.outcomes, m.current = None, m.status = "running",
           StartSession(m, sid)
    PROVE  InPlace'
<1> DEFINE s == [m EXCEPT !.current = sid]
<1>0. mem \in State /\ mem.current = None
  BY DEF InPlace, TypeOK, CurrentInPlace, MayDecide
<1>1. CASE PublishResult(m, "terminated")
  <2> DEFINE r == [m EXCEPT !.status = "terminated"]
  <2>1. r \in State /\ r.outcomes = mem.outcomes /\ r.current = mem.current
    BY <1>0 DEF State
  <2> QED
    BY <1>1, <2>1, PublishOnlyKeeps DEF PublishResult, MayDecide
<1>2. CASE /\ Len(m.outcomes) < MaxSessions
           /\ sid \notin rows
           /\ flushed' = flushed \union {sid}
           /\ Persist(s, "insession")
           /\ UNCHANGED <<disk, rows, runStatus, pause>>
  <2>1. /\ s \in State
        /\ s.outcomes = mem.outcomes
        /\ s.current = sid
        /\ s.status = "running"
    BY DEF State, SidOrNone
  <2>2. ~Recorded(mem, sid)
    BY <1>2 DEF InPlace, Backed, Recorded
  <2>3. FailedCount(mem) <= MaxFailedSessions
    <3>1. FailedCount(Step(mem)) = FailedCount(mem)
      BY <1>0, StepKeeps, SameOutcomes
    <3>2. FailedCount(Step(mem)) \in Nat
      <4>1. Step(mem).outcomes \in Seq(Outcome)
        BY <1>0, StepKeeps DEF State
      <4>2. IsFiniteSet(DOMAIN Step(mem).outcomes)
        BY <4>1, LenProperties, FS_Interval
      <4> QED
        BY <4>2, FS_Subset, FS_CardinalityType DEF FailedCount
    <3> QED
      BY <3>1, <3>2, ConfigAssumption DEF MayDecide, LimitReached
  <2>4. MayContribute(s)
    <3>1. FailedCount(s) = FailedCount(mem) /\ (Recorded(s, sid) <=> Recorded(mem, sid))
      BY <2>1, SameOutcomes
    <3> QED
      BY <1>2, <2>1, <2>2, <2>3, <3>1 DEF MayContribute
  <2>5. /\ Backed(s)
        /\ OneAhead(s)
        /\ disk # NoCheckpoint => disk.status = "running"
    <3>1. mem.outcomes = Published /\ (disk # NoCheckpoint => disk.status = "running")
      BY DEF InPlace, LoopInPlace, MayDecide
    <3> QED
      BY <2>1, <3>1, SameOutcomes DEF InPlace, OneAhead
  <2>6. flushed' \subseteq Sids /\ sid # None
    BY <1>2, ConfigAssumption DEF InPlace, TypeOK
  <2> HIDE DEF s
  <2> QED
    BY <1>2, <2>1, <2>4, <2>5, <2>6, PersistKeeps
<1>3. CASE /\ runStatus' = "failed"
           /\ flushed' = {}
           /\ pc' = "idle"
           /\ UNCHANGED <<mem, disk, rows, pause, after>>
  <2>1. rows \subseteq Sids /\ pause \in BOOLEAN
    BY DEF InPlace, TypeOK
  <2> QED
    BY <1>3, <2>1, StoppingKeeps
<1> QED
  BY <1>1, <1>2, <1>3 DEF StartSession

-----------------------------------------------------------------------------
(* The invariant is inductive *)

(* A decision ends the run, starts a session, or only replaces the plan.   *)
LEMMA DecideKeeps ==
    ASSUME InPlace, Decide
    PROVE  InPlace'
<1>0. /\ MayDecide => mem.current = None /\ mem.status = "running"
      /\ mem \in State /\ mem.plan \in Seq(Item)
  BY DEF InPlace, TypeOK, State, CurrentInPlace, LoopInPlace, MayDecide
<1>1. CASE DecideComplete
  <2> DEFINE r == [Step(mem) EXCEPT !.status = "completed"]
  <2>1. r \in State /\ r.outcomes = mem.outcomes /\ r.current = mem.current
    BY <1>0, StepKeeps DEF State
  <2> QED
    BY <1>1, <2>1, PublishOnlyKeeps DEF DecideComplete, PublishResult, MayDecide
<1>2. ASSUME NEW sid \in Sids, DecideDirect(sid)
      PROVE  InPlace'
  BY <1>0, <1>2, StepKeeps, StartSessionKeeps DEF DecideDirect
<1>3. CASE DecideTooManyRounds
  <2> DEFINE t == [Step(mem) EXCEPT !.round = @ + 1]
             r == [t EXCEPT !.status = "terminated"]
  <2>1. Step(mem) \in State /\ Step(mem).round + 1 \in Nat
    BY <1>0, StepKeeps DEF State
  <2>2. /\ t \in State
        /\ t.outcomes = Step(mem).outcomes
        /\ t.current = Step(mem).current
    BY <2>1 DEF State
  <2>3. /\ r \in State
        /\ r.outcomes = mem.outcomes
        /\ r.current = mem.current
    BY <1>0, <2>2, StepKeeps DEF State
  <2> QED
    BY <1>3, <2>3, PublishOnlyKeeps DEF DecideTooManyRounds, PublishResult, MayDecide
<1>4. ASSUME NEW n \in 0 .. MaxProposed, NEW sid \in Sids,
             NEW revised \in Revisions(Proposed(mem.plan, n), DOMAIN mem.plan),
             NEW items \in SUBSET DOMAIN mem.plan,
             DecidePlanned(n, Abandoned(revised, items), sid)
      PROVE  InPlace'
  <2> DEFINE plan == Abandoned(revised, items)
             m == [Step(mem) EXCEPT !.round = @ + 1, !.plan = plan]
  <2>1. plan \in Seq(Item)
    BY <1>0, DecidedPlan
  <2> HIDE DEF plan
  <2>2. MayDecide
    BY <1>4 DEF DecidePlanned
  <2>3. /\ m \in State
        /\ m.outcomes = mem.outcomes
        /\ m.current = None
        /\ m.status = "running"
        /\ m.plan = plan
    BY <1>0, <2>1, <2>2, ReplanKeeps
  <2>4. \/ mem' = m /\ UNCHANGED <<disk, rows, flushed, runStatus, pause, pc, after>>
        \/ \E i \in ItemsWith(m, {"pending"}) :
              StartSession([m EXCEPT !.plan[i] = [status |-> "running", sid |-> sid]], sid)
    BY <1>4 DEF DecidePlanned, plan
  <2> HIDE DEF m
  <2>5. CASE mem' = m /\ UNCHANGED <<disk, rows, flushed, runStatus, pause, pc, after>>
    <3>1. TypeOK'
      BY <2>3, <2>5 DEF InPlace, TypeOK
    <3>2. Backed(mem)' /\ DiskInPlace'
      BY <2>3, <2>5
         DEF InPlace, Backed, DiskInPlace, MayContribute, Recorded, FailedCount
    <3>3. pc' = "deciding" /\ mem'.current = None
      BY <2>2, <2>3, <2>5 DEF MayDecide
    <3>4. CurrentInPlace'
      BY <3>3 DEF CurrentInPlace
    <3>5. LoopInPlace'
      BY <2>2, <2>3, <2>5, <3>3 DEF InPlace, LoopInPlace, MayDecide, Published
    <3> QED
      BY <3>1, <3>2, <3>4, <3>5 DEF InPlace
  <2>6. ASSUME NEW i \in ItemsWith(m, {"pending"}),
               StartSession([m EXCEPT !.plan[i] = [status |-> "running", sid |-> sid]], sid)
        PROVE  InPlace'
    <3> DEFINE s == [m EXCEPT !.plan[i] = [status |-> "running", sid |-> sid]]
    <3>3. /\ s \in State
          /\ s.outcomes = m.outcomes
          /\ s.current = m.current
          /\ s.status = m.status
      BY <2>3, BegunItemKeeps DEF ItemsWith
    <3> HIDE DEF s
    <3>4. StartSession(s, sid)
      BY <2>6 DEF s
    <3> QED
      BY <2>2, <2>3, <3>3, <3>4, StartSessionKeeps
  <2> QED
    BY <2>4, <2>5, <2>6
<1> QED
  BY <1>1, <1>2, <1>3, <1>4 DEF Decide

(* An outcome is added to a history that the file holds already.           *)
LEMMA SessionEndsKeeps ==
    ASSUME InPlace, NEW ok \in BOOLEAN, SessionEnds(ok)
    PROVE  InPlace'
<1> DEFINE m == WithOutcome(mem, ok)
           o == [sid |-> mem.current, ok |-> ok]
<1>1. /\ mem \in State
      /\ mem.current # None
      /\ mem.current \in Sids
      /\ mem.current \in rows
      /\ MayContribute(mem)
      /\ mem.outcomes = Published
      /\ mem.outcomes \in Seq(Outcome)
      /\ mem.status = "running"
      /\ disk # NoCheckpoint => disk.status = "running"
  BY DEF InPlace, TypeOK, CurrentInPlace, LoopInPlace, SessionEnds, State, SidOrNone
<1>2. /\ m \in State
      /\ m.outcomes = Append(mem.outcomes, o)
      /\ m.current = None
      /\ m.status = "running"
  BY <1>1, WithOutcomeAppends
<1> HIDE DEF m
<1>3. /\ Len(mem.outcomes) \in Nat
      /\ DOMAIN mem.outcomes = 1 .. Len(mem.outcomes)
      /\ DOMAIN m.outcomes = 1 .. Len(mem.outcomes) + 1
      /\ \A i \in DOMAIN mem.outcomes : m.outcomes[i] = mem.outcomes[i]
      /\ m.outcomes[Len(mem.outcomes) + 1] = o
  <2>1. o \in Outcome
    BY <1>1 DEF Outcome
  <2> HIDE DEF o
  <2> QED
    BY <1>1, <1>2, <2>1
<1>4. Backed(m)
  <2>1. \A i \in DOMAIN mem.outcomes : mem.outcomes[i].sid # mem.current
    BY <1>1 DEF MayContribute, Recorded
  <2> QED
    BY <1>1, <1>3, <2>1 DEF InPlace, Backed
<1>5. OneAhead(m)
  BY <1>1, <1>2 DEF OneAhead, MayContribute, Recorded, FailedCount
<1> QED
  BY <1>1, <1>2, <1>4, <1>5, PersistKeeps DEF SessionEnds, m, InPlace, TypeOK

(* Every step keeps the invariant.                                         *)
LEMMA InPlacePreserved == InPlace /\ [Next]_vars => InPlace'
<1> SUFFICES ASSUME InPlace, [Next]_vars
             PROVE  InPlace'
  OBVIOUS
<1>0. mem \in State
  BY DEF InPlace, TypeOK
<1>1. CASE CommitBeforeCheckpoint
  <2> USE <1>1 DEF CommitBeforeCheckpoint, InPlace
  <2>1. TypeOK'
    BY DEF TypeOK, Pc
  <2>2. Backed(mem)'
    BY DEF Backed
  <2>3. DiskInPlace'
    BY DEF DiskInPlace, Backed, MayContribute, Recorded, FailedCount
  <2>4. CurrentInPlace'
    BY DEF CurrentInPlace, MayContribute, Recorded, FailedCount
  <2>5. LoopInPlace'
    BY DEF LoopInPlace, OneAhead, Published
  <2> QED
    BY <2>1, <2>2, <2>3, <2>4, <2>5
<1>2. CASE PublishCheckpoint
  <2> USE <1>2 DEF PublishCheckpoint, InPlace
  <2>1. TypeOK'
    BY DEF TypeOK, Pc
  <2>2. mem # NoCheckpoint
    BY <1>0, NoCheckpointAssumption
  <2>3. Backed(mem)' /\ Backed(disk)'
    BY DEF Backed
  <2>4. DiskInPlace'
    BY <2>3 DEF DiskInPlace, CurrentInPlace, MayContribute, Recorded, FailedCount
  <2>5. CurrentInPlace'
    BY DEF TypeOK, CurrentInPlace, MayContribute, Recorded, FailedCount
  <2>6. LoopInPlace'
    BY <2>2 DEF TypeOK, LoopInPlace, Published
  <2> QED
    BY <2>1, <2>3, <2>4, <2>5, <2>6
<1>3. CASE CommitResult
  BY <1>3, StoppingKeeps DEF CommitResult, InPlace, TypeOK
<1>4. CASE CommitPaused
  BY <1>4, StoppingKeeps DEF CommitPaused, InPlace, TypeOK
<1>5. CASE RepublishResult
  BY <1>0, <1>5, PublishOnlyKeeps DEF RepublishResult
<1>6. CASE EnterLoop
  <2>1. mem.outcomes = Published /\ (disk # NoCheckpoint => disk.status = "running")
    BY <1>6 DEF EnterLoop, InPlace, LoopInPlace, Published, Fresh
  <2>2. OneAhead(mem) /\ Backed(mem)
    BY <2>1 DEF OneAhead, InPlace
  <2> QED
    BY <1>0, <1>6, <2>1, <2>2, PersistKeeps DEF EnterLoop, InPlace, TypeOK
<1>7. CASE RecoverCurrent
  <2> DEFINE m == [mem EXCEPT !.current = None]
  <2>1. mem.outcomes = Published /\ (disk # NoCheckpoint => disk.status = "running")
    BY <1>7 DEF RecoverCurrent, InPlace, LoopInPlace, Published, Fresh
  <2>2. MayContribute(mem) /\ mem.current \in rows
    BY <1>7 DEF RecoverCurrent, InPlace, CurrentInPlace
  <2>3. pc' = "recovering" /\ UNCHANGED <<mem, after, disk, rows, flushed, runStatus, pause>>
    BY <1>7, <2>2 DEF RecoverCurrent, MayContribute
  <2> USE <2>3 DEF InPlace
  <2>4. TypeOK'
    BY DEF TypeOK, Pc
  <2>5. Backed(mem)' /\ DiskInPlace'
    BY DEF Backed, DiskInPlace, MayContribute, Recorded, FailedCount
  <2>6. CurrentInPlace'
    BY <1>7, <2>2 DEF CurrentInPlace, MayContribute, Recorded, FailedCount, RecoverCurrent
  <2>7. LoopInPlace'
    BY <1>7, <2>1 DEF LoopInPlace, Published, RecoverCurrent
  <2> QED
    BY <2>4, <2>5, <2>6, <2>7
<1>8. CASE PauseAtTop
  BY <1>0, <1>8, StepKeeps, PublishOnlyKeeps DEF PauseAtTop
<1>9. CASE LimitAtTop
  <2> DEFINE r == [Step(mem) EXCEPT !.status = "terminated"]
  <2>1. r \in State /\ r.outcomes = mem.outcomes /\ r.current = mem.current
    BY <1>0, StepKeeps DEF State
  <2> QED
    BY <1>9, <2>1, PublishOnlyKeeps DEF LimitAtTop, PublishResult
<1>10. CASE Decide
  BY <1>10, DecideKeeps
<1>11. ASSUME NEW ok \in BOOLEAN, SessionEnds(ok)
       PROVE  InPlace'
  BY <1>11, SessionEndsKeeps
<1>12. CASE SessionPauses
  BY <1>0, <1>12, PublishOnlyKeeps DEF SessionPauses
<1>13. CASE Raise
  BY <1>13, StoppingKeeps DEF Raise, InPlace, TypeOK
<1>14. CASE RequestPause
  <2> USE <1>14 DEF RequestPause, InPlace
  <2>1. TypeOK'
    BY DEF TypeOK
  <2>2. Backed(mem)' /\ DiskInPlace'
    BY DEF Backed, DiskInPlace, MayContribute, Recorded, FailedCount
  <2>3. CurrentInPlace' /\ LoopInPlace'
    BY DEF CurrentInPlace, MayContribute, Recorded, FailedCount, LoopInPlace,
           OneAhead, Published
  <2> QED
    BY <2>1, <2>2, <2>3
<1>15. CASE Crash
  BY <1>15, StoppingKeeps DEF Crash, InPlace, TypeOK
<1>16. CASE Resume
  <2> USE <1>16 DEF Resume, InPlace
  <2>1. Fresh \in State
    BY DEF Fresh, State, SidOrNone
  <2>2. TypeOK'
    BY <2>1 DEF TypeOK, Pc
  <2>3. CASE disk = NoCheckpoint
    <3>1. mem' = Fresh /\ Fresh.current = None /\ Fresh.outcomes = <<>>
      BY <2>3 DEF Fresh
    <3>2. Backed(mem)'
      BY <3>1 DEF Backed
    <3>3. DiskInPlace' /\ CurrentInPlace' /\ LoopInPlace'
      BY <2>3, <3>1 DEF DiskInPlace, CurrentInPlace, LoopInPlace
    <3> QED
      BY <2>2, <3>2, <3>3
  <2>4. CASE disk # NoCheckpoint
    <3>1. mem' = disk
      BY <2>4
    <3>2. Backed(mem)' /\ DiskInPlace'
      BY <2>4, <3>1 DEF DiskInPlace, Backed, MayContribute, Recorded, FailedCount
    <3>3. CurrentInPlace'
      BY <2>4, <3>1
         DEF DiskInPlace, CurrentInPlace, MayContribute, Recorded, FailedCount
    <3>4. LoopInPlace'
      BY <2>4, <3>1 DEF LoopInPlace
    <3> QED
      BY <2>2, <3>2, <3>3, <3>4
  <2> QED
    BY <2>3, <2>4
<1>17. CASE UNCHANGED vars
  <2> USE <1>17 DEF vars, InPlace
  <2>1. TypeOK'
    BY DEF TypeOK
  <2>2. Backed(mem)' /\ DiskInPlace'
    BY DEF Backed, DiskInPlace, MayContribute, Recorded, FailedCount
  <2>3. CurrentInPlace'
    BY DEF CurrentInPlace, MayContribute, Recorded, FailedCount
  <2>4. LoopInPlace'
    BY DEF LoopInPlace, OneAhead, Published
  <2> QED
    BY <2>1, <2>2, <2>3, <2>4
<1> QED
  BY <1>1, <1>2, <1>3, <1>4, <1>5, <1>6, <1>7, <1>8, <1>9, <1>10, <1>11, <1>12,
     <1>13, <1>14, <1>15, <1>16, <1>17 DEF Next, Advance, Finished

(* The invariant holds in every reachable state, for any session ids, any  *)
(* limits and any decisions of the coordinator.                            *)
THEOREM LoopStaysInPlace == Spec => []InPlace
<1>1. Init => InPlace
  <2> SUFFICES ASSUME Init
               PROVE  InPlace
    OBVIOUS
  <2>0. Fresh \in State
    BY DEF Fresh, State, SidOrNone
  <2>1. TypeOK
    BY <2>0 DEF Init, TypeOK, Pc
  <2>2. mem.outcomes = <<>> /\ mem.current = None
    BY DEF Init, Fresh
  <2> QED
    BY <2>1, <2>2
       DEF Init, InPlace, Backed, DiskInPlace, CurrentInPlace, LoopInPlace
<1> QED
  BY <1>1, InPlacePreserved, PTL DEF Spec

-----------------------------------------------------------------------------
(* What the invariant is for *)

(* The loop's state, the checkpoint and the rows keep their types.         *)
THEOREM TypeCorrect == Spec => []TypeOK
<1>1. InPlace => TypeOK
  BY DEF InPlace
<1> QED
  BY <1>1, LoopStaysInPlace, PTL

(* No session has two outcomes, however often the run is paused, crashes   *)
(* and is resumed, and whatever plan items the coordinator re-opens.       *)
THEOREM OneOutcomePerSessionHolds == Spec => []OneOutcomePerSession
<1>1. InPlace => OneOutcomePerSession
  BY DEF InPlace, Backed, OneOutcomePerSession
<1> QED
  BY <1>1, LoopStaysInPlace, PTL

(* Every session that the checkpoint is in or has an outcome of is in SQL, *)
(* in every state in which the process may stop.                           *)
THEOREM CheckpointBackedBySqlHolds == Spec => []CheckpointBackedBySql
<1>1. InPlace => CheckpointBackedBySql
  BY DEF InPlace, DiskInPlace, Backed, CheckpointBackedBySql
<1> QED
  BY <1>1, LoopStaysInPlace, PTL

-----------------------------------------------------------------------------
(* Refinement of RunHistory *)

(* A replaced file without a commit changes no outcome; it may close the   *)
(* history, which was open.                                                *)
LEMMA PublishOnlyCloses ==
    ASSUME InPlace, NEW m \in State, NEW next, PublishOnly(m, next),
           m.outcomes = Published, ~HasResult
    PROVE  [History!HistoryNext]_History!historyVars
<1>1. m # NoCheckpoint
  BY NoCheckpointAssumption
<1>2. Published' = Published
  BY <1>1 DEF PublishOnly, Published
<1> QED
  BY <1>2 DEF HasResult, History!HistoryNext, History!Close, History!historyVars

(* Every step of the loop is a step of the history, or none: the two       *)
(* halves of _persist record an outcome together, a result closes, and a   *)
(* crash or a resume leaves the history as it is.                          *)
LEMMA HistoryStep ==
    InPlace /\ [Next]_vars => [History!HistoryNext]_History!historyVars
<1> SUFFICES ASSUME InPlace, [Next]_vars
             PROVE  [History!HistoryNext]_History!historyVars
  OBVIOUS
<1>0. mem \in State
  BY DEF InPlace, TypeOK
<1>1. ASSUME UNCHANGED disk
      PROVE  [History!HistoryNext]_History!historyVars
  BY <1>1 DEF Published, HasResult, History!historyVars
<1>2. CASE PublishCheckpoint
  <2>1. OneAhead(mem) /\ HasResult = FALSE /\ mem.status = "running"
    BY <1>2 DEF PublishCheckpoint, InPlace, LoopInPlace, HasResult
  <2>2. Published' = mem.outcomes /\ HasResult' = FALSE
    BY <1>0, <1>2, <2>1, NoCheckpointAssumption DEF PublishCheckpoint, Published, HasResult
  <2>3. CASE mem.outcomes = Published
    BY <2>1, <2>2, <2>3 DEF History!historyVars
  <2>4. ASSUME NEW sid \in Sids, NEW ok \in BOOLEAN,
               \A i \in DOMAIN Published : Published[i].sid # sid,
               Len(Published) < MaxSessions,
               Cardinality({i \in DOMAIN Published : ~Published[i].ok}) <= MaxFailedSessions,
               mem.outcomes = Append(Published, [sid |-> sid, ok |-> ok])
        PROVE  History!Record(sid, ok)
    <3>1. Published' = Append(Published, [sid |-> sid, ok |-> ok])
      BY <2>2, <2>4
    <3>2. ~HasResult /\ UNCHANGED HasResult
      BY <2>1, <2>2
    <3> QED  \* the instance has a Cardinality of its own
      BY <2>4, <3>1, <3>2, Zenon DEF History!Record, History!Cardinality, Cardinality
  <2> QED
    BY <2>1, <2>3, <2>4 DEF OneAhead, History!HistoryNext
<1>3. CASE RepublishResult
  <2>1. disk' = disk
    BY <1>3 DEF RepublishResult, PublishOnly, InPlace, LoopInPlace, Fresh
  <2> QED
    BY <1>1, <2>1
<1>4. ASSUME pc \in {"deciding", "insession", "recovering"}
      PROVE  mem.outcomes = Published /\ ~HasResult
  BY <1>4 DEF InPlace, LoopInPlace, HasResult
<1>5. CASE PauseAtTop
  BY <1>0, <1>4, <1>5, StepKeeps, PublishOnlyCloses DEF PauseAtTop
<1>6. ASSUME NEW m \in State, NEW st \in {"completed", "terminated"},
             m.outcomes = mem.outcomes, pc = "deciding", PublishResult(m, st)
      PROVE  [History!HistoryNext]_History!historyVars
  <2> DEFINE r == [m EXCEPT !.status = st]
  <2>1. r \in State /\ r.outcomes = m.outcomes
    BY DEF State
  <2>2. PublishOnly(r, "finishing")
    BY <1>6 DEF PublishResult
  <2> HIDE DEF r
  <2> QED
    BY <1>4, <1>6, <2>1, <2>2, PublishOnlyCloses
<1>7. CASE LimitAtTop
  BY <1>0, <1>6, <1>7, StepKeeps DEF LimitAtTop
<1>8. CASE SessionPauses
  BY <1>0, <1>4, <1>8, PublishOnlyCloses DEF SessionPauses
<1>9. CASE Decide
  <2>1. ASSUME NEW m \in State, NEW sid, m.outcomes = mem.outcomes, MayDecide,
               StartSession(m, sid)
        PROVE  [History!HistoryNext]_History!historyVars
    BY <1>1, <1>6, <2>1 DEF StartSession, MayDecide
  <2>2. CASE DecideComplete
    BY <1>0, <1>6, <2>2, StepKeeps DEF DecideComplete, MayDecide
  <2>3. ASSUME NEW sid \in Sids, DecideDirect(sid)
        PROVE  [History!HistoryNext]_History!historyVars
    BY <1>0, <2>1, <2>3, StepKeeps DEF DecideDirect
  <2>4. CASE DecideTooManyRounds
    <3> DEFINE t == [Step(mem) EXCEPT !.round = @ + 1]
    <3>1. Step(mem) \in State /\ Step(mem).round + 1 \in Nat
      BY <1>0, StepKeeps DEF State
    <3>2. t \in State /\ t.outcomes = Step(mem).outcomes
      BY <3>1 DEF State
    <3> QED
      BY <1>0, <1>6, <2>4, <3>2, StepKeeps DEF DecideTooManyRounds, MayDecide
  <2>5. ASSUME NEW n \in 0 .. MaxProposed, NEW sid \in Sids,
               NEW revised \in Revisions(Proposed(mem.plan, n), DOMAIN mem.plan),
               NEW items \in SUBSET DOMAIN mem.plan,
               DecidePlanned(n, Abandoned(revised, items), sid)
        PROVE  [History!HistoryNext]_History!historyVars
    <3> DEFINE plan == Abandoned(revised, items)
               m == [Step(mem) EXCEPT !.round = @ + 1, !.plan = plan]
    <3>1. mem.plan \in Seq(Item) /\ plan \in Seq(Item)
      <4>1. mem.plan \in Seq(Item)
        BY <1>0 DEF State
      <4> QED
        BY <4>1, DecidedPlan
    <3> HIDE DEF plan
    <3>2. m \in State /\ m.outcomes = mem.outcomes /\ m.plan = plan
      BY <1>0, <3>1, ReplanKeeps
    <3>3. \/ UNCHANGED disk
          \/ \E i \in ItemsWith(m, {"pending"}) :
                /\ MayDecide
                /\ StartSession([m EXCEPT !.plan[i] = [status |-> "running", sid |-> sid]],
                                sid)
      BY <2>5 DEF DecidePlanned, plan
    <3> HIDE DEF m
    <3>4. ASSUME NEW i \in ItemsWith(m, {"pending"}), MayDecide,
                 StartSession([m EXCEPT !.plan[i] = [status |-> "running", sid |-> sid]], sid)
          PROVE  [History!HistoryNext]_History!historyVars
      <4> DEFINE s == [m EXCEPT !.plan[i] = [status |-> "running", sid |-> sid]]
      <4>1. s \in State /\ s.outcomes = mem.outcomes
        BY <3>2, BegunItemKeeps DEF ItemsWith
      <4>2. StartSession(s, sid)
        BY <3>4
      <4> HIDE DEF s
      <4> QED
        BY <2>1, <3>4, <4>1, <4>2
    <3> QED
      BY <1>1, <3>3, <3>4
  <2> QED
    BY <1>9, <2>2, <2>3, <2>4, <2>5 DEF Decide
<1>10. CASE CommitBeforeCheckpoint \/ CommitResult \/ CommitPaused \/ Raise
            \/ RequestPause \/ Crash \/ Resume \/ Finished \/ EnterLoop \/ RecoverCurrent
  BY <1>1, <1>10
     DEF CommitBeforeCheckpoint, CommitResult, CommitPaused, Raise, RequestPause, Crash,
         Resume, Finished, EnterLoop, RecoverCurrent, vars
<1>11. ASSUME NEW ok \in BOOLEAN, SessionEnds(ok)
       PROVE  [History!HistoryNext]_History!historyVars
  BY <1>1, <1>11 DEF SessionEnds
<1>12. CASE UNCHANGED vars
  BY <1>1, <1>12 DEF vars
<1> QED
  BY <1>2, <1>3, <1>5, <1>7, <1>8, <1>9, <1>10, <1>11, <1>12 DEF Next, Advance

(* The checkpoint file shows a later process a history as RunHistory       *)
(* promises it: one outcome per session, within the budgets, append-only,  *)
(* and closed by the result.                                               *)
THEOREM HistoryImplemented == Spec => HistorySpecImplemented
<1>1. Init => History!HistoryInit
  BY DEF Init, Published, HasResult, History!HistoryInit
<1> QED
  BY <1>1, HistoryStep, LoopStaysInPlace, PTL
     DEF Spec, HistorySpecImplemented, History!HistorySpec

=============================================================================
