------------------------ MODULE SessionRuntimeProofs ------------------------
(***************************************************************************)
(* Proofs about SessionRuntime, for any roles, limits, decisions and       *)
(* role executions.                                                        *)
(*                                                                         *)
(* The session lives in memory, in the open transaction, in what SQL has   *)
(* committed and in one file per role execution.  The invariant says how   *)
(* far each may be ahead of the next, by where the session stands, and     *)
(* that whichever of them a restart begins with is one to go on from.      *)
(***************************************************************************)
EXTENDS SessionRuntime, FiniteSetTheorems, SequenceTheorems, TLAPS

InRole == {"looping", "planning", "iterating", "committing", "publishing",
           "accounting"} \union Inside

\* Where the role stands, or goes on once its boundary is complete.
Stage == IF pc \in {"committing", "publishing"} THEN after ELSE pc

-----------------------------------------------------------------------------
(* The session between its stores *)

\* Memory, transaction and SQL agree where the code takes them to.
StoresInPlace ==
    /\ main # None <=> pc \in InRole \union {"top", "returned"}
    /\ pc \in InRole \union {"top"} =>
          main.status = "running" /\ live.sess = "running" /\ live.main # None
    /\ pc \in InRole \union {"returned"} => live.main = main
    /\ pc = "returned" => main.status # "running"
    /\ pc = "ready" => live.main = None /\ committed.main = None
    /\ pc = "publishing" => committed = live
    /\ pc = "down" => live = committed

\* An execution that is over or paused, in memory or in a file.
WellEnded(x) ==
    /\ x.status = "completed" => x.output # None
    /\ x.status = "paused" => x.flight = "none"

\* Status, flight and output of an execution at a stage.
AtStage(x, stage) ==
    /\ WellEnded(x)
    /\ stage = "looping" =>
          x.status \in {"running", "terminated"} /\ x.flight = "none"
    /\ stage = "deciding" => x.status = "running" /\ x.flight = "provider"
    /\ stage = "acting" =>
          x.status = "running" /\ x.flight = "tool" /\ x.output # None
    /\ stage \in {"decided", "planning", "acted", "iterating"} =>
          x.status = "running" /\ x.flight = "none" /\ x.output # None
    /\ stage = "accounting" => x.status # "running"

\* The execution in memory is that of the session's role.
RoleInPlace ==
    /\ pc \in InRole =>
          /\ rx # None
          /\ main.cur # None
          /\ rx.role = main.role
          /\ AtStage(rx, Stage)
    /\ pc \in {"acting", "accounting"} => file[main.cur] = rx
    /\ \A e \in Execs : file[e] # None => WellEnded(file[e])

-----------------------------------------------------------------------------
(* Usage *)

\* A state counts what its results used, and knows every file there is.
Accurate(m) ==
    /\ Counted(m)
    /\ IsFiniteSet(Units([e \in m.results |-> file[e].llm]))
    /\ IsFiniteSet(Units([e \in m.results |-> file[e].tools]))
    /\ \A e \in Execs : file[e] # None => e \in m.results \union {m.cur}

UsageInPlace ==
    /\ main # None => Accurate(main)
    /\ \A sql \in {live, committed} :
          IF sql.main = None THEN \A e \in Execs : file[e] = None
                             ELSE Accurate(sql.main)

-----------------------------------------------------------------------------
(* Actions and their effects *)

Invoked == {invoked[i] : i \in DOMAIN invoked}
EffectsOf(sql, e) == {a \in sql.effects : a[1] = e}

\* Every action of `e` so far lies before the next one that `x` may start.
Covers(x, e) ==
    \A a \in Invoked : a[1] = e =>
        /\ a[2] <= x.step
        /\ a[2] = x.step /\ x.output # None => a[3] <= x.next

\* SQL is ahead of the tool calls `x` counts by the action in flight at most.
Backs(sql, x, e) ==
    Cardinality(EffectsOf(sql, e)) - x.tools \in
        IF x.flight = "tool" \/ x.status \in {"failed", "terminated"}
        THEN {0, 1} ELSE {0}

LedgerInPlace ==
    /\ \A i, j \in DOMAIN invoked : invoked[i] = invoked[j] => i = j
    /\ \A a \in Invoked : file[a[1]] # None
    /\ \A sql \in {live, committed} :
          /\ IsFiniteSet(sql.effects)
          /\ sql.effects \subseteq Invoked
          /\ \A e \in Execs : file[e] # None => Backs(sql, file[e], e)
    /\ \A e \in Execs : file[e] # None => Covers(file[e], e)
    /\ pc \in InRole => Covers(rx, main.cur) /\ Backs(live, rx, main.cur)
    /\ pc \in InRole /\ Stage = "acting" =>
          /\ Action(rx) \notin Invoked
          /\ Cardinality(EffectsOf(live, main.cur)) = rx.tools

-----------------------------------------------------------------------------
(* What a pause and an outcome leave *)

Continuable(sql) ==
    sql.sess = "paused" =>
        /\ sql.main # None
        /\ sql.main.status = "paused"
        /\ sql.main.cur # None =>
              LET x == file[sql.main.cur] IN
              x # None /\ x.status = "paused" /\ x.flight = "none" /\ x.role = sql.main.role

Settled ==
    committed.main # None /\ committed.main.status \in Terminal =>
        /\ pc \in {"returned", "recording", "recorded", "done", "down"}
        /\ live.main = committed.main
        /\ live.sess = committed.sess

\* The inductive invariant.
InPlace ==
    /\ TypeOK
    /\ StoresInPlace
    /\ RoleInPlace
    /\ UsageInPlace
    /\ LedgerInPlace
    /\ Continuable(live) /\ Continuable(committed)
    /\ Settled

-----------------------------------------------------------------------------
(* Lemmas about usage.                                                     *)

(* An execution that is counted for the first time adds what it used.      *)
LEMMA UnitsAdd ==
    ASSUME NEW used, NEW more, NEW e, e \notin DOMAIN used,
           DOMAIN more = DOMAIN used \union {e},
           \A d \in DOMAIN used : more[d] = used[d],
           more[e] \in Nat, IsFiniteSet(Units(used))
    PROVE  /\ IsFiniteSet(Units(more))
           /\ Cardinality(Units(more)) = Cardinality(Units(used)) + more[e]
<1> DEFINE new == {e} \X (1 .. more[e])
<1>1. Units(more) = Units(used) \union new
  BY DEF Units
<1>2. Units(used) \intersect new = {}
  BY DEF Units
<1>3. IsFiniteSet(new) /\ Cardinality(new) = more[e]
  <2>1. IsFiniteSet({e}) /\ Cardinality({e}) = 1
    BY FS_Singleton
  <2>2. IsFiniteSet(1 .. more[e]) /\ Cardinality(1 .. more[e]) = more[e]
    BY FS_Interval
  <2>3. /\ IsFiniteSet({e} \X (1 .. more[e]))
        /\ Cardinality({e} \X (1 .. more[e])) = Cardinality({e}) * Cardinality(1 .. more[e])
    BY <2>1, <2>2, FS_Product, Zenon
  <2> QED
    BY <2>1, <2>2, <2>3
<1> HIDE DEF new
<1>4. Cardinality(Units(used)) \in Nat
  BY FS_CardinalityType
<1>5. Cardinality(Units(used) \intersect new) = 0
  BY <1>2, FS_EmptySet
<1>6. /\ IsFiniteSet(Units(used) \union new)
      /\ Cardinality(Units(used) \union new) =
            Cardinality(Units(used)) + Cardinality(new) - Cardinality(Units(used) \intersect new)
  BY <1>3, FS_Union, Zenon
<1>7. Cardinality(Units(used) \union new) = Cardinality(Units(used)) + more[e]
  BY <1>3, <1>4, <1>5, <1>6
<1> QED
  BY <1>1, <1>6, <1>7, Zenon

(* Accuracy is about results, current execution and the three counters.    *)
LEMMA SameUsage ==
    ASSUME NEW m, NEW n, m.results = n.results, m.cur = n.cur, m.steps = n.steps,
           m.llm = n.llm, m.tools = n.tools, Accurate(m)
    PROVE  Accurate(n)
BY DEF Accurate, Counted

(* A file that is not among the results is written.                        *)
LEMMA WrittenUsage ==
    ASSUME NEW m, Accurate(m), NEW e \in Execs, m.cur = e, m.results \subseteq Execs,
           file \in [Execs -> Execution \union {None}],
           NEW x, file' = [file EXCEPT ![e] = x]
    PROVE  /\ \A d \in m.results : file'[d] # None /\ file'[d].status \in Terminal
           /\ [d \in m.results |-> file'[d].llm] = [d \in m.results |-> file[d].llm]
           /\ [d \in m.results |-> file'[d].tools] = [d \in m.results |-> file[d].tools]
           /\ \A d \in Execs : file'[d] # None => d \in m.results \union {m.cur}
<1>1. e \notin m.results
  BY DEF Accurate, Counted
<1>2. \A d \in m.results : file'[d] = file[d]
  BY <1>1
<1> QED
  BY <1>2 DEF Accurate, Counted

(* The state that names the execution it enters, which is a new one or the *)
(* one it was in: as long as steps are left, so are ids.                   *)
LEMMA EnteringAccurate ==
    ASSUME InPlace, pc = "top", ~LimitReached(main)
    PROVE  /\ Entering \in MainState
           /\ Entering.cur \in Execs
           /\ Entering.status = "running"
           /\ Entering.role = main.role
           /\ Accurate(Entering)
<1>1. /\ main \in MainState
      /\ main.status = "running"
      /\ Accurate(main)
  BY DEF InPlace, TypeOK, StoresInPlace, UsageInPlace
<1>2. CASE main.cur # None
  <2>1. main.cur \in Execs /\ Entering = main
    BY <1>1, <1>2 DEF MainState, Entering
  <2> QED
    BY <1>1, <2>1
<1>3. CASE main.cur = None
  <2>1. \E e \in Execs : file[e] = None /\ e \notin main.results
    <3>1. main.results \in SUBSET Execs /\ main.steps \in Nat
      BY <1>1 DEF MainState
    <3>2. main.steps = Cardinality(main.results) /\ main.steps < MaxSteps
      BY <1>1, <3>1, SessionAssumption DEF Accurate, Counted, LimitReached
    <3>3. main.results # Execs
      BY <3>1, <3>2, SessionAssumption
    <3>4. \A e \in Execs : file[e] # None => e \in main.results
      BY <1>1, <1>3, SessionAssumption DEF Accurate
    <3> QED
      BY <3>1, <3>3, <3>4
  <2>2. UnusedExec \in Execs /\ file[UnusedExec] = None /\ UnusedExec \notin main.results
    BY <2>1 DEF UnusedExec
  <2>3. /\ Entering \in MainState
        /\ Entering.cur = UnusedExec
        /\ Entering.status = main.status
        /\ Entering.role = main.role
        /\ Entering.results = main.results
        /\ Entering.steps = main.steps
        /\ Entering.llm = main.llm
        /\ Entering.tools = main.tools
    BY <1>1, <1>3, <2>2 DEF MainState, Entering
  <2>4. Accurate(Entering)
    BY <1>1, <1>3, <2>2, <2>3, SessionAssumption DEF Accurate, Counted
  <2> QED
    BY <1>1, <2>2, <2>3, <2>4
<1> QED
  BY <1>2, <1>3

(* A role that is over is added to the results with what it used.          *)
LEMMA AccountedAccurate ==
    ASSUME InPlace, pc = "accounting", rx.status \in Terminal
    PROVE  /\ Accounted(main) \in MainState
           /\ Accounted(main).cur = None
           /\ Accounted(main).status = "running"
           /\ Accurate(Accounted(main))
<1> DEFINE m == Accounted(main)
           e == main.cur
<1>1. /\ main \in MainState
      /\ main.status = "running"
      /\ e \in Execs
      /\ rx \in Execution
      /\ file[e] = rx
      /\ rx # None
      /\ Accurate(main)
  BY DEF InPlace, TypeOK, StoresInPlace, RoleInPlace, UsageInPlace, InRole, MainState
<1>2. /\ m \in MainState
      /\ m.results = main.results \union {e}
      /\ m.cur = None
      /\ m.status = "running"
      /\ m.steps = main.steps + 1
      /\ m.llm = main.llm + rx.llm
      /\ m.tools = main.tools + rx.tools
  <2>1. /\ main.results \union {e} \in SUBSET Execs
        /\ main.steps + 1 \in Nat
        /\ main.llm + rx.llm \in Nat
        /\ main.tools + rx.tools \in Nat
    BY <1>1 DEF MainState, Execution
  <2>2. m = [main EXCEPT !.results = main.results \union {e}, !.cur = None,
                         !.steps = main.steps + 1, !.llm = main.llm + rx.llm,
                         !.tools = main.tools + rx.tools]
    BY <1>1 DEF MainState, Accounted
  <2> HIDE DEF m
  <2> QED
    BY <1>1, <2>1, <2>2 DEF MainState
<1>3. e \notin main.results /\ main.results \in SUBSET Execs
  BY <1>1 DEF Accurate, Counted, MainState
<1>4. rx.llm \in Nat /\ rx.tools \in Nat
  BY <1>1 DEF Execution
<1> HIDE DEF m
<1>5. m.steps = Cardinality(m.results)
  <2>1. IsFiniteSet(main.results)
    BY <1>3, SessionAssumption, FS_Subset
  <2>2. Cardinality(main.results \union {e}) = Cardinality(main.results) + 1
    BY <1>3, <2>1, FS_AddElement, Zenon
  <2>3. main.steps = Cardinality(main.results)
    BY <1>1 DEF Accurate, Counted
  <2> QED
    BY <1>2, <2>2, <2>3
<1>6. /\ IsFiniteSet(Units([d \in m.results |-> file[d].llm]))
      /\ m.llm = Cardinality(Units([d \in m.results |-> file[d].llm]))
  <2> DEFINE used == [d \in main.results |-> file[d].llm]
             more == [d \in m.results |-> file[d].llm]
  <2>1. IsFiniteSet(Units(used)) /\ main.llm = Cardinality(Units(used))
    BY <1>1 DEF Accurate, Counted
  <2>2. /\ e \notin DOMAIN used
        /\ DOMAIN more = DOMAIN used \union {e}
        /\ \A d \in DOMAIN used : more[d] = used[d]
        /\ more[e] = rx.llm
    BY <1>1, <1>2, <1>3
  <2> HIDE DEF used, more
  <2>3. IsFiniteSet(Units(more)) /\ Cardinality(Units(more)) = main.llm + rx.llm
    BY <1>4, <2>1, <2>2, UnitsAdd
  <2> QED
    BY <1>2, <2>3 DEF more
<1>7. /\ IsFiniteSet(Units([d \in m.results |-> file[d].tools]))
      /\ m.tools = Cardinality(Units([d \in m.results |-> file[d].tools]))
  <2> DEFINE used == [d \in main.results |-> file[d].tools]
             more == [d \in m.results |-> file[d].tools]
  <2>1. IsFiniteSet(Units(used)) /\ main.tools = Cardinality(Units(used))
    BY <1>1 DEF Accurate, Counted
  <2>2. /\ e \notin DOMAIN used
        /\ DOMAIN more = DOMAIN used \union {e}
        /\ \A d \in DOMAIN used : more[d] = used[d]
        /\ more[e] = rx.tools
    BY <1>1, <1>2, <1>3
  <2> HIDE DEF used, more
  <2>3. IsFiniteSet(Units(more)) /\ Cardinality(Units(more)) = main.tools + rx.tools
    BY <1>4, <2>1, <2>2, UnitsAdd
  <2> QED
    BY <1>2, <2>3 DEF more
<1>8. /\ \A d \in m.results : file[d] # None /\ file[d].status \in Terminal
      /\ m.cur \notin m.results
      /\ \A d \in Execs : file[d] # None => d \in m.results \union {m.cur}
  BY <1>1, <1>2, <1>3, SessionAssumption DEF Accurate, Counted
<1> QED
  BY <1>2, <1>5, <1>6, <1>7, <1>8 DEF Accurate, Counted, m

-----------------------------------------------------------------------------
(* Steps of a role.                                                        *)

(* A boundary begins: the role has a new state in memory, and nothing else *)
(* changes yet.                                                            *)
LEMMA BoundaryKeeps ==
    ASSUME InPlace, pc \in InRole,
           NEW x \in Execution, NEW next \in Inside \union {"looping", "accounting"},
           Boundary(x, next),
           UNCHANGED <<main, live, committed, file, pause, invoked, outcome>>,
           x.role = rx.role, AtStage(x, next), Covers(x, main.cur),
           Backs(live, x, main.cur),
           next = "acting" => /\ Action(x) \notin Invoked
                              /\ Cardinality(EffectsOf(live, main.cur)) = x.tools
    PROVE  InPlace'
<1> USE DEF InPlace, Boundary
<1>0. /\ pc' = "committing" /\ Stage' = next /\ rx' = x
      /\ pc' \in InRole /\ x # None
  BY NoneAssumption DEF Stage, InRole
<1>1. TypeOK'
  BY DEF TypeOK, Pc
<1>2. StoresInPlace'
  BY <1>0 DEF StoresInPlace
<1>3. RoleInPlace'
  BY <1>0 DEF RoleInPlace, AtStage, WellEnded
<1>4. UsageInPlace'
  BY DEF UsageInPlace, Accurate, Counted
<1>5. LedgerInPlace'
  BY <1>0 DEF LedgerInPlace, Covers, Backs, EffectsOf, Invoked, Action
<1>6. Continuable(live)' /\ Continuable(committed)'
  BY DEF Continuable
<1>7. Settled'
  BY DEF Settled, InRole, Inside
<1> QED
  BY <1>1, <1>2, <1>3, <1>4, <1>5, <1>6, <1>7

(* The last boundary of a role.                                            *)
LEMMA CloseKeeps ==
    ASSUME InPlace, pc \in InRole, NEW x \in Execution,
           NEW st \in {"paused", "completed", "failed", "terminated"}, Close(x, st),
           UNCHANGED <<main, live, committed, file, pause, invoked, outcome>>,
           x.role = rx.role, Covers(x, main.cur), Backs(live, x, main.cur),
           st \in {"paused", "completed"} =>
              x.status = "running" /\ x.flight = "none" /\ x.output # None
    PROVE  InPlace'
<1> DEFINE y == [x EXCEPT !.status = st]
<1>1. /\ y \in Execution
      /\ y.status = st
      /\ y.role = x.role
      /\ y.step = x.step
      /\ y.tools = x.tools
      /\ y.output = x.output
      /\ y.next = x.next
      /\ y.flight = x.flight
  BY DEF Execution, Terminal
<1>2. Boundary(y, "accounting")
  BY DEF Close
<1> HIDE DEF y
<1>3. AtStage(y, "accounting")
  BY <1>1 DEF AtStage, WellEnded
<1>4. Covers(y, main.cur)
  BY <1>1 DEF Covers
<1>5. Backs(live, y, main.cur)
  BY <1>1 DEF Backs
<1> QED
  BY <1>1, <1>2, <1>3, <1>4, <1>5, BoundaryKeeps

(* The role goes on in memory.                                             *)
LEMMA LoopKeeps ==
    ASSUME InPlace, pc \in InRole \ {"committing", "publishing"},
           NEW x \in Execution, rx' = x,
           pc' \in {"looping", "planning", "iterating"},
           UNCHANGED <<main, live, committed, file, pause, after, invoked, outcome>>,
           x.role = rx.role, AtStage(x, pc'), Covers(x, main.cur),
           Backs(live, x, main.cur)
    PROVE  InPlace'
<1> USE DEF InPlace
<1>0. /\ Stage' = pc' /\ pc' \in InRole /\ x # None
  BY NoneAssumption DEF Stage, InRole
<1>1. TypeOK'
  BY DEF TypeOK, Pc
<1>2. StoresInPlace'
  BY <1>0 DEF StoresInPlace
<1>3. RoleInPlace'
  BY <1>0 DEF RoleInPlace, AtStage, WellEnded
<1>4. UsageInPlace'
  BY DEF UsageInPlace, Accurate, Counted
<1>5. LedgerInPlace'
  BY <1>0 DEF LedgerInPlace, Covers, Backs, EffectsOf, Invoked, Action
<1>6. Continuable(live)' /\ Continuable(committed)'
  BY DEF Continuable
<1>7. Settled'
  BY DEF Settled, InRole, Inside
<1> QED
  BY <1>1, <1>2, <1>3, <1>4, <1>5, <1>6, <1>7

(* First half of a boundary: SQL catches up with the transaction.          *)
LEMMA CommitBoundaryKeeps == InPlace /\ CommitBeforeRoleCheckpoint => InPlace'
<1> SUFFICES ASSUME InPlace, CommitBeforeRoleCheckpoint
             PROVE  InPlace'
  OBVIOUS
<1> USE DEF InPlace, CommitBeforeRoleCheckpoint
<1>0. pc \in InRole /\ pc' \in InRole /\ Stage' = Stage /\ live.main = main
  BY DEF Stage, InRole, StoresInPlace
<1>1. TypeOK'
  BY DEF TypeOK, Pc
<1>2. StoresInPlace'
  BY <1>0 DEF StoresInPlace
<1>3. RoleInPlace'
  BY <1>0 DEF RoleInPlace, AtStage, WellEnded
<1>4. UsageInPlace'
  BY DEF UsageInPlace, Accurate, Counted
<1>5. LedgerInPlace'
  BY <1>0 DEF LedgerInPlace, Covers, Backs, EffectsOf, Invoked, Action
<1>6. Continuable(live)' /\ Continuable(committed)'
  BY DEF Continuable
<1>7. Settled'
  BY <1>0 DEF StoresInPlace, Settled, Terminal
<1> QED
  BY <1>1, <1>2, <1>3, <1>4, <1>5, <1>6, <1>7

(* Second half: the file catches up with the role.  It is the file of the  *)
(* current execution, which no state counts yet.                           *)
LEMMA PublishBoundaryKeeps == InPlace /\ PublishRoleCheckpoint => InPlace'
<1> SUFFICES ASSUME InPlace, PublishRoleCheckpoint
             PROVE  InPlace'
  OBVIOUS
<1> USE DEF InPlace, PublishRoleCheckpoint
<1>0. /\ pc \in InRole /\ pc' \in InRole /\ Stage' = Stage /\ Stage = after
      /\ pc' = after
  BY DEF Stage, InRole, Inside, TypeOK
<1>1. /\ main # None /\ main \in MainState
      /\ main.cur \in Execs
      /\ live.main = main
      /\ committed = live
      /\ live.sess = "running"
      /\ main.status = "running"
      /\ rx \in Execution /\ rx # None
      /\ file \in [Execs -> Execution \union {None}]
  BY <1>0 DEF TypeOK, StoresInPlace, RoleInPlace, MainState, InRole
<1>2. /\ file' \in [Execs -> Execution \union {None}]
      /\ file'[main.cur] = rx
      /\ \A e \in Execs \ {main.cur} : file'[e] = file[e]
  BY <1>1
<1>3. TypeOK'
  BY <1>0, <1>2 DEF TypeOK, Pc, Inside
<1>4. StoresInPlace'
  BY <1>0 DEF StoresInPlace, Inside, InRole
<1>5. RoleInPlace'
  BY <1>0, <1>1, <1>2 DEF RoleInPlace, AtStage, WellEnded
<1>6. UsageInPlace'
  <2>1. Accurate(main) /\ main.results \subseteq Execs
    BY <1>1 DEF UsageInPlace, MainState
  <2>2. /\ \A d \in main.results : file'[d] # None /\ file'[d].status \in Terminal
        /\ [d \in main.results |-> file'[d].llm] = [d \in main.results |-> file[d].llm]
        /\ [d \in main.results |-> file'[d].tools] = [d \in main.results |-> file[d].tools]
        /\ \A d \in Execs : file'[d] # None => d \in main.results \union {main.cur}
    BY <1>1, <2>1, WrittenUsage
  <2>3. Accurate(main)'
    BY <2>1, <2>2 DEF Accurate, Counted
  <2> QED
    BY <1>1, <2>3 DEF UsageInPlace
<1>7. LedgerInPlace'
  <2>1. Covers(rx, main.cur) /\ Backs(live, rx, main.cur)
    BY <1>0 DEF LedgerInPlace
  <2>2. \A a \in Invoked : file'[a[1]] # None
    BY <1>1 DEF LedgerInPlace
  <2>3. \A e \in Execs : file'[e] # None => Covers(file'[e], e) /\ Backs(live, file'[e], e)
    BY <1>2, <2>1 DEF LedgerInPlace
  <2> QED
    BY <1>0, <1>1, <2>1, <2>2, <2>3
       DEF LedgerInPlace, Covers, Backs, EffectsOf, Invoked, Action
<1>8. Continuable(live)' /\ Continuable(committed)'
  BY <1>1 DEF Continuable
<1>9. Settled'
  BY <1>1 DEF Settled, Terminal
<1> QED
  BY <1>3, <1>4, <1>5, <1>6, <1>7, <1>8, <1>9

-----------------------------------------------------------------------------
(* Actions *)

\* What is on record when an action is handed to the executor.
LEMMA ActionIsNew ==
    ASSUME InPlace, pc = "acting", invoked' = Append(invoked, Action(rx))
    PROVE  /\ main.cur \in Execs /\ main # None
           /\ rx \in Execution /\ rx # None
           /\ file[main.cur] = rx
           /\ rx.status = "running" /\ rx.flight = "tool" /\ rx.output # None
           /\ Action(rx) \in Actions /\ Action(rx) \notin Invoked
           /\ invoked' \in Seq(Actions)
           /\ Invoked' = Invoked \union {Action(rx)}
           /\ \A i, j \in DOMAIN invoked' : invoked'[i] = invoked'[j] => i = j
           /\ \A e \in Execs : file[e] # None =>
                 \A a \in Invoked' : a[1] = e =>
                    /\ a[2] <= file[e].step
                    /\ a[2] = file[e].step /\ file[e].output # None => a[3] <= file[e].next
<1>1. /\ main.cur \in Execs /\ main # None
      /\ rx \in Execution /\ rx # None
      /\ file[main.cur] = rx
      /\ rx.status = "running" /\ rx.flight = "tool" /\ rx.output # None
  BY DEF InPlace, TypeOK, StoresInPlace, RoleInPlace, AtStage, Stage, InRole, Inside,
         MainState
<1>2. Action(rx) \notin Invoked
  BY DEF InPlace, LedgerInPlace, Stage, InRole, Inside
<1>3. rx.step \in Nat /\ rx.next \in Nat
  BY <1>1 DEF Execution
<1>4. Action(rx) \in Actions
  BY <1>1, <1>3 DEF Action, Actions
<1>5. invoked \in Seq(Actions)
  BY DEF InPlace, TypeOK
<1>6. /\ Len(invoked) \in Nat
      /\ DOMAIN invoked = 1 .. Len(invoked)
      /\ invoked' \in Seq(Actions)
      /\ DOMAIN invoked' = 1 .. Len(invoked) + 1
      /\ \A i \in 1 .. Len(invoked) : invoked'[i] = invoked[i]
      /\ invoked'[Len(invoked) + 1] = Action(rx)
  BY <1>4, <1>5
<1>7. Invoked' = Invoked \union {Action(rx)}
  BY <1>6 DEF Invoked
<1>8. \A i, j \in DOMAIN invoked' : invoked'[i] = invoked'[j] => i = j
  BY <1>2, <1>6 DEF InPlace, LedgerInPlace, Invoked
<1>9. \A e \in Execs : file[e] # None =>
         \A a \in Invoked' : a[1] = e =>
            /\ a[2] <= file[e].step
            /\ a[2] = file[e].step /\ file[e].output # None => a[3] <= file[e].next
  <2>1. ASSUME NEW e \in Execs, file[e] # None, NEW a \in Invoked, a[1] = e
        PROVE  /\ a[2] <= file[e].step
               /\ a[2] = file[e].step /\ file[e].output # None => a[3] <= file[e].next
    BY <2>1 DEF InPlace, LedgerInPlace, Covers
  <2>2. /\ Action(rx)[1] = main.cur
        /\ Action(rx)[2] <= rx.step
        /\ Action(rx)[3] <= rx.next
    BY <1>3 DEF Action
  <2> QED
    BY <1>1, <1>7, <2>1, <2>2
<1> QED
  BY <1>1, <1>2, <1>4, <1>6, <1>7, <1>8, <1>9

(* The executor's effect is new to the transaction, and the file, which    *)
(* says that an action is in flight, allows for it.                        *)
LEMMA ActionSucceedsKeeps == InPlace /\ ActionSucceeds => InPlace'
<1> SUFFICES ASSUME InPlace, ActionSucceeds
             PROVE  InPlace'
  OBVIOUS
<1> DEFINE a == Action(rx)
           e == main.cur
           x == [rx EXCEPT !.tools = @ + 1, !.flight = "none"]
<1> USE DEF InPlace
<1>1. pc = "acting" /\ invoked' = Append(invoked, a)
  BY DEF ActionSucceeds
<1>2. /\ e \in Execs /\ main # None
      /\ rx \in Execution /\ rx # None
      /\ file[e] = rx
      /\ rx.status = "running" /\ rx.flight = "tool" /\ rx.output # None
      /\ a \in Actions /\ a \notin Invoked
      /\ invoked' \in Seq(Actions)
      /\ Invoked' = Invoked \union {a}
      /\ \A i, j \in DOMAIN invoked' : invoked'[i] = invoked'[j] => i = j
      /\ \A d \in Execs : file[d] # None =>
            \A b \in Invoked' : b[1] = d =>
               /\ b[2] <= file[d].step
               /\ b[2] = file[d].step /\ file[d].output # None => b[3] <= file[d].next
  BY <1>1, ActionIsNew
<1>3. /\ x \in Execution
      /\ x # None
      /\ x.role = rx.role
      /\ x.status = "running"
      /\ x.flight = "none"
      /\ x.output = rx.output
      /\ x.step = rx.step
      /\ x.next = rx.next
      /\ x.tools = rx.tools + 1
  <2>1. rx.tools + 1 \in Nat
    BY <1>2 DEF Execution
  <2>2. x = [rx EXCEPT !.tools = rx.tools + 1, !.flight = "none"]
    OBVIOUS
  <2>3. x \in Execution
    BY <1>2, <2>1, <2>2 DEF Execution, Flight
  <2> QED
    BY <1>2, <2>3, NoneAssumption DEF Execution
<1>4. a[1] = e
  BY DEF Action
<1>5. live \in Sql /\ live.effects \subseteq Actions
  BY DEF TypeOK, Sql
<1>6. /\ live' \in Sql
      /\ live'.main = live.main
      /\ live'.sess = live.sess
      /\ live'.effects = live.effects \union {a}
  BY <1>2, <1>5 DEF ActionSucceeds, Sql
<1>7. /\ rx' = x /\ pc' = "committing" /\ after' = "acted"
      /\ UNCHANGED <<main, committed, file, pause, outcome>>
  BY DEF ActionSucceeds, Boundary
<1> HIDE DEF x, a
<1>8. /\ EffectsOf(live, e)' = EffectsOf(live, e) \union {a}
      /\ \A d \in Execs \ {e} : EffectsOf(live, d)' = EffectsOf(live, d)
  BY <1>4, <1>6, <1>7 DEF EffectsOf
<1>9. Cardinality(EffectsOf(live, e)') = rx.tools + 1
  <2>1. a \notin EffectsOf(live, e) /\ IsFiniteSet(live.effects)
    BY <1>2 DEF LedgerInPlace, EffectsOf
  <2>2. IsFiniteSet(EffectsOf(live, e))
    BY <2>1, FS_Subset DEF EffectsOf
  <2>3. Cardinality(EffectsOf(live, e)) = rx.tools
    BY <1>1 DEF LedgerInPlace, InRole, Inside, Stage
  <2>4. Cardinality(EffectsOf(live, e) \union {a}) = Cardinality(EffectsOf(live, e)) + 1
    BY <2>1, <2>2, FS_AddElement, Zenon
  <2> QED
    BY <1>8, <2>3, <2>4
<1>10. TypeOK'
  BY <1>2, <1>3, <1>6, <1>7 DEF TypeOK, Pc, Inside
<1>11. /\ pc' \in InRole /\ Stage' = "acted" /\ pc \in InRole
  BY <1>1, <1>7 DEF InRole, Stage, Inside
<1>12. StoresInPlace'
  BY <1>6, <1>7, <1>11 DEF StoresInPlace
<1>13. RoleInPlace'
  BY <1>2, <1>3, <1>7, <1>11 DEF RoleInPlace, AtStage, WellEnded
<1>14. UsageInPlace'
  BY <1>6, <1>7 DEF UsageInPlace, Accurate, Counted
<1>15. LedgerInPlace'
  <2>1. \A b \in Invoked' : file'[b[1]] # None
    BY <1>2, <1>4, <1>7 DEF LedgerInPlace
  <2>2. /\ IsFiniteSet(live'.effects) /\ live'.effects \subseteq Invoked'
        /\ IsFiniteSet(committed'.effects) /\ committed'.effects \subseteq Invoked'
    <3>1. IsFiniteSet(live.effects \union {a})
      BY FS_AddElement DEF LedgerInPlace
    <3> QED
      BY <1>2, <1>6, <1>7, <3>1 DEF LedgerInPlace
  <2>3. ASSUME NEW d \in Execs, file'[d] # None
        PROVE  Backs(live, file[d], d)' /\ Backs(committed, file[d], d)'
    <3>1. Backs(live, file[d], d) /\ Backs(committed, file[d], d)
      BY <1>7, <2>3 DEF LedgerInPlace
    <3>2. Backs(committed, file[d], d)'
      BY <1>7, <3>1 DEF Backs, EffectsOf
    <3>3. CASE d # e
      BY <1>7, <1>8, <3>1, <3>2, <3>3 DEF Backs
    <3>4. CASE d = e
      <4>1. rx.tools \in Nat
        BY <1>2 DEF Execution
      <4> QED
        BY <1>2, <1>7, <1>9, <3>2, <3>4, <4>1 DEF Backs, EffectsOf
    <3> QED
      BY <3>3, <3>4
  <2>4. \A d \in Execs : file'[d] # None => Covers(file[d], d)'
    BY <1>2, <1>7 DEF Covers
  <2>5. Covers(rx, main.cur)'
    BY <1>2, <1>3, <1>7 DEF Covers
  <2>6. Backs(live, rx, main.cur)'
    <3>1. rx.tools \in Nat
      BY <1>2 DEF Execution
    <3> QED
      BY <1>3, <1>7, <1>9, <3>1 DEF Backs, EffectsOf
  <2> QED
    BY <1>2, <1>11, <2>1, <2>2, <2>3, <2>4, <2>5, <2>6 DEF LedgerInPlace
<1>16. Continuable(live)' /\ Continuable(committed)'
  BY <1>6, <1>7 DEF Continuable
<1>17. Settled'
  BY <1>1, <1>7 DEF Settled
<1> QED
  BY <1>10, <1>12, <1>13, <1>14, <1>15, <1>16, <1>17

(* An action that raises had no effect, but may not be started again.      *)
LEMMA ActionFailsKeeps == InPlace /\ ActionFails => InPlace'
<1> SUFFICES ASSUME InPlace, ActionFails
             PROVE  InPlace'
  OBVIOUS
<1> DEFINE a == Action(rx)
           e == main.cur
           x == [rx EXCEPT !.status = "failed"]
<1> USE DEF InPlace
<1>1. pc = "acting" /\ invoked' = Append(invoked, a)
  BY DEF ActionFails
<1>2. /\ e \in Execs /\ main # None
      /\ rx \in Execution /\ rx # None
      /\ file[e] = rx
      /\ rx.status = "running" /\ rx.flight = "tool" /\ rx.output # None
      /\ a \in Actions /\ a \notin Invoked
      /\ invoked' \in Seq(Actions)
      /\ Invoked' = Invoked \union {a}
      /\ \A i, j \in DOMAIN invoked' : invoked'[i] = invoked'[j] => i = j
      /\ \A d \in Execs : file[d] # None =>
            \A b \in Invoked' : b[1] = d =>
               /\ b[2] <= file[d].step
               /\ b[2] = file[d].step /\ file[d].output # None => b[3] <= file[d].next
  BY <1>1, ActionIsNew
<1>3. /\ x \in Execution
      /\ x # None
      /\ x.role = rx.role
      /\ x.status = "failed"
      /\ x.flight = rx.flight
      /\ x.output = rx.output
      /\ x.step = rx.step
      /\ x.next = rx.next
      /\ x.tools = rx.tools
  <2>1. x \in Execution
    BY <1>2 DEF Execution, Terminal
  <2> QED
    BY <1>2, <2>1, NoneAssumption DEF Execution
<1>4. a[1] = e
  BY DEF Action
<1>5. /\ rx' = x /\ pc' = "committing" /\ after' = "accounting"
      /\ UNCHANGED <<main, live, committed, file, pause, outcome>>
  BY DEF ActionFails, Close, Boundary
<1> HIDE DEF x, a
<1>6. TypeOK'
  BY <1>2, <1>3, <1>5 DEF TypeOK, Pc, Inside
<1>7. /\ pc' \in InRole /\ Stage' = "accounting" /\ pc \in InRole
  BY <1>1, <1>5 DEF InRole, Stage, Inside
<1>8. StoresInPlace'
  BY <1>5, <1>7 DEF StoresInPlace
<1>9. RoleInPlace'
  BY <1>2, <1>3, <1>5, <1>7 DEF RoleInPlace, AtStage, WellEnded
<1>10. UsageInPlace'
  BY <1>5 DEF UsageInPlace, Accurate, Counted
<1>11. LedgerInPlace'
  <2>1. \A b \in Invoked' : file'[b[1]] # None
    BY <1>2, <1>4, <1>5 DEF LedgerInPlace
  <2>2. /\ IsFiniteSet(live'.effects) /\ live'.effects \subseteq Invoked'
        /\ IsFiniteSet(committed'.effects) /\ committed'.effects \subseteq Invoked'
    BY <1>2, <1>5 DEF LedgerInPlace
  <2>3. \A d \in Execs : file'[d] # None =>
           Backs(live, file[d], d)' /\ Backs(committed, file[d], d)'
    BY <1>5 DEF LedgerInPlace, Backs, EffectsOf
  <2>4. \A d \in Execs : file'[d] # None => Covers(file[d], d)'
    BY <1>2, <1>5 DEF Covers
  <2>5. Covers(rx, main.cur)'
    BY <1>2, <1>3, <1>5 DEF Covers
  <2>6. Backs(live, rx, main.cur)'
    BY <1>3, <1>5, <1>7 DEF LedgerInPlace, Backs, EffectsOf
  <2> QED
    BY <1>2, <1>7, <2>1, <2>2, <2>3, <2>4, <2>5, <2>6 DEF LedgerInPlace
<1>12. Continuable(live)' /\ Continuable(committed)'
  BY <1>5 DEF Continuable
<1>13. Settled'
  BY <1>1, <1>5 DEF Settled
<1> QED
  BY <1>6, <1>8, <1>9, <1>10, <1>11, <1>12, <1>13

-----------------------------------------------------------------------------
(* Steps of the main loop.                                                 *)

(* The state of the session changes between roles; the files, the effects  *)
(* and what SQL has committed do not.                                      *)
LEMMA MainKeeps ==
    ASSUME InPlace, pc \in InRole \union {"top", "ready", "down"},
           NEW m \in MainState, NEW saved \in MainState,
           NEW sess \in {"running", "paused", "completed", "failed"},
           main' = m, live' = [live EXCEPT !.main = saved, !.sess = sess],
           rx' \in {rx, None}, pause' \in BOOLEAN,
           UNCHANGED <<committed, file, after, invoked, outcome>>,
           Accurate(m), Accurate(saved),
           \/ pc' = "top" /\ m.status = "running" /\ sess = "running"
           \/ pc' = "returned" /\ m = saved /\ m.status # "running",
           committed.main # None => committed.main.status \notin Terminal,
           sess = "paused" => /\ saved.status = "paused"
                              /\ saved.cur # None =>
                                    LET x == file[saved.cur] IN
                                    /\ x # None /\ x.status = "paused"
                                    /\ x.flight = "none" /\ x.role = saved.role
    PROVE  InPlace'
<1> USE DEF InPlace
<1>0. m # None /\ saved # None
  BY NoneAssumption
<1>1. live \in Sql
  BY DEF TypeOK
<1>2. /\ live' \in Sql
      /\ live'.main = saved
      /\ live'.sess = sess
      /\ live'.effects = live.effects
  BY <1>1 DEF Sql
<1>3. pc' \in Pc /\ pc' \notin InRole /\ pc' \in {"top", "returned"}
  BY DEF Pc, InRole, Inside
<1>4. TypeOK'
  BY <1>2, <1>3 DEF TypeOK
<1>5. StoresInPlace'
  BY <1>0, <1>2, <1>3 DEF StoresInPlace
<1>6. RoleInPlace'
  BY <1>3 DEF RoleInPlace, WellEnded
<1>7. UsageInPlace'
  BY <1>0, <1>2 DEF UsageInPlace, Accurate, Counted
<1>8. LedgerInPlace'
  BY <1>2, <1>3 DEF LedgerInPlace, Covers, Backs, EffectsOf, Invoked
<1>9. Continuable(live)' /\ Continuable(committed)'
  BY <1>0, <1>2 DEF Continuable
<1>10. Settled'
  BY DEF Settled
<1> QED
  BY <1>4, <1>5, <1>6, <1>7, <1>8, <1>9, <1>10

(* A session that executes has no outcome in SQL.                          *)
LEMMA NotSettled ==
    ASSUME InPlace, pc \in InRole \union {"top"}
    PROVE  /\ committed.main # None => committed.main.status \notin Terminal
           /\ main \in MainState /\ main # None /\ main.status = "running"
           /\ live \in Sql /\ live.main \in MainState /\ live.sess = "running"
           /\ Accurate(main) /\ Accurate(live.main)
<1>1. committed.main # None => committed.main.status \notin Terminal
  BY DEF InPlace, Settled, InRole, Inside
<1>2. /\ main \in MainState /\ main # None /\ main.status = "running"
      /\ live \in Sql /\ live.main \in MainState /\ live.main # None /\ live.sess = "running"
  BY DEF InPlace, TypeOK, StoresInPlace, Sql
<1>3. Accurate(main) /\ Accurate(live.main)
  BY <1>2 DEF InPlace, UsageInPlace
<1> QED
  BY <1>1, <1>2, <1>3

(* The loop is left with a result or a pause.                              *)
LEMMA FinishKeeps ==
    ASSUME InPlace, pc \in InRole \union {"top"}, NEW m \in MainState, Accurate(m),
           m.status \in Terminal \union {"paused"}, Finish(m),
           rx' \in {rx, None}, UNCHANGED <<committed, file, pause, after, invoked, outcome>>,
           m.status = "paused" /\ m.cur # None =>
              LET x == file[m.cur] IN
              x # None /\ x.status = "paused" /\ x.flight = "none" /\ x.role = m.role
    PROVE  InPlace'
<1>1. SessionStatus(m.status) \in {"running", "paused", "completed", "failed"}
  BY DEF SessionStatus
<1>2. SessionStatus(m.status) = "paused" => m.status = "paused"
  BY DEF SessionStatus
<1>3. pause' \in BOOLEAN
  BY DEF InPlace, TypeOK
<1>4. committed.main # None => committed.main.status \notin Terminal
  BY NotSettled
<1>5. m.status # "running"
  BY DEF Terminal
<1> QED
  BY <1>1, <1>2, <1>3, <1>4, <1>5, MainKeeps DEF Finish

(* The loop goes on with the next role.                                    *)
LEMMA GoOnKeeps ==
    ASSUME InPlace, pc \in InRole \union {"top"}, NEW m \in MainState, Accurate(m),
           NEW saved \in MainState, Accurate(saved), m.status = "running",
           main' = m, live' = [live EXCEPT !.main = saved], pc' = "top",
           rx' \in {rx, None}, UNCHANGED <<committed, file, pause, after, invoked, outcome>>
    PROVE  InPlace'
<1>1. live \in Sql /\ live.sess = "running"
  BY NotSettled
<1>2. live' = [live EXCEPT !.main = saved, !.sess = "running"]
  BY <1>1 DEF Sql
<1>3. pause' \in BOOLEAN
  BY DEF InPlace, TypeOK
<1>4. committed.main # None => committed.main.status \notin Terminal
  BY NotSettled
<1> QED
  BY <1>2, <1>3, <1>4, MainKeeps

(* A failure counts, and is the last one or not.                           *)
LEMMA FailKeeps ==
    ASSUME InPlace, pc \in InRole \union {"top"}, NEW m \in MainState, Accurate(m),
           NEW saved \in MainState, Accurate(saved), m.status = "running", Fail(m, saved),
           rx' \in {rx, None}, UNCHANGED <<committed, file, pause, after, invoked, outcome>>
    PROVE  InPlace'
<1> DEFINE failed == [m EXCEPT !.failures = @ + 1, !.role = Coordinator]
           over == [failed EXCEPT !.status = "failed"]
<1>1. m.failures + 1 \in Nat /\ Coordinator \in Roles
  BY DEF MainState, Roles
<1>2. /\ failed \in MainState
      /\ failed.status = "running"
      /\ failed.results = m.results /\ failed.cur = m.cur /\ failed.steps = m.steps
      /\ failed.llm = m.llm /\ failed.tools = m.tools
  <2>1. failed = [m EXCEPT !.failures = m.failures + 1, !.role = Coordinator]
    OBVIOUS
  <2> HIDE DEF failed
  <2> QED
    BY <1>1, <2>1 DEF MainState
<1>3. \/ Finish(over)
      \/ main' = failed /\ live' = [live EXCEPT !.main = saved] /\ pc' = "top"
  BY DEF Fail
<1> HIDE DEF failed
<1>4. /\ over \in MainState
      /\ over.status = "failed"
      /\ over.results = m.results /\ over.cur = m.cur /\ over.steps = m.steps
      /\ over.llm = m.llm /\ over.tools = m.tools
  BY <1>2 DEF MainState, Terminal
<1> HIDE DEF over
<1>5. Accurate(failed) /\ Accurate(over)
  BY <1>2, <1>4, SameUsage
<1>6. CASE Finish(over)
  BY <1>4, <1>5, <1>6, FinishKeeps DEF Terminal
<1>7. CASE main' = failed /\ live' = [live EXCEPT !.main = saved] /\ pc' = "top"
  BY <1>2, <1>5, <1>7, GoOnKeeps
<1> QED
  BY <1>3, <1>6, <1>7

(* An exception ends the session's part; the run goes on with what was     *)
(* flushed.                                                                *)
LEMMA RaisesKeeps ==
    ASSUME InPlace, SessionRaises, pc \in {"ready", "down", "accounting"},
           rx' \in {rx, None}, pause' \in BOOLEAN,
           UNCHANGED <<live, committed, file, after, invoked>>
    PROVE  InPlace'
<1> USE DEF InPlace, SessionRaises
<1>1. TypeOK'
  BY DEF TypeOK, Pc, Terminal
<1>2. pc' \notin InRole \union {"top", "returned"}
  BY DEF InRole, Inside
<1>3. StoresInPlace'
  BY <1>2 DEF StoresInPlace
<1>4. RoleInPlace'
  BY <1>2 DEF RoleInPlace, WellEnded
<1>5. UsageInPlace'
  BY DEF UsageInPlace, Accurate, Counted
<1>6. LedgerInPlace'
  BY <1>2 DEF LedgerInPlace, Covers, Backs, EffectsOf, Invoked
<1>7. Continuable(live)' /\ Continuable(committed)'
  BY DEF Continuable
<1>8. Settled'
  BY DEF Settled
<1> QED
  BY <1>1, <1>3, <1>4, <1>5, <1>6, <1>7, <1>8

(* A role is entered: its execution is new, recovered or over.             *)
LEMMA EnterKeeps ==
    ASSUME InPlace, pc = "top", ~LimitReached(main),
           main' = Entering, live' = [live EXCEPT !.main = Entering],
           NEW x \in Execution, rx' = x, x.role = main.role,
           Covers(x, Entering.cur), Backs(live, x, Entering.cur),
           \/ pc' = "committing" /\ after' = "looping" /\ AtStage(x, "looping")
           \/ /\ pc' = "accounting" /\ after' = after /\ AtStage(x, "accounting")
              /\ file[Entering.cur] = x,
           UNCHANGED <<committed, file, pause, invoked, outcome>>
    PROVE  InPlace'
<1> USE DEF InPlace
<1>1. /\ Entering \in MainState
      /\ Entering.cur \in Execs
      /\ Entering.status = "running"
      /\ Entering.role = main.role
      /\ Accurate(Entering)
  BY EnteringAccurate
<1>2. /\ Entering # None /\ Entering.cur # None /\ x # None
      /\ live \in Sql /\ live.sess = "running"
  BY <1>1, NoneAssumption, SessionAssumption DEF TypeOK, StoresInPlace
<1>3. /\ live' \in Sql
      /\ live'.main = Entering
      /\ live'.sess = "running"
      /\ live'.effects = live.effects
  BY <1>1, <1>2 DEF Sql
<1>4. /\ pc' \in InRole /\ pc' \in Pc /\ pc' \in {"committing", "accounting"}
      /\ AtStage(x, Stage') /\ Stage' \in {"looping", "accounting"}
  BY DEF InRole, Pc, Stage
<1>5. TypeOK'
  BY <1>1, <1>3, <1>4 DEF TypeOK
<1>6. StoresInPlace'
  BY <1>1, <1>2, <1>3, <1>4 DEF StoresInPlace
<1>7. RoleInPlace'
  BY <1>1, <1>2, <1>4 DEF RoleInPlace, AtStage, WellEnded
<1>8. UsageInPlace'
  BY <1>1, <1>2, <1>3 DEF UsageInPlace, Accurate, Counted
<1>9. LedgerInPlace'
  BY <1>3, <1>4 DEF LedgerInPlace, Covers, Backs, EffectsOf, Invoked
<1>10. Continuable(live)' /\ Continuable(committed)'
  BY <1>3 DEF Continuable
<1>11. Settled'
  BY DEF Settled
<1> QED
  BY <1>5, <1>6, <1>7, <1>8, <1>9, <1>10, <1>11

-----------------------------------------------------------------------------
(* The invariant is inductive.                                             *)

\* The execution of a role, as its steps find it.
LEMMA InMemory ==
    ASSUME InPlace, pc \in InRole
    PROVE  /\ rx \in Execution /\ rx # None
           /\ main \in MainState /\ main.cur \in Execs
           /\ rx.llm \in Nat /\ rx.step \in Nat /\ rx.next \in Nat
           /\ rx.role \in Roles
           /\ AtStage(rx, Stage)
           /\ Covers(rx, main.cur)
           /\ Backs(live, rx, main.cur)
BY DEF InPlace, TypeOK, StoresInPlace, RoleInPlace, LedgerInPlace, Execution, MainState

\* Decisions: the call counts, the checkpoint says what is in flight.
LEMMA DecisionKeeps ==
    ASSUME InPlace, StartDecision \/ DecisionArrives \/ DecisionRetried
    PROVE  InPlace'
<1>0. pc \in {"looping", "deciding"} /\ pc \in InRole /\ Stage = pc
  BY DEF StartDecision, DecisionArrives, DecisionRetried, InRole, Inside, Stage
<1>1. /\ rx \in Execution /\ rx # None
      /\ rx.llm \in Nat /\ rx.step \in Nat /\ rx.next \in Nat
      /\ AtStage(rx, pc)
      /\ Covers(rx, main.cur)
      /\ Backs(live, rx, main.cur)
  BY <1>0, InMemory
<1>2. CASE StartDecision
  <2> DEFINE x == [rx EXCEPT !.flight = "provider"]
  <2>1. /\ x \in Execution
        /\ x.role = rx.role /\ x.status = "running" /\ x.flight = "provider"
        /\ x.output = rx.output /\ x.step = rx.step /\ x.next = rx.next
        /\ x.tools = rx.tools
    BY <1>1, <1>2 DEF Execution, Flight, StartDecision
  <2>2. Boundary(x, "deciding")
    BY <1>2 DEF StartDecision
  <2> HIDE DEF x
  <2>3. AtStage(x, "deciding") /\ Covers(x, main.cur) /\ Backs(live, x, main.cur)
    BY <1>1, <1>2, <2>1 DEF AtStage, WellEnded, Covers, Backs, StartDecision
  <2> QED
    BY <1>0, <1>2, <2>1, <2>2, <2>3, BoundaryKeeps DEF StartDecision, Inside
<1>3. CASE DecisionRetried
  <2> DEFINE x == Asked(rx)
  <2>1. /\ x \in Execution
        /\ x.role = rx.role /\ x.status = rx.status /\ x.flight = rx.flight
        /\ x.output = rx.output /\ x.step = rx.step /\ x.next = rx.next
        /\ x.tools = rx.tools
    BY <1>1 DEF Execution, Asked
  <2>2. Boundary(x, "deciding") /\ pc = "deciding"
    BY <1>3 DEF DecisionRetried
  <2> HIDE DEF x
  <2>3. AtStage(x, "deciding") /\ Covers(x, main.cur) /\ Backs(live, x, main.cur)
    BY <1>1, <2>1, <2>2 DEF AtStage, WellEnded, Covers, Backs
  <2> QED
    BY <1>0, <1>3, <2>1, <2>2, <2>3, BoundaryKeeps DEF DecisionRetried, Inside
<1>4. CASE DecisionArrives
  <2>1. PICK output \in Outputs(rx.role) :
           Boundary([Asked(rx) EXCEPT !.step = @ + 1, !.output = output,
                                      !.next = 0, !.flight = "none"], "decided")
    BY <1>4 DEF DecisionArrives
  <2> DEFINE y == Asked(rx)
             x == [y EXCEPT !.step = @ + 1, !.output = output, !.next = 0, !.flight = "none"]
  <2>2. rx.role \in Roles
    BY <1>1 DEF Execution
  <2>3. /\ output \in UNION {Outputs(r) : r \in Roles}
        /\ output # None
    BY <2>2, NoneAssumption
  <2>4. /\ y \in Execution
        /\ y.role = rx.role /\ y.status = rx.status /\ y.step = rx.step
        /\ y.tools = rx.tools
    BY <1>1 DEF Execution, Asked
  <2> HIDE DEF y
  <2>5. /\ x \in Execution
        /\ x.role = rx.role /\ x.status = rx.status /\ x.flight = "none"
        /\ x.output = output /\ x.step = rx.step + 1 /\ x.next = 0
        /\ x.tools = rx.tools
    <3>1. x = [y EXCEPT !.step = rx.step + 1, !.output = output, !.next = 0, !.flight = "none"]
      BY <2>4
    <3>2. rx.step + 1 \in Nat
      BY <1>1
    <3> HIDE DEF x
    <3>3. x \in Execution
      BY <2>3, <2>4, <3>1, <3>2 DEF Execution, Flight
    <3> QED
      BY <2>4, <3>1, <3>3 DEF Execution
  <2>6. Boundary(x, "decided") /\ pc = "deciding"
    BY <1>4, <2>1 DEF DecisionArrives, y
  <2> HIDE DEF x
  <2>7. AtStage(x, "decided") /\ Backs(live, x, main.cur)
    BY <1>1, <2>3, <2>5, <2>6 DEF AtStage, WellEnded, Backs
  <2>8. Covers(x, main.cur)
    <3>1. \A a \in Invoked : a[2] \in Nat
      BY DEF InPlace, TypeOK, Actions, Invoked
    <3> QED
      BY <1>1, <2>5, <3>1 DEF Covers
  <2> QED
    BY <1>0, <1>4, <2>5, <2>6, <2>7, <2>8, BoundaryKeeps DEF DecisionArrives, Inside
<1> QED
  BY <1>2, <1>3, <1>4

\* An action is started that lies behind all that were invoked.
LEMMA StartActionKeeps == InPlace /\ StartAction => InPlace'
<1> SUFFICES ASSUME InPlace, StartAction
             PROVE  InPlace'
  OBVIOUS
<1> DEFINE x == [rx EXCEPT !.next = @ + 1, !.flight = "tool"]
<1>0. pc \in {"planning", "iterating"} /\ pc \in InRole /\ Stage = pc
  BY DEF StartAction, MoreActions, InRole, Stage
<1>1. /\ rx \in Execution
      /\ rx.step \in Nat /\ rx.next \in Nat /\ rx.tools \in Nat
      /\ rx.status = "running" /\ rx.flight = "none" /\ rx.output # None
      /\ Covers(rx, main.cur)
      /\ Backs(live, rx, main.cur)
  BY <1>0, InMemory DEF AtStage, Execution
<1>2. /\ x \in Execution
      /\ x.role = rx.role /\ x.status = "running" /\ x.flight = "tool"
      /\ x.output = rx.output /\ x.step = rx.step /\ x.next = rx.next + 1
      /\ x.tools = rx.tools
  <2>1. x = [rx EXCEPT !.next = rx.next + 1, !.flight = "tool"]
    OBVIOUS
  <2>2. rx.next + 1 \in Nat
    BY <1>1
  <2> HIDE DEF x
  <2>3. x \in Execution
    BY <1>1, <2>1, <2>2 DEF Execution, Flight
  <2> QED
    BY <1>1, <2>1, <2>3 DEF Execution
<1>3. Boundary(x, "acting")
  BY DEF StartAction
<1> HIDE DEF x
<1>4. AtStage(x, "acting")
  BY <1>1, <1>2 DEF AtStage, WellEnded
<1>5. Invoked \subseteq Actions
  BY DEF InPlace, TypeOK, Invoked
<1>6. Covers(x, main.cur) /\ Action(x) \notin Invoked
  <2>1. ASSUME NEW a \in Invoked, a[1] = main.cur
        PROVE  /\ a[2] <= x.step
               /\ a[2] = x.step => a[3] <= rx.next
    BY <1>1, <1>2, <2>1 DEF Covers
  <2>2. \A a \in Invoked : a[2] \in Nat /\ a[3] \in Nat
    BY <1>5 DEF Actions
  <2>3. Covers(x, main.cur)
    BY <1>1, <1>2, <2>1, <2>2 DEF Covers
  <2>4. Action(x)[1] = main.cur /\ Action(x)[2] = x.step /\ Action(x)[3] = rx.next + 1
    BY <1>2 DEF Action
  <2> QED
    BY <1>1, <2>1, <2>2, <2>3, <2>4
<1>7. Backs(live, x, main.cur) /\ Cardinality(EffectsOf(live, main.cur)) = x.tools
  <2>1. IsFiniteSet(live.effects)
    BY DEF InPlace, LedgerInPlace
  <2>2. Cardinality(EffectsOf(live, main.cur)) \in Nat
    BY <2>1, FS_Subset, FS_CardinalityType DEF EffectsOf
  <2> QED
    BY <1>1, <1>2, <2>2 DEF Backs
<1> QED
  BY <1>0, <1>2, <1>3, <1>4, <1>6, <1>7, BoundaryKeeps DEF StartAction, Inside

\* A role ends or pauses.
LEMMA RoleClosesKeeps ==
    ASSUME InPlace,
           \/ RoleEnds \/ DecisionFails \/ DecisionBudget \/ PlanningFails
           \/ ToolLimit \/ RoleCompletes \/ (CheckPause /\ pause)
    PROVE  InPlace'
<1>0. /\ pc \in {"looping", "deciding", "planning", "iterating", "decided", "acted"}
      /\ pc \in InRole /\ Stage = pc
      /\ UNCHANGED <<main, live, committed, file, pause, invoked, outcome>>
  BY DEF RoleEnds, DecisionFails, DecisionBudget, PlanningFails, ToolLimit, MoreActions,
         RoleCompletes, CheckPause, InRole, Inside, Stage
<1>1. /\ rx \in Execution /\ rx.llm \in Nat
      /\ AtStage(rx, pc)
      /\ Covers(rx, main.cur)
      /\ Backs(live, rx, main.cur)
  BY <1>0, InMemory
<1>2. CASE DecisionFails
  <2> DEFINE x == Asked(rx)
  <2>1. /\ x \in Execution
        /\ x.role = rx.role /\ x.status = rx.status /\ x.flight = rx.flight
        /\ x.output = rx.output /\ x.step = rx.step /\ x.next = rx.next
        /\ x.tools = rx.tools
    BY <1>1 DEF Execution, Asked
  <2>2. Close(x, "failed")
    BY <1>2 DEF DecisionFails
  <2> HIDE DEF x
  <2>3. Covers(x, main.cur) /\ Backs(live, x, main.cur)
    BY <1>1, <2>1 DEF Covers, Backs
  <2> QED
    BY <1>0, <2>1, <2>2, <2>3, CloseKeeps
<1>3. CASE Close(rx, "terminated") \/ Close(rx, "failed")
  BY <1>0, <1>1, <1>3, CloseKeeps
<1>4. CASE \/ Close(rx, "completed") /\ pc \in {"planning", "iterating"}
           \/ Close(rx, "paused") /\ pc \in {"decided", "acted"}
  <2>1. rx.status = "running" /\ rx.flight = "none" /\ rx.output # None
    BY <1>1, <1>4 DEF AtStage
  <2> QED
    BY <1>0, <1>1, <1>4, <2>1, CloseKeeps
<1> QED
  BY <1>2, <1>3, <1>4
     DEF RoleEnds, DecisionBudget, PlanningFails, ToolLimit, RoleCompletes, CheckPause

\* A role goes on without a boundary.
LEMMA RoleGoesOnKeeps ==
    ASSUME InPlace, RecoverOutput \/ RoleContinues \/ (CheckPause /\ ~pause)
    PROVE  InPlace'
<1>0. /\ pc \in {"looping", "planning", "iterating", "decided", "acted"}
      /\ pc \in InRole \ {"committing", "publishing"} /\ Stage = pc
      /\ UNCHANGED <<main, live, committed, file, pause, after, invoked, outcome>>
  BY DEF RecoverOutput, RoleContinues, CheckPause, InRole, Inside, Stage
<1>1. /\ rx \in Execution
      /\ AtStage(rx, pc)
      /\ Covers(rx, main.cur)
      /\ Backs(live, rx, main.cur)
  BY <1>0, InMemory
<1>2. CASE RecoverOutput
  <2>1. AtStage(rx, "planning") /\ pc' = "planning" /\ rx' = rx
    BY <1>1, <1>2 DEF AtStage, RecoverOutput
  <2> QED
    BY <1>0, <1>1, <2>1, LoopKeeps
<1>3. CASE CheckPause /\ ~pause
  <2>1. AtStage(rx, pc') /\ pc' \in {"planning", "iterating"} /\ rx' = rx
    BY <1>1, <1>3 DEF AtStage, CheckPause
  <2> QED
    BY <1>0, <1>1, <2>1, LoopKeeps
<1>4. CASE RoleContinues
  <2> DEFINE x == [rx EXCEPT !.output = None, !.next = 0]
  <2> DEFINE outputs == (UNION {Outputs(r) : r \in Roles}) \union {None}
  <2>1. /\ x \in Execution
        /\ x.role = rx.role /\ x.status = rx.status /\ x.flight = rx.flight
        /\ x.output = None /\ x.step = rx.step /\ x.next = 0
        /\ x.tools = rx.tools
    <3>1. Execution = [role : Roles, status : {"running", "paused"} \union Terminal,
                       step : Nat, llm : Nat, tools : Nat, output : outputs,
                       next : Nat, flight : Flight]
      BY DEF Execution
    <3>2. None \in outputs
      OBVIOUS
    <3> HIDE DEF outputs
    <3> QED
      BY <1>1, <3>1, <3>2
  <2>2. rx' = x /\ pc' = "looping" /\ pc \in {"planning", "iterating"}
    BY <1>4 DEF RoleContinues
  <2> HIDE DEF x
  <2>3. AtStage(x, "looping") /\ Covers(x, main.cur) /\ Backs(live, x, main.cur)
    BY <1>1, <2>1, <2>2 DEF AtStage, WellEnded, Covers, Backs
  <2> QED
    BY <1>0, <2>1, <2>2, <2>3, LoopKeeps
<1> QED
  BY <1>2, <1>3, <1>4

\* A role is entered.
LEMMA EnterRoleKeeps ==
    ASSUME InPlace, EnterNewRole \/ EnterRecoveredRole \/ EnterFinishedRole
    PROVE  InPlace'
<1>0. pc = "top" /\ ~LimitReached(main)
  BY DEF EnterNewRole, EnterRecoveredRole, EnterFinishedRole
<1>1. Entering.cur \in Execs /\ main \in MainState /\ main.role \in Roles
  BY <1>0, EnteringAccurate, NotSettled DEF MainState
<1>2. file[Entering.cur] \in Execution \union {None}
  BY <1>1 DEF InPlace, TypeOK
<1>3. CASE EnterNewRole
  <2> DEFINE x == FreshExecution(main.role)
  <2> DEFINE outputs == (UNION {Outputs(r) : r \in Roles}) \union {None}
  <2>1. /\ x \in Execution
        /\ x.role = main.role /\ x.status = "running" /\ x.flight = "none"
        /\ x.tools = 0
    <3>1. Execution = [role : Roles, status : {"running", "paused"} \union Terminal,
                       step : Nat, llm : Nat, tools : Nat, output : outputs,
                       next : Nat, flight : Flight]
      BY DEF Execution
    <3>2. None \in outputs
      OBVIOUS
    <3> HIDE DEF outputs
    <3> QED
      BY <1>1, <3>1, <3>2 DEF FreshExecution, Flight
  <2>2. \A a \in Invoked : a[1] # Entering.cur
    BY <1>3 DEF EnterNewRole, InPlace, LedgerInPlace
  <2>3. EffectsOf(live, Entering.cur) = {}
    BY <2>2 DEF EffectsOf, InPlace, LedgerInPlace
  <2>4. Cardinality(EffectsOf(live, Entering.cur)) = 0
    BY <2>3, FS_EmptySet
  <2>5. /\ main' = Entering /\ live' = [live EXCEPT !.main = Entering] /\ rx' = x
        /\ pc' = "committing" /\ after' = "looping"
        /\ UNCHANGED <<committed, file, pause, invoked, outcome>>
    BY <1>3 DEF EnterNewRole, Boundary
  <2> HIDE DEF x
  <2>6. Covers(x, Entering.cur) /\ Backs(live, x, Entering.cur) /\ AtStage(x, "looping")
    BY <2>1, <2>2, <2>4 DEF Covers, Backs, AtStage, WellEnded
  <2> QED
    BY <1>0, <2>1, <2>5, <2>6, EnterKeeps
<1>4. CASE EnterRecoveredRole
  <2> DEFINE f == file[Entering.cur]
             x == Recovered(f)
  <2>1. /\ f # None /\ f.role = main.role /\ f.status \notin Terminal
        /\ Boundary(x, "looping")
        /\ main' = Entering /\ live' = [live EXCEPT !.main = Entering]
        /\ UNCHANGED <<committed, file, pause, invoked, outcome>>
    BY <1>4 DEF EnterRecoveredRole
  <2>2. Covers(f, Entering.cur) /\ Backs(live, f, Entering.cur) /\ f \in Execution
    BY <1>1, <1>2, <2>1 DEF InPlace, LedgerInPlace
  <2> HIDE DEF f
  <2>3. /\ x \in Execution
        /\ x.role = f.role /\ x.flight = "none"
        /\ x.status = IF f.flight = "tool" THEN "terminated" ELSE "running"
        /\ x.output = f.output /\ x.step = f.step /\ x.next = f.next
        /\ x.tools = f.tools
    BY <2>2 DEF Recovered, Execution, Flight, Terminal
  <2> HIDE DEF x
  <2>4. Covers(x, Entering.cur) /\ Backs(live, x, Entering.cur) /\ AtStage(x, "looping")
    BY <2>1, <2>2, <2>3 DEF Covers, Backs, AtStage, WellEnded, Terminal
  <2>5. rx' = x /\ pc' = "committing" /\ after' = "looping" /\ x.role = main.role
    BY <2>1, <2>3 DEF Boundary
  <2> QED
    BY <1>0, <2>1, <2>3, <2>4, <2>5, EnterKeeps
<1>5. CASE EnterFinishedRole
  <2> DEFINE x == file[Entering.cur]
  <2>1. /\ x # None /\ x.role = main.role /\ x.status \in Terminal
        /\ rx' = x /\ pc' = "accounting" /\ after' = after
        /\ main' = Entering /\ live' = [live EXCEPT !.main = Entering]
        /\ UNCHANGED <<committed, file, pause, invoked, outcome>>
    BY <1>5 DEF EnterFinishedRole
  <2>2. /\ Covers(x, Entering.cur) /\ Backs(live, x, Entering.cur)
        /\ x \in Execution /\ WellEnded(x)
    BY <1>1, <1>2, <2>1 DEF InPlace, LedgerInPlace, RoleInPlace
  <2>3. AtStage(x, "accounting")
    BY <2>1, <2>2 DEF AtStage, Terminal
  <2> QED
    BY <1>0, <2>1, <2>2, <2>3, EnterKeeps
<1> QED
  BY <1>3, <1>4, <1>5

\* A role is over: its result and usage are taken.
LEMMA AccountingKeeps ==
    ASSUME InPlace, RolePaused \/ RoleFailed \/ RoleCompleted
    PROVE  InPlace'
<1>0. /\ pc = "accounting" /\ pc \in InRole /\ rx' = None
      /\ UNCHANGED <<committed, file, pause, after, invoked, outcome>>
  BY DEF RolePaused, RoleFailed, RoleCompleted, InRole
<1>1. /\ main \in MainState /\ main.status = "running" /\ Accurate(main)
      /\ live.main \in MainState /\ Accurate(live.main)
      /\ main.cur \in Execs
      /\ rx \in Execution /\ rx # None /\ rx.role = main.role
      /\ file[main.cur] = rx
      /\ AtStage(rx, "accounting")
  BY <1>0, NotSettled, InMemory DEF InPlace, RoleInPlace, Stage
<1>2. CASE RolePaused
  <2> DEFINE m == [main EXCEPT !.status = "paused"]
  <2>1. /\ m \in MainState /\ m.status = "paused"
        /\ m.results = main.results /\ m.cur = main.cur /\ m.steps = main.steps
        /\ m.llm = main.llm /\ m.tools = main.tools /\ m.role = main.role
    BY <1>1 DEF MainState
  <2>2. Finish(m) /\ rx.status = "paused"
    BY <1>2 DEF RolePaused
  <2> HIDE DEF m
  <2>3. Accurate(m)
    BY <1>1, <2>1, SameUsage
  <2>4. rx.flight = "none"
    BY <1>1, <2>2 DEF AtStage, WellEnded
  <2> QED
    BY <1>0, <1>1, <2>1, <2>2, <2>3, <2>4, FinishKeeps
<1>3. CASE RoleFailed
  <2>1. rx.status \in Terminal /\ Fail(Accounted(main), live.main)
    BY <1>3 DEF RoleFailed, Terminal
  <2> QED
    BY <1>0, <1>1, <2>1, AccountedAccurate, FailKeeps
<1>4. CASE RoleCompleted
  <2> DEFINE m == Accounted(main)
             r == AfterRole
             p == [r EXCEPT !.status = IF @ = "running" THEN "paused" ELSE @]
  <2>1. rx.status = "completed" /\ rx.output # None
    BY <1>1, <1>4 DEF RoleCompleted, AtStage, WellEnded
  <2>2. /\ m \in MainState /\ m.cur = None /\ m.status = "running" /\ Accurate(m)
    BY <1>0, <2>1, AccountedAccurate DEF Terminal
  <2>3. rx.output.next \in Roles \union {None}
    <3>1. PICK role \in Roles : rx.output \in Outputs(role)
      BY <1>1, <2>1 DEF Execution
    <3> QED
      BY <3>1 DEF Outputs
  <2>4. \/ r = [m EXCEPT !.status = "completed"]
        \/ \E role \in Roles : r = [m EXCEPT !.role = role]
    <3>1. CASE main.role = Final \/ (main.role = Coordinator /\ rx.output.next = None)
      <4>1. r = [m EXCEPT !.status = "completed"]
        BY <3>1, SessionAssumption DEF AfterRole
      <4> QED
        BY <4>1, Zenon
    <3>2. CASE main.role = Coordinator /\ rx.output.next # None
      BY <2>3, <3>2, SessionAssumption DEF AfterRole
    <3>3. CASE main.role \notin {Coordinator, Final}
      BY <3>3 DEF AfterRole, Roles
    <3> QED
      BY <3>1, <3>2, <3>3
  <2> HIDE DEF m, r
  <2>5. /\ r \in MainState /\ r.status \in {"running", "completed"}
        /\ r.results = m.results /\ r.cur = m.cur /\ r.steps = m.steps
        /\ r.llm = m.llm /\ r.tools = m.tools
    BY <2>2, <2>4 DEF MainState, Terminal
  <2>6. Accurate(r)
    BY <2>2, <2>5, SameUsage
  <2>7. CASE main' = r /\ live' = [live EXCEPT !.main = r] /\ pc' = "top" /\ r.status = "running"
    BY <1>0, <2>5, <2>6, <2>7, GoOnKeeps
  <2>8. CASE Finish(p)
    <3>1. /\ p \in MainState /\ p.status \in Terminal \union {"paused"}
          /\ p.results = r.results /\ p.cur = r.cur /\ p.steps = r.steps
          /\ p.llm = r.llm /\ p.tools = r.tools
      BY <2>5 DEF MainState, Terminal
    <3> HIDE DEF p
    <3>2. Accurate(p) /\ p.cur = None
      BY <2>2, <2>5, <2>6, <3>1, SameUsage
    <3> QED
      BY <1>0, <2>8, <3>1, <3>2, FinishKeeps
  <2> QED
    BY <1>4, <2>7, <2>8 DEF RoleCompleted, r
<1> QED
  BY <1>2, <1>3, <1>4

\* A new session: there is nothing to count.
LEMMA ExecuteKeeps == InPlace /\ ExecuteSession => InPlace'
<1> SUFFICES ASSUME InPlace, ExecuteSession
             PROVE  InPlace'
  OBVIOUS
<1> DEFINE m == FreshMain
<1>1. /\ pc = "ready" /\ live.main = None /\ committed.main = None
      /\ \A e \in Execs : file[e] = None
      /\ pause \in BOOLEAN
  BY DEF ExecuteSession, InPlace, TypeOK, StoresInPlace, UsageInPlace
<1>2. /\ m \in MainState /\ m.status = "running"
      /\ m.results = {} /\ m.cur = None /\ m.steps = 0 /\ m.llm = 0 /\ m.tools = 0
  BY DEF FreshMain, MainState, Roles
<1>3. /\ main' = m /\ live' = [live EXCEPT !.main = m, !.sess = "running"] /\ pc' = "top"
      /\ UNCHANGED <<rx, committed, file, pause, after, invoked, outcome>>
  BY DEF ExecuteSession
<1> HIDE DEF m
<1>4. Accurate(m)
  <2>1. /\ Units([e \in m.results |-> file[e].llm]) = {}
        /\ Units([e \in m.results |-> file[e].tools]) = {}
    BY <1>2 DEF Units
  <2>2. IsFiniteSet({}) /\ Cardinality({}) = 0
    BY FS_EmptySet
  <2> QED
    BY <1>1, <1>2, <2>1, <2>2 DEF Accurate, Counted
<1> QED
  BY <1>1, <1>2, <1>3, <1>4, MainKeeps

\* A session is resumed from what was committed.
LEMMA ResumeKeeps == InPlace /\ ResumeSession => InPlace'
<1> SUFFICES ASSUME InPlace, ResumeSession
             PROVE  InPlace'
  OBVIOUS
<1>1. /\ pc = "down" /\ outcome = None /\ pause' = FALSE
      /\ UNCHANGED <<rx, committed, file, after, invoked>>
      /\ live = committed /\ committed \in Sql
  BY DEF ResumeSession, InPlace, TypeOK, StoresInPlace
<1>2. CASE SessionRaises /\ UNCHANGED live
  BY <1>1, <1>2, RaisesKeeps
<1>3. CASE /\ committed.main # None /\ committed.main.status \in Terminal
           /\ main' = committed.main /\ pc' = "returned"
           /\ UNCHANGED <<live, outcome>>
  <2> USE <1>1, <1>3 DEF InPlace
  <2>1. committed.main \in MainState /\ Accurate(committed.main)
    BY DEF Sql, UsageInPlace
  <2>2. pc' \notin InRole /\ pc' # "top"
    BY DEF InRole, Inside
  <2>3. TypeOK'
    BY <2>1 DEF TypeOK, Pc
  <2>4. StoresInPlace'
    BY <2>2 DEF StoresInPlace, Terminal
  <2>5. RoleInPlace'
    BY <2>2 DEF RoleInPlace, WellEnded
  <2>6. UsageInPlace'
    BY <2>1 DEF UsageInPlace, Accurate, Counted
  <2>7. LedgerInPlace'
    BY <2>2 DEF LedgerInPlace, Covers, Backs, EffectsOf, Invoked
  <2>8. Continuable(live)' /\ Continuable(committed)'
    BY DEF Continuable
  <2>9. Settled'
    BY DEF Settled
  <2> QED
    BY <2>3, <2>4, <2>5, <2>6, <2>7, <2>8, <2>9
<1>4. CASE LET m == [committed.main EXCEPT !.status = "running"] IN
           /\ committed.main # None /\ committed.main.status \notin Terminal
           /\ main' = m /\ live' = [live EXCEPT !.main = m, !.sess = "running"]
           /\ pc' = "top" /\ UNCHANGED outcome
  <2> DEFINE m == [committed.main EXCEPT !.status = "running"]
  <2>1. committed.main \in MainState /\ Accurate(committed.main)
    BY <1>1, <1>4 DEF InPlace, Sql, UsageInPlace
  <2>2. /\ m \in MainState /\ m.status = "running"
        /\ m.results = committed.main.results /\ m.cur = committed.main.cur
        /\ m.steps = committed.main.steps /\ m.llm = committed.main.llm
        /\ m.tools = committed.main.tools
    BY <2>1 DEF MainState
  <2>3. /\ committed.main.status \notin Terminal
        /\ main' = m /\ live' = [live EXCEPT !.main = m, !.sess = "running"]
        /\ pc' = "top" /\ UNCHANGED outcome
    BY <1>4
  <2> HIDE DEF m
  <2>4. Accurate(m)
    BY <2>1, <2>2, SameUsage
  <2> QED
    BY <1>1, <2>2, <2>3, <2>4, MainKeeps
<1> QED
  BY <1>2, <1>3, <1>4 DEF ResumeSession

\* The run commits what the session flushed, and the state it keeps is gone.
LEMMA RecordingKeeps ==
    ASSUME InPlace, RunPauses \/ RunTakesOutcome \/ RunCommits \/ RunPublishes
    PROVE  InPlace'
<1> USE DEF InPlace, RunPauses, RunTakesOutcome, RunCommits, RunPublishes
<1>1. /\ pc \in {"returned", "recording", "recorded"}
      /\ pc' \in {"down", "recording", "recorded", "done"}
      /\ pc' \notin InRole \union {"top", "returned", "ready", "publishing"}
      /\ committed' \in {live, committed}
      /\ UNCHANGED <<rx, live, file, pause, after, invoked>>
  BY DEF InRole, Inside
<1>2. TypeOK'
  <2>1. pc = "returned" => main \in MainState /\ main.status # "running"
    BY DEF TypeOK, StoresInPlace
  <2>2. outcome' \in Terminal \union {None}
    BY <2>1 DEF TypeOK, MainState
  <2> QED
    BY <1>1, <2>2 DEF TypeOK, Pc
<1>3. StoresInPlace'
  BY <1>1 DEF StoresInPlace, InRole, Inside
<1>4. RoleInPlace'
  BY <1>1 DEF RoleInPlace, WellEnded
<1>5. UsageInPlace'
  BY <1>1 DEF UsageInPlace, Accurate, Counted, StoresInPlace, InRole, Inside
<1>6. LedgerInPlace'
  BY <1>1 DEF LedgerInPlace, Covers, Backs, EffectsOf, Invoked
<1>7. Continuable(live)' /\ Continuable(committed)'
  BY <1>1 DEF Continuable
<1>8. Settled'
  BY <1>1 DEF Settled, StoresInPlace, Terminal
<1> QED
  BY <1>2, <1>3, <1>4, <1>5, <1>6, <1>7, <1>8

\* A crash leaves what was committed and the files.
LEMMA CrashKeeps == InPlace /\ Crash => InPlace'
<1> SUFFICES ASSUME InPlace, Crash
             PROVE  InPlace'
  OBVIOUS
<1> USE DEF InPlace, Crash
<1>1. pc' \notin InRole \union {"top", "returned", "ready", "publishing"}
  BY DEF InRole, Inside
<1>2. TypeOK'
  BY DEF TypeOK, Pc
<1>3. StoresInPlace'
  BY <1>1 DEF StoresInPlace
<1>4. RoleInPlace'
  BY <1>1 DEF RoleInPlace, WellEnded
<1>5. UsageInPlace'
  BY DEF UsageInPlace, Accurate, Counted
<1>6. LedgerInPlace'
  BY <1>1 DEF LedgerInPlace, Covers, Backs, EffectsOf, Invoked
<1>7. Continuable(live)' /\ Continuable(committed)'
  BY DEF Continuable
<1>8. Settled'
  BY DEF Settled
<1> QED
  BY <1>2, <1>3, <1>4, <1>5, <1>6, <1>7, <1>8

\* A pause request and stuttering leave all stores alone.
LEMMA IdleKeeps ==
    ASSUME InPlace, pause' \in BOOLEAN,
           UNCHANGED <<main, rx, live, committed, file, pc, after, invoked, outcome>>
    PROVE  InPlace'
<1> USE DEF InPlace
<1>0. Stage' = Stage
  BY DEF Stage
<1>1. TypeOK' /\ StoresInPlace'
  BY DEF TypeOK, StoresInPlace
<1>2. RoleInPlace'
  BY <1>0 DEF RoleInPlace, AtStage, WellEnded
<1>3. UsageInPlace'
  BY DEF UsageInPlace, Accurate, Counted
<1>4. LedgerInPlace'
  BY <1>0 DEF LedgerInPlace, Covers, Backs, EffectsOf, Invoked, Action
<1>5. Continuable(live)' /\ Continuable(committed)' /\ Settled'
  BY DEF Continuable, Settled
<1> QED
  BY <1>1, <1>2, <1>3, <1>4, <1>5

\* The loop stops, fails or cannot write a checkpoint.
LEMMA LoopFailsKeeps ==
    ASSUME InPlace, LimitStop \/ BuildFails \/ EnterRoleFails \/ PublishFails
    PROVE  InPlace'
<1>1. CASE LimitStop
  <2> DEFINE m == [main EXCEPT !.status = "terminated"]
  <2>1. pc = "top" /\ Finish(m) /\ UNCHANGED <<rx, committed, file, pause, after, invoked, outcome>>
    BY <1>1 DEF LimitStop
  <2>2. main \in MainState /\ Accurate(main)
    BY <2>1, NotSettled
  <2>3. /\ m \in MainState /\ m.status = "terminated"
        /\ m.results = main.results /\ m.cur = main.cur /\ m.steps = main.steps
        /\ m.llm = main.llm /\ m.tools = main.tools
    BY <2>2 DEF MainState, Terminal
  <2> HIDE DEF m
  <2>4. Accurate(m)
    BY <2>2, <2>3, SameUsage
  <2> QED
    BY <2>1, <2>3, <2>4, FinishKeeps DEF Terminal
<1>2. CASE BuildFails
  <2>1. /\ pc = "top" /\ Fail(main, live.main)
        /\ UNCHANGED <<rx, committed, file, pause, after, invoked, outcome>>
    BY <1>2 DEF BuildFails
  <2> QED
    BY <2>1, NotSettled, FailKeeps
<1>3. CASE EnterRoleFails
  <2>1. /\ pc = "top" /\ ~LimitReached(main) /\ Fail(Entering, Entering)
        /\ UNCHANGED <<rx, committed, file, pause, after, invoked, outcome>>
    BY <1>3 DEF EnterRoleFails
  <2>2. Entering \in MainState /\ Accurate(Entering) /\ Entering.status = "running"
    BY <2>1, EnteringAccurate
  <2> QED
    BY <2>1, <2>2, FailKeeps
<1>4. CASE PublishFails
  <2>1. /\ pc = "publishing" /\ pc \in InRole
        /\ UNCHANGED <<committed, file, pause, invoked, outcome>>
    BY <1>4 DEF PublishFails, InRole
  <2>2. CASE Close(rx, "failed") /\ UNCHANGED <<main, live>>
    BY <2>1, <2>2, InMemory, CloseKeeps
  <2>3. CASE Fail(main, live.main) /\ rx' = None /\ UNCHANGED after
    BY <2>1, <2>3, NotSettled, FailKeeps
  <2> QED
    BY <1>4, <2>2, <2>3 DEF PublishFails
<1> QED
  BY <1>1, <1>2, <1>3, <1>4

(* Every step keeps the session in place.                                  *)
LEMMA InPlacePreserved == InPlace /\ [Next]_vars => InPlace'
<1> SUFFICES ASSUME InPlace, [Next]_vars
             PROVE  InPlace'
  OBVIOUS
<1>1. CASE ExecuteSession
  BY <1>1, ExecuteKeeps
<1>2. CASE ResumeSession
  BY <1>2, ResumeKeeps
<1>3. CASE MaintenanceFails
  BY <1>3, RaisesKeeps DEF MaintenanceFails, InPlace, TypeOK
<1>4. CASE FinalizeFails
  BY <1>4, RaisesKeeps DEF FinalizeFails, InPlace, TypeOK
<1>5. CASE LimitStop \/ BuildFails \/ EnterRoleFails \/ PublishFails
  BY <1>5, LoopFailsKeeps
<1>6. CASE EnterNewRole \/ EnterRecoveredRole \/ EnterFinishedRole
  BY <1>6, EnterRoleKeeps
<1>7. CASE CommitBeforeRoleCheckpoint
  BY <1>7, CommitBoundaryKeeps
<1>8. CASE PublishRoleCheckpoint
  BY <1>8, PublishBoundaryKeeps
<1>9. CASE StartDecision \/ DecisionArrives \/ DecisionRetried
  BY <1>9, DecisionKeeps
<1>10. CASE RoleEnds \/ DecisionFails \/ DecisionBudget \/ PlanningFails
            \/ ToolLimit \/ RoleCompletes
  BY <1>10, RoleClosesKeeps
<1>11. CASE CheckPause
  BY <1>11, RoleClosesKeeps, RoleGoesOnKeeps
<1>12. CASE RecoverOutput \/ RoleContinues
  BY <1>12, RoleGoesOnKeeps
<1>13. CASE StartAction
  BY <1>13, StartActionKeeps
<1>14. CASE ActionSucceeds
  BY <1>14, ActionSucceedsKeeps
<1>15. CASE ActionFails
  BY <1>15, ActionFailsKeeps
<1>16. CASE RolePaused \/ RoleFailed \/ RoleCompleted
  BY <1>16, AccountingKeeps
<1>17. CASE RunPauses \/ RunTakesOutcome \/ RunCommits \/ RunPublishes
  BY <1>17, RecordingKeeps
<1>18. CASE RequestPause
  BY <1>18, IdleKeeps DEF RequestPause
<1>19. CASE Crash
  BY <1>19, CrashKeeps
<1>20. CASE UNCHANGED vars
  BY <1>20, IdleKeeps DEF vars, InPlace, TypeOK
<1> QED
  BY <1>1, <1>2, <1>3, <1>4, <1>5, <1>6, <1>7, <1>8, <1>9, <1>10, <1>11, <1>12,
     <1>13, <1>14, <1>15, <1>16, <1>17, <1>18, <1>19, <1>20
     DEF Next, Advance, Done

(* The session stays in place in all its stores, from the start and        *)
(* through every pause, failure and crash.                                 *)
THEOREM SessionStaysInPlace == Spec => []InPlace
<1>1. Init => InPlace
  <2> SUFFICES ASSUME Init
               PROVE  InPlace
    OBVIOUS
  <2> USE DEF Init
  <2>0. /\ pc \notin InRole \union {"top", "returned", "publishing", "down"}
        /\ Invoked = {} /\ DOMAIN invoked = {}
    BY DEF InRole, Inside, Invoked
  <2>1. TypeOK
    <3>1. live \in Sql /\ committed \in Sql
      BY DEF Sql
    <3>2. file \in [Execs -> Execution \union {None}]
      OBVIOUS
    <3>3. invoked \in Seq(Actions)
      OBVIOUS
    <3> QED
      BY <3>1, <3>2, <3>3 DEF TypeOK, Pc
  <2>2. StoresInPlace
    BY <2>0 DEF StoresInPlace
  <2>3. RoleInPlace
    BY <2>0 DEF RoleInPlace
  <2>4. UsageInPlace
    BY DEF UsageInPlace
  <2>5. LedgerInPlace
    <3>1. IsFiniteSet({})
      BY FS_EmptySet
    <3> QED
      BY <2>0, <3>1 DEF LedgerInPlace
  <2>6. Continuable(live) /\ Continuable(committed) /\ Settled
    BY DEF Continuable, Settled
  <2> QED
    BY <2>1, <2>2, <2>3, <2>4, <2>5, <2>6 DEF InPlace
<1> QED
  BY <1>1, InPlacePreserved, PTL DEF Spec

-----------------------------------------------------------------------------
(* What the run session_runtime checks.                                    *)

(* Every variable keeps its type.                                          *)
THEOREM TypeCorrect == Spec => []TypeOK
<1>1. InPlace => TypeOK
  BY DEF InPlace
<1> QED
  BY <1>1, SessionStaysInPlace, PTL

(* No action reaches the executor twice: role_runtime.py publishes an      *)
(* action as in flight before it executes it, and what a restart finds in  *)
(* flight ends the role.                                                   *)
THEOREM ActionStartedOnceHolds == Spec => []ActionStartedOnce
<1>1. InPlace => ActionStartedOnce
  BY DEF InPlace, LedgerInPlace, ActionStartedOnce
<1> QED
  BY <1>1, SessionStaysInPlace, PTL

(* A tool call that a role checkpoint counts is committed: the boundary    *)
(* commits before it publishes.                                            *)
THEOREM EffectsBackCheckpointHolds == Spec => []EffectsBackCheckpoint
<1>1. InPlace => EffectsBackCheckpoint
  BY DEF InPlace, LedgerInPlace, Backs, EffectsOf, EffectsBackCheckpoint
<1> QED
  BY <1>1, SessionStaysInPlace, PTL

(* What a role used is added to the session once: a paused or interrupted  *)
(* execution stays current, and is accounted for when it is over.          *)
THEOREM UsageCountedOnceHolds == Spec => []UsageCountedOnce
<1>1. InPlace => UsageCountedOnce
  BY DEF InPlace, UsageInPlace, Accurate, UsageCountedOnce
<1> QED
  BY <1>1, SessionStaysInPlace, PTL

(* A committed pause names a role execution whose checkpoint says paused.  *)
THEOREM PauseHasContinuationHolds == Spec => []PauseHasContinuation
<1>1. InPlace => PauseHasContinuation
  BY DEF InPlace, Continuable, PauseHasContinuation
<1> QED
  BY <1>1, SessionStaysInPlace, PTL

(* A committed outcome stays, whatever interrupts the run that records it. *)
THEOREM OutcomeStableHolds == Spec => OutcomeStable
<1>1. InPlace /\ [Next]_vars =>
         [committed.main # None /\ committed.main.status \in Terminal =>
             committed'.main = committed.main /\ committed'.sess = committed.sess]_vars
  <2> SUFFICES ASSUME InPlace, [Next]_vars
               PROVE  committed.main # None /\ committed.main.status \in Terminal =>
                         committed'.main = committed.main /\ committed'.sess = committed.sess
    OBVIOUS
  <2>1. committed' \in {live, committed}
    BY DEF Next, Advance, vars, Done, ExecuteSession, ResumeSession, MaintenanceFails,
       FinalizeFails, LimitStop, BuildFails, EnterRoleFails, PublishFails, EnterNewRole,
       EnterRecoveredRole, EnterFinishedRole, CommitBeforeRoleCheckpoint,
       PublishRoleCheckpoint, StartDecision, DecisionArrives, DecisionRetried, RoleEnds,
       DecisionFails, DecisionBudget, PlanningFails, ToolLimit, RoleCompletes, CheckPause,
       RecoverOutput, RoleContinues, StartAction, ActionSucceeds, ActionFails, RolePaused,
       RoleFailed, RoleCompleted, RunPauses, RunTakesOutcome, RunCommits, RunPublishes,
       RequestPause, Crash
  <2> QED
    BY <2>1 DEF InPlace, Settled
<1> QED
  BY <1>1, SessionStaysInPlace, PTL DEF Spec, OutcomeStable

=============================================================================
