--------------------------- MODULE RunBudgetProofs --------------------------
(***************************************************************************)
(* The budgets of budget.go over the whole life of a run, for any number   *)
(* of runs, goroutines, crashes and restarts and all budgets: stages,      *)
(* repairs and replans are counted from the rows, and the attempts of a    *)
(* stage by the local counter of the execution that began it.  And the     *)
(* workspace in which a crash left the writes of an unfinished attempt:    *)
(* recovery restores it, or its run stays stopped.                         *)
(***************************************************************************)
EXTENDS RunGateProofs, FiniteSetTheorems

AttemptsOf(r, i) == {j \in DOMAIN attempts[r] : attempts[r][j].stage = i}

(* What the execution has spent on the stage it is at.                      *)
Spent(w) == Cardinality(AttemptsOf(on[w], loc[w].stage))

StageBudget(r) ==
  /\ Len(stages[r]) <= MaxStages
  /\ Cardinality(OfKind(r, "repair")) <= MaxRepair
  /\ Cardinality(OfKind(r, "replan")) <= MaxReplan

AttemptBudget(r) ==
  /\ \A j \in DOMAIN attempts[r] : attempts[r][j].stage <= Len(stages[r])
  /\ \A i \in 1..Len(stages[r]) : Cardinality(AttemptsOf(r, i)) <= MaxStageAttempts

(* The counter "made" is the number of attempts that have rows, except      *)
(* between the append of one and the end of its session.                    *)
WorkerBudget(w) ==
  /\ pc[w] = "begin" => loc[w].made = 0
  /\ pc[w] \in {"route", "attempt", "correct"} => Spent(w) = loc[w].made
  /\ pc[w] \in {"checkpoint", "exec"} => Spent(w) = loc[w].made + 1
  /\ pc[w] = "settleAttempt" /\ loc[w].plan.stage = "keep" => Spent(w) = loc[w].made
  /\ \/ pc[w] = "correct"
     \/ pc[w] = "settleAttempt" /\ loc[w].plan.stage = "keep" /\ loc[w].plan.att = "invalid_output"
     => loc[w].made < MaxStageAttempts

BudgetInv ==
  /\ \A r \in Runs : StageBudget(r) /\ AttemptBudget(r)
  /\ \A w \in Workers : WorkerBudget(w)

CountingPCs == {"begin", "route", "attempt", "correct", "checkpoint", "exec", "settleAttempt"}

-----------------------------------------------------------------------------
(* Counting.                                                                *)

LEMMA Counted ==
  ASSUME NEW n \in Nat, NEW S \in SUBSET (1..n)
  PROVE  /\ IsFiniteSet(S) /\ Cardinality(S) \in Nat
         /\ Cardinality(S \cup {n + 1}) = Cardinality(S) + 1
<1>1. IsFiniteSet(1..n)
  BY FS_Interval
<1>2. IsFiniteSet(S)
  BY <1>1, FS_Subset
<1>3. n + 1 \notin S
  OBVIOUS
<1> QED
  BY <1>2, <1>3, FS_CardinalityType, FS_AddElement

LEMMA NoneCounted == Cardinality({}) = 0
  BY FS_EmptySet

(* The columns the budgets are counted from.                                *)
SameColumns(r) ==
  /\ Len(stages'[r]) = Len(stages[r]) /\ DOMAIN stages'[r] = DOMAIN stages[r]
  /\ \A i \in DOMAIN stages[r] : stages'[r][i].kind = stages[r][i].kind
  /\ DOMAIN attempts'[r] = DOMAIN attempts[r]
  /\ \A i \in DOMAIN attempts[r] : attempts'[r][i].stage = attempts[r][i].stage

LEMMA SameCount ==
  ASSUME NEW r, SameColumns(r)
  PROVE  /\ \A k : OfKind(r, k)' = OfKind(r, k)
         /\ \A i : AttemptsOf(r, i)' = AttemptsOf(r, i)
         /\ StageBudget(r) => StageBudget(r)'
         /\ AttemptBudget(r) => AttemptBudget(r)'
<1>1. \A k : OfKind(r, k)' = OfKind(r, k)
  BY DEF OfKind, SameColumns
<1>2. \A i : AttemptsOf(r, i)' = AttemptsOf(r, i)
  BY DEF AttemptsOf, SameColumns
<1>3. StageBudget(r) => StageBudget(r)'
  BY <1>1 DEF StageBudget, SameColumns
<1>4. AttemptBudget(r) => AttemptBudget(r)'
  BY <1>2 DEF AttemptBudget, SameColumns
<1> QED
  BY <1>1, <1>2, <1>3, <1>4

LEMMA Unchanged ==
  ASSUME NEW r, stages'[r] = stages[r], attempts'[r] = attempts[r]
  PROVE  SameColumns(r)
  BY DEF SameColumns

(* A step that adds no row, and moves no worker to where it counts.         *)
LEMMA QuietBudget ==
  ASSUME Inv, BudgetInv, \A r \in Runs : SameColumns(r),
         \A v \in Workers :
           \/ pc'[v] \notin CountingPCs
           \/ pc'[v] = pc[v] /\ on'[v] = on[v] /\ loc'[v] = loc[v]
           \/ WorkerBudget(v)'
  PROVE  BudgetInv'
<1>1. \A r \in Runs : StageBudget(r)' /\ AttemptBudget(r)'
  BY SameCount DEF BudgetInv
<1>2. ASSUME NEW v \in Workers, pc'[v] \in CountingPCs,
             pc'[v] = pc[v] /\ on'[v] = on[v] /\ loc'[v] = loc[v]
      PROVE  WorkerBudget(v)'
  <2>1. on[v] \in Runs
    BY <1>2, EngineRun DEF CountingPCs, EnginePCs
  <2>2. Spent(v)' = Spent(v)
    <3>1. AttemptsOf(on[v], loc[v].stage)' = AttemptsOf(on[v], loc[v].stage)
      BY <1>2, <2>1 DEF SameColumns, AttemptsOf
    <3> QED
      BY <3>1 DEF Spent
  <2> QED
    BY <1>2, <2>2 DEF BudgetInv, WorkerBudget
<1>3. ASSUME NEW v \in Workers, pc'[v] \notin CountingPCs
      PROVE  WorkerBudget(v)'
  BY <1>3 DEF WorkerBudget, CountingPCs
<1> QED
  BY <1>1, <1>2, <1>3 DEF BudgetInv

-----------------------------------------------------------------------------
(* What is not the engine's.                                                *)

LEMMA RowsWritten ==
  ASSUME Inv, NEW r \in Runs, NEW s, s \in AttemptStatuses
  PROVE  /\ Len(CloseRunning(stages[r], s)) = Len(stages[r])
         /\ DOMAIN CloseRunning(stages[r], s) = DOMAIN stages[r]
         /\ DOMAIN CloseRunning(attempts[r], s) = DOMAIN attempts[r]
         /\ \A i \in DOMAIN stages[r] : CloseRunning(stages[r], s)[i].kind = stages[r][i].kind
         /\ \A i \in DOMAIN attempts[r] : CloseRunning(attempts[r], s)[i].stage = attempts[r][i].stage
<1>1. stages[r] \in Seq(Stage) /\ attempts[r] \in Seq(Attempt)
  BY Tables
<1>2. Len(CloseRunning(stages[r], s)) = Len(stages[r])
  BY <1>1, StatusOfRow, CloseRows
<1> QED
  BY <1>1, <1>2, ClosedColumns DEF CloseRunning

LEMMA CancelColumns ==
  ASSUME Inv, NEW r \in Runs, CancelRun(r), NEW s \in Runs
  PROVE  SameColumns(s)
<1>1. CASE s # r
  BY <1>1, CancelCloses, Unchanged
<1>2. CASE s = r
  BY <1>2, CancelCloses DEF SameColumns
<1> QED
  BY <1>1, <1>2

LEMMA RecoveryColumns ==
  ASSUME Inv, NEW r \in Runs, RecoveryStep(r), NEW s \in Runs
  PROVE  SameColumns(s)
<1>1. CASE RecoverTerminal(r)
  <2>1. PICK a \in {"cancelled", "interrupted"} :
          attempts' = [attempts EXCEPT ![r] = CloseRunning(@, a)]
    BY <1>1 DEF RecoverTerminal
  <2>2. stages' = [stages EXCEPT ![r] = CloseRunning(@, "interrupted")]
    BY <1>1 DEF RecoverTerminal
  <2>3. /\ s # r => stages'[s] = stages[s] /\ attempts'[s] = attempts[s]
        /\ stages'[r] = CloseRunning(stages[r], "interrupted")
        /\ attempts'[r] = CloseRunning(attempts[r], a)
    BY <2>1, <2>2, Tables
  <2>4. a \in AttemptStatuses /\ "interrupted" \in AttemptStatuses
    BY DEF AttemptStatuses
  <2> QED
    BY <2>3, <2>4, RowsWritten, Unchanged DEF SameColumns
<1>2. CASE RecoverAttempt(r)
  <2>1. PICK i : attempts' = [attempts EXCEPT ![r][i].status = "interrupted"] /\ stages' = stages
    BY <1>2 DEF RecoverAttempt
  <2>2. /\ s # r => stages'[s] = stages[s] /\ attempts'[s] = attempts[s]
        /\ stages'[r] = stages[r]
        /\ attempts'[r] = [attempts[r] EXCEPT ![i].status = "interrupted"]
    BY <2>1, Tables
  <2>3. \A j \in DOMAIN attempts[r] : attempts'[r][j].stage = attempts[r][j].stage
    BY <2>2, Tables, MarkedAttempt
  <2> QED
    BY <2>2, <2>3, Unchanged DEF SameColumns
<1>3. CASE RecoverStages(r)
  <2>1. stages' = [stages EXCEPT ![r] = CloseRunning(@, "interrupted")] /\ attempts' = attempts
    BY <1>3 DEF RecoverStages
  <2>2. /\ s # r => stages'[s] = stages[s]
        /\ stages'[r] = CloseRunning(stages[r], "interrupted")
    BY <2>1, Tables
  <2>3. "interrupted" \in AttemptStatuses
    BY DEF AttemptStatuses
  <2> QED
    BY <2>1, <2>2, <2>3, RowsWritten DEF SameColumns
<1>4. CASE RecoverBlock(r) \/ RecoverJournal(r)
  BY <1>4, Unchanged DEF RecoverBlock, RecoverJournal
<1> QED
  BY <1>1, <1>2, <1>3, <1>4 DEF RecoveryStep

LEMMA OutsideBudget ==
  ASSUME Inv, BudgetInv,
         \/ \E w \in Workers : Register(w) \/ Release(w)
         \/ \E r \in Runs : RunOne(r) \/ TickVisit(r) \/ ApiStep(r) \/ RecoveryStep(r)
         \/ TickList \/ DiskChange
         \/ Shutdown \/ StopDone \/ Crash \/ Restart \/ NextPhase
  PROVE  BudgetInv'
<1>1. CASE \E r \in Runs : RecoveryStep(r)
  <2>1. \A s \in Runs : SameColumns(s)
    BY <1>1, RecoveryColumns
  <2>2. UNCHANGED <<pc, on, loc>>
    BY <1>1 DEF RecoveryStep, RecoverTerminal, RecoverAttempt, RecoverBlock, RecoverStages,
       RecoverJournal, worker
  <2> QED
    BY <2>1, <2>2, QuietBudget
<1>2. CASE \E r \in Runs : CancelCommit(r)
  <2>1. \A s \in Runs : SameColumns(s)
    BY <1>2, CancelColumns, Unchanged DEF CancelCommit
  <2>2. UNCHANGED <<pc, on, loc>>
    BY <1>2 DEF CancelCommit, worker
  <2> QED
    BY <2>1, <2>2, QuietBudget
<1>3. CASE \/ \E w \in Workers : Register(w) \/ Release(w)
           \/ \E r \in Runs : RunOne(r) \/ TickVisit(r)
  <2>1. UNCHANGED <<stages, attempts>>
    BY <1>3 DEF Register, Release, RunOne, TickVisit, durable
  <2>2. \A v \in Workers :
          \/ pc'[v] \notin CountingPCs
          \/ pc'[v] = pc[v] /\ on'[v] = on[v] /\ loc'[v] = loc[v]
    BY <1>3 DEF Register, Release, RunOne, TickVisit, Claim, Inv, TypeOK, WorkerTypeOK, CountingPCs
  <2> QED
    BY <2>1, <2>2, Unchanged, QuietBudget
<1>4. CASE \/ \E r \in Runs : Submit(r) \/ CancelSignal(r) \/ ManualIntegrate(r)
           \/ TickList \/ DiskChange \/ Shutdown \/ StopDone \/ Crash \/ Restart \/ NextPhase
  <2>1. UNCHANGED <<stages, attempts>>
    BY <1>4 DEF Submit, CancelSignal, ManualIntegrate, TickList, DiskChange, Shutdown, StopDone,
       Crash, Exit, Restart, NextPhase, durable
  <2>2. \A v \in Workers :
          \/ pc'[v] = "idle"
          \/ pc'[v] = pc[v] /\ on'[v] = on[v] /\ loc'[v] = loc[v]
    BY <1>4 DEF Submit, CancelSignal, ManualIntegrate, TickList, DiskChange, Shutdown, StopDone,
       Crash, Exit, Restart, NextPhase, worker
  <2>3. "idle" \notin CountingPCs
    BY DEF CountingPCs
  <2> QED
    BY <2>1, <2>2, <2>3, Unchanged, QuietBudget
<1> QED
  BY <1>1, <1>2, <1>3, <1>4 DEF ApiStep

-----------------------------------------------------------------------------
(* Steps of the engine.                                                     *)

LEMMA AttemptsLocal ==
  ASSUME Inv, NEW w \in Workers, EngineStep(w), NEW r \in Runs \ {on[w]}
  PROVE  stages'[r] = stages[r] /\ attempts'[r] = attempts[r]
<1>1. stages'[r] = stages[r]
  BY Locality
<1>2. attempts' = attempts \/ \E x : attempts' = [attempts EXCEPT ![on[w]] = x]
  <2>1. CASE ObserveCancel(w)
    BY <2>1 DEF ObserveCancel, CancelRun
  <2>2. CASE NextCandidate(w) \/ Correct(w) \/ Checkpoint(w) \/ SettleAttempt(w)
    BY <2>2 DEF NextCandidate, Correct, Checkpoint, SettleAttempt, AppendAttempt, durable
  <2>3. CASE \/ Start(w) \/ Assess(w) \/ Read(w) \/ StopBlocked(w) \/ BeginStage(w) \/ Route(w)
             \/ LadderExhausted(w) \/ SettleStage(w) \/ SettleRun(w) \/ Integrate(w)
             \/ Publish(w) \/ PublishEnd(w) \/ Return(w)
    BY <2>3 DEF Start, Assess, Read, StopBlocked, BeginStage, Route, LadderExhausted, SettleStage,
       SettleRun, Integrate, Publish, PublishEnd, Return, durable
  <2>4. CASE Exec(w)
    BY <2>4 DEF Exec
  <2> QED
    BY <2>1, <2>2, <2>3, <2>4 DEF EngineStep
<1> QED
  BY <1>1, <1>2, Tables

(* An engine step preserves the budgets if it does for its own run.         *)
LEMMA OwnBudget ==
  ASSUME Inv, BudgetInv, NEW w \in Workers, EngineStep(w),
         StageBudget(on[w])', AttemptBudget(on[w])', WorkerBudget(w)'
  PROVE  BudgetInv'
<1>1. /\ on[w] \in Runs /\ on' = on
      /\ \A v \in Workers \ {w} : pc'[v] = pc[v] /\ loc'[v] = loc[v]
  BY Locality
<1>2. ASSUME NEW r \in Runs
      PROVE  StageBudget(r)' /\ AttemptBudget(r)'
  <2>1. CASE r # on[w]
    BY <2>1, AttemptsLocal, Unchanged, SameCount DEF BudgetInv
  <2>2. CASE r = on[w]
    BY <1>1, <2>2 DEF StageBudget, AttemptBudget, OfKind, AttemptsOf
  <2> QED
    BY <2>1, <2>2
<1>3. ASSUME NEW v \in Workers \ {w}
      PROVE  WorkerBudget(v)'
  <2>1. CASE on[v] = NoRun
    <3>1. pc'[v] = "idle"
      BY <1>1, <2>1 DEF Inv, OneExecution
    <3> QED
      BY <3>1 DEF WorkerBudget
  <2>2. CASE on[v] # NoRun
    <3>1. on[v] \in Runs \ {on[w]}
      BY <2>2 DEF Inv, TypeOK, WorkerTypeOK, OneExecution
    <3>2. attempts'[on[v]] = attempts[on[v]]
      BY <3>1, AttemptsLocal
    <3>3. Spent(v)' = Spent(v)
      BY <1>1, <3>2 DEF Spent, AttemptsOf
    <3> QED
      BY <1>1, <3>3 DEF BudgetInv, WorkerBudget
  <2> QED
    BY <2>1, <2>2
<1> QED
  BY <1>2, <1>3 DEF BudgetInv

(* One that adds no row.                                                    *)
LEMMA OwnColumns ==
  ASSUME Inv, BudgetInv, NEW w \in Workers, EngineStep(w), SameColumns(on[w]),
         pc'[w] \notin CountingPCs \/ WorkerBudget(w)'
  PROVE  BudgetInv'
<1>1. /\ on[w] \in Runs
      /\ \A v \in Workers \ {w} : pc'[v] = pc[v] /\ loc'[v] = loc[v] /\ on'[v] = on[v]
  BY Locality
<1>2. \A r \in Runs : SameColumns(r)
  BY AttemptsLocal, Unchanged
<1> QED
  BY <1>1, <1>2, QuietBudget

LEMMA SpentSame ==
  ASSUME NEW w, SameColumns(on[w]), on'[w] = on[w], loc'[w].stage = loc[w].stage
  PROVE  Spent(w)' = Spent(w)
  BY DEF Spent, AttemptsOf, SameColumns

LEMMA ElsewhereBudget ==
  ASSUME Inv, BudgetInv, NEW w \in Workers,
         \/ Start(w) \/ Assess(w) \/ Return(w) \/ ObserveCancel(w) \/ StopBlocked(w)
         \/ SettleStage(w) \/ SettleRun(w) \/ Integrate(w) \/ Publish(w) \/ PublishEnd(w)
  PROVE  BudgetInv'
<1> DEFINE r == on[w]
<1>1. EngineStep(w)
  BY DEF EngineStep
<1>2. r \in Runs /\ pc[w] \in EnginePCs
  BY <1>1, Locality
<1>3. pc'[w] \notin CountingPCs
  BY DEF Start, Assess, Return, ObserveCancel, StopBlocked, SettleStage, SettleRun, Integrate,
     Publish, PublishEnd, Step, CountingPCs, Inv, TypeOK, WorkerTypeOK
<1>4. CASE \/ Start(w) \/ Assess(w) \/ Return(w) \/ SettleRun(w) \/ Integrate(w) \/ Publish(w)
           \/ PublishEnd(w)
  <2>1. UNCHANGED <<stages, attempts>>
    BY <1>4 DEF Start, Assess, Return, SettleRun, Integrate, Publish, PublishEnd, durable
  <2> QED
    BY <1>1, <1>3, <2>1, Unchanged, OwnColumns
<1>5. CASE ObserveCancel(w)
  BY <1>1, <1>2, <1>3, <1>5, CancelColumns, OwnColumns DEF ObserveCancel
<1>6. CASE StopBlocked(w)
  <2>1. stages' = [stages EXCEPT ![r] = CloseRunning(@, "interrupted")] /\ attempts' = attempts
    BY <1>6 DEF StopBlocked
  <2>2. stages'[r] = CloseRunning(stages[r], "interrupted") /\ "interrupted" \in AttemptStatuses
    BY <1>2, <2>1, Tables DEF AttemptStatuses
  <2>3. SameColumns(r)
    BY <1>2, <2>1, <2>2, RowsWritten DEF SameColumns
  <2> QED
    BY <1>1, <1>3, <2>3, OwnColumns
<1>7. CASE SettleStage(w)
  <2> DEFINE k == loc[w].stage
             s == loc[w].plan.stage
  <2>1. /\ pc[w] = "settleStage" /\ attempts' = attempts
        /\ stages' = [stages EXCEPT ![r][k].status = s]
    BY <1>7 DEF SettleStage, Step
  <2>2. s \in AttemptStatuses
    BY <2>1 DEF Inv, LocalsOK, TypeOK, WorkerTypeOK, Locals, Plans
  <2>3. PICK rows \in Seq(Stage) : rows = stages[r]
    BY <1>2, Tables
  <2>4. stages'[r] = [rows EXCEPT ![k].status = s]
    BY <1>2, <2>1, <2>3, Tables
  <2>5. Len(stages'[r]) = Len(rows) /\ DOMAIN stages'[r] = DOMAIN rows
    BY <2>2, <2>4, StatusOfRow, MarkRow
  <2>6. \A i \in DOMAIN rows : stages'[r][i].kind = rows[i].kind
    BY <2>4, MarkedStage
  <2>7. SameColumns(r)
    BY <2>1, <2>3, <2>5, <2>6 DEF SameColumns
  <2> QED
    BY <1>1, <1>3, <2>7, OwnColumns
<1> QED
  BY <1>4, <1>5, <1>6, <1>7

LEMMA ReadBudget ==
  ASSUME Inv, BudgetInv, NEW w \in Workers, Read(w) \/ Route(w) \/ LadderExhausted(w)
  PROVE  BudgetInv'
<1>1. EngineStep(w)
  BY DEF EngineStep
<1>2. UNCHANGED <<stages, attempts>> /\ on[w] \in Runs /\ on'[w] = on[w] /\ SameColumns(on[w])
  BY <1>1, Locality, Unchanged DEF Read, Route, LadderExhausted, durable
<1>3. loc \in [Workers -> Locals] /\ pc \in [Workers -> PCs]
  BY DEF Inv, TypeOK, WorkerTypeOK
<1>4. CASE Read(w)
  <2>1. loc'[w].made = 0 /\ pc'[w] \in {"begin", "integrate", "return"}
    BY <1>3, <1>4 DEF Read, Step, NoLocals
  <2>2. WorkerBudget(w)'
    BY <2>1 DEF WorkerBudget
  <2> QED
    BY <1>1, <1>2, <2>2, OwnColumns
<1>5. CASE Route(w) \/ LadderExhausted(w)
  <2>1. CASE pc'[w] \notin CountingPCs
    BY <1>1, <1>2, <2>1, OwnColumns
  <2>2. CASE pc'[w] \in CountingPCs
    <3>1. /\ pc[w] = "route" /\ pc'[w] = "attempt"
          /\ \E n : loc' = [loc EXCEPT ![w].left = n]
      BY <1>3, <1>5, <2>2 DEF Route, LadderExhausted, Step, CountingPCs
    <3>2. loc'[w].made = loc[w].made /\ loc'[w].stage = loc[w].stage
      BY <1>3, <3>1 DEF Locals
    <3>3. Spent(w)' = Spent(w)
      BY <1>2, <3>2, SpentSame
    <3>4. WorkerBudget(w)'
      BY <3>1, <3>2, <3>3 DEF BudgetInv, WorkerBudget
    <3> QED
      BY <1>1, <1>2, <3>4, OwnColumns
  <2> QED
    BY <2>1, <2>2
<1> QED
  BY <1>4, <1>5

(* A new stage has no attempts, and is one of those OverBudget counted.     *)
LEMMA BeginStageBudget ==
  ASSUME Inv, BudgetInv, NEW w \in Workers, BeginStage(w)
  PROVE  BudgetInv'
<1> DEFINE r == on[w]
           n == Len(stages[r])
           x == [kind |-> Kind(w), status |-> "running"]
<1>1. EngineStep(w)
  BY DEF EngineStep
<1>2. /\ pc[w] = "begin" /\ pc'[w] \in {"attempt", "route"} /\ r \in Runs /\ on'[w] = r
      /\ ~OverBudget(r, Kind(w)) /\ attempts' = attempts
      /\ stages' = [stages EXCEPT ![r] = Append(@, x)]
      /\ loc' = [loc EXCEPT ![w].stage = n + 1, ![w].left = 1]
  BY <1>1, Locality DEF BeginStage, Step, Inv, TypeOK, WorkerTypeOK
<1>3. loc'[w].stage = n + 1 /\ loc'[w].made = 0
  BY <1>2 DEF BudgetInv, WorkerBudget, Inv, TypeOK, WorkerTypeOK, Locals
<1>4. x \in Stage /\ x.status = "running" /\ x.kind = Kind(w)
  BY <1>2, StageKind DEF Stage, AttemptStatuses, StagePCs
<1> HIDE DEF x
<1>5. /\ Len(stages'[r]) = n + 1 /\ n \in Nat /\ DOMAIN stages[r] = 1..n
      /\ DOMAIN stages'[r] = 1..(n + 1) /\ stages'[r][n + 1] = x
      /\ \A i \in 1..n : stages'[r][i] = stages[r][i]
  <2>1. PICK rows \in Seq(Stage) : rows = stages[r]
    BY <1>2, Tables
  <2>2. stages'[r] = Append(rows, x)
    BY <1>2, <2>1, Tables
  <2> QED
    BY <1>2, <1>4, <2>1, <2>2, AppendedRow, Tables
<1>6. StageBudget(r) /\ AttemptBudget(r)
  BY <1>2 DEF BudgetInv
<1>7. ASSUME NEW k
      PROVE  /\ Cardinality(OfKind(r, k)) \in Nat
             /\ Cardinality(OfKind(r, k)') =
                  IF Kind(w) = k THEN Cardinality(OfKind(r, k)) + 1 ELSE Cardinality(OfKind(r, k))
  <2>1. OfKind(r, k) \subseteq 1..n
    BY <1>5 DEF OfKind
  <2>2. OfKind(r, k)' = IF Kind(w) = k THEN OfKind(r, k) \cup {n + 1} ELSE OfKind(r, k)
    BY <1>2, <1>4, <1>5 DEF OfKind
  <2> QED
    BY <1>5, <2>1, <2>2, Counted
<1>8. StageBudget(r)'
  <2>1. n < MaxStages
    BY <1>2, <1>5, BudgetAssumption DEF OverBudget
  <2>2. /\ Kind(w) = "repair" => Cardinality(OfKind(r, "repair")) < MaxRepair
        /\ Kind(w) = "replan" => Cardinality(OfKind(r, "replan")) < MaxReplan
    BY <1>2, <1>7, BudgetAssumption DEF OverBudget
  <2>3. Cardinality(OfKind(r, "repair")') <= MaxRepair
    BY <1>6, <1>7, <2>2, BudgetAssumption DEF StageBudget
  <2>4. Cardinality(OfKind(r, "replan")') <= MaxReplan
    BY <1>6, <1>7, <2>2, BudgetAssumption DEF StageBudget
  <2> QED
    BY <1>2, <1>5, <2>1, <2>3, <2>4, BudgetAssumption DEF StageBudget
<1>9. \A j \in DOMAIN attempts[r] : attempts[r][j].stage \in Nat
  <2>1. PICK rows \in Seq(Attempt) : rows = attempts[r]
    BY <1>2, Tables
  <2>2. \A j \in DOMAIN rows : rows[j] \in Attempt
    OBVIOUS
  <2> QED
    BY <2>1, <2>2 DEF Attempt
<1>10. AttemptsOf(r, n + 1) = {}
  BY <1>5, <1>6, <1>9 DEF AttemptBudget, AttemptsOf
<1>11. AttemptBudget(r)'
  <2>1. \A i : AttemptsOf(r, i)' = AttemptsOf(r, i)
    BY <1>2 DEF AttemptsOf
  <2>2. \A i \in 1..(n + 1) : Cardinality(AttemptsOf(r, i)) <= MaxStageAttempts
    <3>1. \A m \in Nat : \A i \in 1..(m + 1) : i = m + 1 \/ i \in 1..m
      OBVIOUS
    <3>2. \A i \in 1..n : Cardinality(AttemptsOf(r, i)) <= MaxStageAttempts
      BY <1>6 DEF AttemptBudget
    <3>3. Cardinality(AttemptsOf(r, n + 1)) = 0
      BY <1>10, NoneCounted, Zenon
    <3>4. Cardinality(AttemptsOf(r, n + 1)) <= MaxStageAttempts
      BY <3>3, BudgetAssumption
    <3> QED
      BY <1>5, <3>1, <3>2, <3>4
  <2>3. \A j \in DOMAIN attempts[r] : attempts[r][j].stage <= n + 1
    BY <1>5, <1>6, <1>9 DEF AttemptBudget
  <2> QED
    BY <1>2, <1>5, <2>1, <2>2, <2>3 DEF AttemptBudget
<1>12. WorkerBudget(w)'
  <2>1. Spent(w)' = 0
    BY <1>2, <1>3, <1>10, NoneCounted DEF Spent, AttemptsOf
  <2> QED
    BY <1>2, <1>3, <2>1 DEF WorkerBudget
<1>13. StageBudget(on[w])' /\ AttemptBudget(on[w])'
  BY <1>2, <1>8, <1>11 DEF StageBudget, AttemptBudget, OfKind, AttemptsOf
<1> QED
  BY <1>1, <1>12, <1>13, OwnBudget

(* A new attempt is one that the counter still allows.                      *)
LEMMA NewAttemptBudget ==
  ASSUME Inv, RowInv, BudgetInv, NEW w \in Workers, NextCandidate(w) \/ Correct(w)
  PROVE  BudgetInv'
<1> DEFINE r == on[w]
           n == Len(attempts[r])
           k == loc[w].stage
           x == [stage |-> k, status |-> "running", cp |-> FALSE]
<1>1. EngineStep(w)
  BY DEF EngineStep
<1>2. /\ pc[w] \in {"attempt", "correct"} /\ pc'[w] \in {"checkpoint", "exec"}
      /\ r \in Runs /\ on'[w] = r /\ phase \in {"serving", "stopping"} /\ stages' = stages
      /\ attempts' = [attempts EXCEPT ![r] = Append(@, x)]
  BY <1>1, Locality
  DEF NextCandidate, Correct, AppendAttempt, AfterAppend, Step, Inv, TypeOK, WorkerTypeOK
<1>3. loc \in [Workers -> Locals]
  BY DEF Inv, TypeOK, WorkerTypeOK
<1>4. loc'[w].stage = k /\ loc'[w].made = loc[w].made /\ k \in Nat /\ loc[w].made \in Nat
  BY <1>3 DEF NextCandidate, Correct, Locals
<1>5. Spent(w) = loc[w].made /\ loc[w].made < MaxStageAttempts
  BY <1>2 DEF BudgetInv, WorkerBudget, NextCandidate, Correct, Step
<1>6. k = Len(stages[r])
  BY <1>2, Here DEF WorkerRows, OpenPCs, EnginePCs
<1>7. x \in Attempt /\ x.status = "running" /\ x.stage = k
  BY <1>4 DEF Attempt, AttemptStatuses
<1> HIDE DEF x
<1>8. /\ n \in Nat /\ DOMAIN attempts[r] = 1..n /\ DOMAIN attempts'[r] = 1..(n + 1)
      /\ attempts'[r][n + 1] = x /\ \A i \in 1..n : attempts'[r][i] = attempts[r][i]
  <2>1. PICK rows \in Seq(Attempt) : rows = attempts[r]
    BY <1>2, Tables
  <2>2. attempts'[r] = Append(rows, x)
    BY <1>2, <2>1, Tables
  <2> QED
    BY <1>2, <1>7, <2>1, <2>2, AppendedRow, Tables
<1>9. /\ AttemptsOf(r, k)' = AttemptsOf(r, k) \cup {n + 1}
      /\ \A i : i # k => AttemptsOf(r, i)' = AttemptsOf(r, i)
  BY <1>2, <1>4, <1>7, <1>8 DEF AttemptsOf
<1>10. Cardinality(AttemptsOf(r, k)') = loc[w].made + 1
  <2>1. AttemptsOf(r, k) \subseteq 1..n
    BY <1>8 DEF AttemptsOf
  <2>2. Cardinality(AttemptsOf(r, k) \cup {n + 1}) = Cardinality(AttemptsOf(r, k)) + 1
    BY <1>8, <2>1, Counted
  <2>3. Cardinality(AttemptsOf(r, k)') = Cardinality(AttemptsOf(r, k) \cup {n + 1})
    BY <1>9, Zenon
  <2> QED
    BY <1>5, <2>2, <2>3 DEF Spent
<1>11. StageBudget(r) /\ AttemptBudget(r)
  BY <1>2 DEF BudgetInv
<1>12. StageBudget(on[w])'
  BY <1>2, <1>11 DEF StageBudget, OfKind
<1>13. AttemptBudget(on[w])'
  <2>1. \A j \in 1..(n + 1) : attempts'[r][j].stage <= Len(stages[r])
    <3>1. \A m \in Nat : \A j \in 1..(m + 1) : j = m + 1 \/ j \in 1..m
      OBVIOUS
    <3>2. \A j \in 1..n : attempts'[r][j].stage <= Len(stages[r])
      BY <1>8, <1>11 DEF AttemptBudget
    <3>3. attempts'[r][n + 1].stage <= Len(stages[r])
      BY <1>4, <1>6, <1>7, <1>8
    <3> QED
      BY <1>8, <3>1, <3>2, <3>3
  <2>2. \A i \in 1..Len(stages[r]) : Cardinality(AttemptsOf(r, i)') <= MaxStageAttempts
    <3>1. Cardinality(AttemptsOf(r, k)') <= MaxStageAttempts
      BY <1>4, <1>5, <1>10, BudgetAssumption
    <3>2. \A i \in 1..Len(stages[r]) : Cardinality(AttemptsOf(r, i)) <= MaxStageAttempts
      BY <1>11 DEF AttemptBudget
    <3> TAKE i \in 1..Len(stages[r])
    <3>3. CASE i = k
      BY <1>4, <3>1, <3>3, Zenon
    <3>4. CASE i # k
      <4>1. Cardinality(AttemptsOf(r, i)') = Cardinality(AttemptsOf(r, i))
        BY <1>9, <3>4, Zenon
      <4>2. Cardinality(AttemptsOf(r, i)) <= MaxStageAttempts
        BY <3>2
      <4> QED
        BY <4>1, <4>2, Zenon
    <3> QED
      BY <3>3, <3>4
  <2> QED
    BY <1>2, <1>8, <2>1, <2>2 DEF AttemptBudget
<1>14. WorkerBudget(w)'
  <2>1. Spent(w)' = loc'[w].made + 1
    BY <1>2, <1>4, <1>10 DEF Spent, AttemptsOf
  <2> QED
    BY <1>2, <2>1 DEF WorkerBudget
<1> QED
  BY <1>1, <1>12, <1>13, <1>14, OwnBudget

LEMMA CheckpointBudget ==
  ASSUME Inv, BudgetInv, NEW w \in Workers, Checkpoint(w)
  PROVE  BudgetInv'
<1> DEFINE r == on[w]
           k == loc[w].att
<1>1. EngineStep(w)
  BY DEF EngineStep
<1>2. loc \in [Workers -> Locals] /\ on[w] \in Runs /\ on'[w] = on[w]
  BY <1>1, Locality DEF Inv, TypeOK, WorkerTypeOK
<1>3. \/ /\ pc[w] = "checkpoint" /\ pc'[w] = "exec" /\ loc' = loc /\ stages' = stages
         /\ attempts' = [attempts EXCEPT ![r][k].cp = TRUE]
      \/ /\ pc'[w] = "settleAttempt" /\ UNCHANGED <<stages, attempts>>
         /\ loc' = [loc EXCEPT ![w].plan = Plan("failed", "failed", "set", "failed")]
  BY DEF Checkpoint, Step, durable, Inv, TypeOK, WorkerTypeOK
<1>4. SameColumns(r)
  <2>1. CASE UNCHANGED <<stages, attempts>>
    BY <2>1, Unchanged
  <2>2. CASE stages' = stages /\ attempts' = [attempts EXCEPT ![r][k].cp = TRUE]
    <3>1. PICK rows \in Seq(Attempt) : rows = attempts[r]
      BY <1>2, Tables
    <3>2. attempts'[r] = [rows EXCEPT ![k].cp = TRUE]
      BY <1>2, <2>2, <3>1, Tables
    <3> QED
      BY <2>2, <3>1, <3>2, CheckpointedRow DEF SameColumns
  <2> QED
    BY <1>3, <2>1, <2>2
<1>5. WorkerBudget(w)'
  <2>1. CASE pc[w] = "checkpoint" /\ pc'[w] = "exec" /\ loc' = loc
    <3>1. Spent(w)' = Spent(w)
      BY <1>2, <1>4, <2>1, SpentSame
    <3> QED
      BY <2>1, <3>1 DEF BudgetInv, WorkerBudget
  <2>2. CASE /\ pc'[w] = "settleAttempt"
             /\ loc' = [loc EXCEPT ![w].plan = Plan("failed", "failed", "set", "failed")]
    <3>1. loc'[w].plan.stage = "failed"
      BY <1>2, <2>2 DEF Plan, Locals
    <3> QED
      BY <2>2, <3>1 DEF WorkerBudget
  <2> QED
    BY <1>3, <2>1, <2>2
<1> QED
  BY <1>1, <1>4, <1>5, OwnColumns

(* The end of a session counts its attempt; a correction is planned only    *)
(* if one more is allowed.                                                  *)
LEMMA ExecBudget ==
  ASSUME Inv, BudgetInv, NEW w \in Workers, Exec(w)
  PROVE  BudgetInv'
<1>1. EngineStep(w)
  BY DEF EngineStep
<1>2. PICK o \in Outcomes, verdict \in Verdicts, pendingApproval \in BOOLEAN,
           gate \in {"pass", "fail"}, ao \in BOOLEAN :
        /\ Step(w, "exec", "settleAttempt")
        /\ Kind(w) = "validate" => o \in {"ok", "invalid", "infrastructure"}
        /\ (o = "ok" /\ Kind(w) = "review") \/ (verdict = "pass" /\ ~pendingApproval)
        /\ (o = "ok" /\ Kind(w) = "validate") \/ gate = "pass"
        /\ ao => o = "ok" /\ Kind(w) \in {"plan", "replan"}
        /\ LET done == AfterExec(w, o, Advance(w, verdict, pendingApproval))
           IN loc' = [loc EXCEPT ![w].made = @ + 1, ![w].ao = @ \/ ao, ![w].plan = done[2],
                                 ![w].left = IF done[1] = "settleStage" THEN 0 ELSE @]
        /\ val' = IF o = "ok" /\ Kind(w) = "validate" THEN [val EXCEPT ![on[w]] = gate] ELSE val
        /\ UNCHANGED <<status, stages, attempts, journal, torn>>
  BY ZenonT(60) DEF Exec
<1> DEFINE to == Advance(w, verdict, pendingApproval)
           done == AfterExec(w, o, to)
<1>3. /\ pc[w] = "exec" /\ pc'[w] = "settleAttempt" /\ on[w] \in Runs /\ on'[w] = on[w]
  BY <1>1, <1>2, MoveFacts DEF EnginePCs
<1>4. done[2].stage = "keep" /\ done[2].att = "invalid_output" => MayRetry(w)
  <2>1. \A a, s, h, t : Plan(a, s, h, t).att = a /\ Plan(a, s, h, t).stage = s
    BY DEF Plan
  <2>2. FailStage(w, o).att = "failed"
    BY DEF FailStage, Plan
  <2> QED
    BY <2>1, <2>2 DEF AfterExec, Outcomes
<1>5. loc' = [loc EXCEPT ![w].made = @ + 1, ![w].ao = @ \/ ao, ![w].plan = done[2],
                         ![w].left = IF done[1] = "settleStage" THEN 0 ELSE @]
  BY <1>2
<1> HIDE DEF done
<1>6. /\ loc'[w].stage = loc[w].stage /\ loc'[w].plan = done[2] /\ loc'[w].made = loc[w].made + 1
      /\ loc[w].made \in Nat
  BY <1>5 DEF Inv, TypeOK, WorkerTypeOK, Locals
<1>7. Spent(w)' = Spent(w) /\ SameColumns(on[w])
  BY <1>2, <1>3, <1>6, SpentSame, Unchanged
<1>8. WorkerBudget(w)'
  BY <1>3, <1>4, <1>6, <1>7, BudgetAssumption DEF BudgetInv, WorkerBudget, MayRetry
<1> QED
  BY <1>1, <1>7, <1>8, OwnColumns

LEMMA SettleAttemptBudget ==
  ASSUME Inv, BudgetInv, NEW w \in Workers, SettleAttempt(w)
  PROVE  BudgetInv'
<1> DEFINE r == on[w]
           k == loc[w].att
           s == loc[w].plan.att
<1>1. EngineStep(w)
  BY DEF EngineStep
<1>2. /\ pc[w] = "settleAttempt" /\ r \in Runs /\ on'[w] = r /\ stages' = stages /\ loc' = loc
      /\ attempts' = [attempts EXCEPT ![r][k].status = s]
      /\ pc'[w] = IF loc[w].plan.stage # "keep" THEN "settleStage"
                  ELSE IF s = "invalid_output" THEN "correct" ELSE "attempt"
  BY <1>1, Locality DEF SettleAttempt, Step, Inv, TypeOK, WorkerTypeOK
<1>3. PICK rows \in Seq(Attempt) : rows = attempts[r]
  BY <1>2, Tables
<1>4. attempts'[r] = [rows EXCEPT ![k].status = s]
  BY <1>2, <1>3, Tables
<1>5. \A i \in DOMAIN rows : attempts'[r][i].stage = rows[i].stage
  BY <1>4, MarkedAttempt
<1>6. SameColumns(r)
  BY <1>2, <1>3, <1>4, <1>5 DEF SameColumns
<1>7. Spent(w)' = Spent(w)
  BY <1>2, <1>6, SpentSame
<1>8. pc'[w] \notin CountingPCs \/ WorkerBudget(w)'
  BY <1>2, <1>7 DEF BudgetInv, WorkerBudget, CountingPCs
<1> QED
  BY <1>1, <1>6, <1>8, OwnColumns

-----------------------------------------------------------------------------
LEMMA InitBudget == Init => BudgetInv
<1> SUFFICES ASSUME Init PROVE BudgetInv
  OBVIOUS
<1>1. ASSUME NEW r \in Runs
      PROVE  StageBudget(r) /\ AttemptBudget(r)
  <2>1. stages[r] = <<>> /\ attempts[r] = <<>> /\ Len(stages[r]) = 0
    BY DEF Init
  <2>2. OfKind(r, "repair") = {} /\ OfKind(r, "replan") = {}
    BY <2>1 DEF OfKind
  <2>3. Cardinality(OfKind(r, "repair")) = 0 /\ Cardinality(OfKind(r, "replan")) = 0
    BY <2>2, NoneCounted, Zenon
  <2> QED
    BY <2>1, <2>3, BudgetAssumption DEF StageBudget, AttemptBudget
<1>2. \A w \in Workers : WorkerBudget(w)
  BY DEF Init, WorkerBudget
<1> QED
  BY <1>1, <1>2 DEF BudgetInv

LEMMA NextBudget ==
  ASSUME Inv, RowInv, BudgetInv, [Next]_vars
  PROVE  BudgetInv'
<1>1. ASSUME NEW w \in Workers, EngineStep(w)
      PROVE  BudgetInv'
  BY <1>1, ElsewhereBudget, ReadBudget, BeginStageBudget, NewAttemptBudget, CheckpointBudget,
     ExecBudget, SettleAttemptBudget
  DEF EngineStep
<1>2. CASE UNCHANGED vars
  BY <1>2, Unchanged, QuietBudget DEF vars, durable, worker
<1>3. CASE Next
  BY <1>1, <1>3, OutsideBudget DEF Next, WorkerStep
<1> QED
  BY <1>2, <1>3

(* The budgets of budget.go hold over the whole life of a run: no crash,    *)
(* restart, cancellation or second execution starts them anew.              *)
THEOREM WithinBudget == Spec => []BudgetRespected
<1>1. Inv /\ RowInv /\ BudgetInv /\ [Next]_vars => BudgetInv'
  BY NextBudget
<1>2. BudgetInv => BudgetRespected
  BY DEF BudgetInv, StageBudget, AttemptBudget, AttemptsOf, BudgetRespected
<1> QED
  BY <1>1, <1>2, InitBudget, RowsHold, PTL DEF Spec

-----------------------------------------------------------------------------
(* What becomes of a workspace a crash has torn. *)

(* Statuses that nobody but an operator takes a run out of.                 *)
Stopped == Terminal \cup Halted

(* An attempt is open on a stage that writes to the workspace.              *)
OpenWrite(r) ==
  \E i \in Running(attempts[r]) : stages[r][attempts[r][i].stage].kind \in WriteKinds

(* Where an execution has not begun a stage, and where it is over.          *)
AwayPCs == {"claimedTick", "claimedEnqueue", "start", "read", "return", "release"}

(* A worker works on a stage of the kind it read, and its attempt is open   *)
(* unless somebody stopped the run.                                         *)
WorkerOpen(w) ==
  /\ pc[w] \in OpenPCs => /\ loc[w].stage \in DOMAIN stages[on[w]]
                          /\ stages[on[w]][loc[w].stage].kind = Kind(w)
  /\ pc[w] \in AttemptPCs /\ on[w] \notin forced =>
       status[on[w]] \in Stopped \/ loc[w].att \in Running(attempts[on[w]])

(* A torn run is stopped, or its attempt is still open and recovery has yet *)
(* to come to it, or recovery has come to it and is about to block it.      *)
TornRun(r) ==
  r \in torn \ forced =>
    /\ \A w \in Workers : on[w] = r => pc[w] \in AwayPCs
    /\ \/ status[r] \in Stopped
       \/ phase \in {"down", "terminals"} /\ OpenWrite(r)
       \/ phase = "active" /\ r \in recTodo /\ (OpenWrite(r) \/ recBlock = r)

WorkspaceInv == (\A w \in Workers : WorkerOpen(w)) /\ (\A r \in Runs : TornRun(r))

(* No crash falls between the two writes by which recovery gives up on a    *)
(* workspace: the attempt is marked, the run is not yet blocked.            *)
GapFree == Crash => recBlock \notin torn

-----------------------------------------------------------------------------
LEMMA AwayPlaces ==
  /\ AwayPCs \cap OpenPCs = {} /\ AttemptPCs \subseteq OpenPCs
  /\ "idle" \notin OpenPCs /\ "idle" \notin AwayPCs
  /\ AwayPCs \cap {"attempt", "checkpoint", "exec", "publish"} = {}
  /\ AwayPCs \cap EnginePCs = {"start", "read", "return"}
  BY DEF AwayPCs, OpenPCs, AttemptPCs, EnginePCs

LEMMA StoppedStatuses ==
  /\ Terminal \subseteq Stopped /\ "cancelled" \in Terminal
  /\ {"blocked", "complete", "integration_blocked"} \subseteq Stopped
  /\ Stopped \cap {"absent", "queued", "assessing", "ready_to_integrate", "integrating"} = {}
  /\ Stopped \cap StageStatuses = {}
  BY DEF Stopped, Terminal, Halted, StageStatuses

(* What a worker knows stays so while its locals and its rows do.           *)
LEMMA SameOpen ==
  ASSUME NEW w, pc[w] \in OpenPCs, WorkerOpen(w), on'[w] = on[w],
         loc'[w].seen = loc[w].seen, loc'[w].stage = loc[w].stage, SameColumns(on[w]),
         \/ pc'[w] \notin AttemptPCs
         \/ on[w] \in forced'
         \/ status'[on[w]] \in Stopped
         \/ loc'[w].att \in Running(attempts'[on[w]])
  PROVE  WorkerOpen(w)'
  BY DEF WorkerOpen, SameColumns, Kind

-----------------------------------------------------------------------------
(* Steps of the engine.                                                     *)

LEMMA BeginStageOpen ==
  ASSUME Inv, NEW w \in Workers, BeginStage(w)
  PROVE  WorkerOpen(w)'
<1> DEFINE r == on[w]
           x == [kind |-> Kind(w), status |-> "running"]
<1>1. /\ stages' = [stages EXCEPT ![r] = Append(@, x)] /\ pc[w] = "begin"
      /\ pc'[w] \in {"attempt", "route"} /\ on' = on
      /\ loc' = [loc EXCEPT ![w].stage = Len(stages[r]) + 1, ![w].left = 1]
  BY DEF BeginStage, Step, Inv, TypeOK, WorkerTypeOK
<1>2. r \in Runs
  BY <1>1, EngineRun DEF EnginePCs
<1>3. loc'[w].stage = Len(stages[r]) + 1 /\ loc'[w].seen = loc[w].seen
  BY <1>1 DEF Inv, TypeOK, WorkerTypeOK, Locals
<1>4. x \in Stage /\ x.status = "running" /\ x.kind = Kind(w)
  BY <1>1, StageKind DEF Stage, AttemptStatuses, StagePCs
<1> HIDE DEF x
<1>5. PICK rows \in Seq(Stage) : rows = stages[r]
  BY <1>2, Tables
<1>6. stages'[r] = Append(rows, x)
  BY <1>1, <1>2, <1>5, Tables
<1>7. Len(rows) + 1 \in DOMAIN stages'[r] /\ stages'[r][Len(rows) + 1] = x
  BY <1>4, <1>6, AppendedRow
<1>8. Kind(w)' = Kind(w) /\ pc'[w] \notin AttemptPCs
  BY <1>1, <1>3 DEF Kind, AttemptPCs
<1> QED
  BY <1>1, <1>3, <1>4, <1>5, <1>7, <1>8 DEF WorkerOpen

LEMMA NewAttemptOpen ==
  ASSUME Inv, NEW w \in Workers, WorkerOpen(w), NextCandidate(w) \/ Correct(w)
  PROVE  WorkerOpen(w)'
<1> DEFINE r == on[w]
           x == [stage |-> loc[w].stage, status |-> "running", cp |-> FALSE]
<1>1. /\ attempts' = [attempts EXCEPT ![r] = Append(@, x)] /\ stages' = stages
      /\ pc[w] \in {"attempt", "correct"} /\ on' = on
      /\ \/ loc' = [loc EXCEPT ![w].left = @ - 1, ![w].att = Len(attempts[r]) + 1]
         \/ loc' = [loc EXCEPT ![w].corr = TRUE, ![w].att = Len(attempts[r]) + 1]
  BY DEF NextCandidate, Correct, AppendAttempt, Step
<1>2. r \in Runs
  BY <1>1, EngineRun DEF EnginePCs
<1>3. /\ loc'[w].att = Len(attempts[r]) + 1 /\ loc'[w].stage = loc[w].stage
      /\ loc'[w].seen = loc[w].seen
  BY <1>1 DEF Inv, TypeOK, WorkerTypeOK, Locals
<1>4. x \in Attempt /\ x.status = "running"
  BY DEF Attempt, AttemptStatuses, Inv, TypeOK, WorkerTypeOK, Locals
<1> HIDE DEF x
<1>5. PICK rows \in Seq(Attempt) : rows = attempts[r]
  BY <1>2, Tables
<1>6. attempts'[r] = Append(rows, x)
  BY <1>1, <1>2, <1>5, Tables
<1>7. loc'[w].att \in Running(attempts'[r])
  BY <1>3, <1>4, <1>5, <1>6, AppendedRow
<1>8. pc[w] \in OpenPCs /\ Kind(w)' = Kind(w)
  BY <1>1, <1>3 DEF OpenPCs, Kind
<1> QED
  BY <1>1, <1>3, <1>7, <1>8 DEF WorkerOpen

LEMMA CheckpointOpen ==
  ASSUME Inv, NEW w \in Workers, WorkerOpen(w), Checkpoint(w)
  PROVE  WorkerOpen(w)'
<1> DEFINE r == on[w]
           k == loc[w].att
<1>1. /\ status' = status /\ stages' = stages /\ on' = on /\ forced' = forced
      /\ pc[w] = "checkpoint" /\ pc'[w] \in {"exec", "settleAttempt"}
      /\ attempts' = attempts \/ attempts' = [attempts EXCEPT ![r][k].cp = TRUE]
      /\ \/ loc' = loc
         \/ loc' = [loc EXCEPT ![w].plan = Plan("failed", "failed", "set", "failed")]
  BY DEF Checkpoint, Step, durable, history, Inv, TypeOK, WorkerTypeOK
<1>2. r \in Runs /\ pc[w] \in OpenPCs /\ pc[w] \in AttemptPCs
  BY <1>1, EngineRun DEF EnginePCs, OpenPCs, AttemptPCs
<1>3. loc'[w].seen = loc[w].seen /\ loc'[w].stage = loc[w].stage /\ loc'[w].att = k
  BY <1>1 DEF Inv, TypeOK, WorkerTypeOK, Locals
<1>4. PICK rows \in Seq(Attempt) : rows = attempts[r]
  BY <1>2, Tables
<1>5. attempts'[r] = rows \/ attempts'[r] = [rows EXCEPT ![k].cp = TRUE]
  BY <1>1, <1>2, <1>4, Tables
<1>6. /\ Running(attempts'[r]) = Running(rows) /\ DOMAIN attempts'[r] = DOMAIN rows
      /\ \A i \in DOMAIN rows : attempts'[r][i].stage = rows[i].stage
  <2>1. CASE attempts'[r] = rows
    BY <2>1
  <2>2. CASE attempts'[r] = [rows EXCEPT ![k].cp = TRUE]
    BY <2>2, CheckpointedRow
  <2> QED
    BY <1>5, <2>1, <2>2
<1>7. SameColumns(r)
  BY <1>1, <1>4, <1>6 DEF SameColumns
<1>8. r \in forced' \/ status'[r] \in Stopped \/ loc'[w].att \in Running(attempts'[r])
  BY <1>1, <1>2, <1>3, <1>4, <1>6 DEF WorkerOpen
<1> QED
  BY <1>1, <1>2, <1>3, <1>7, <1>8, SameOpen

LEMMA SettleAttemptOpen ==
  ASSUME Inv, NEW w \in Workers, WorkerOpen(w), SettleAttempt(w)
  PROVE  WorkerOpen(w)'
<1> DEFINE r == on[w]
           k == loc[w].att
           s == loc[w].plan.att
<1>1. /\ stages' = stages /\ loc' = loc /\ on' = on /\ pc[w] = "settleAttempt"
      /\ attempts' = [attempts EXCEPT ![r][k].status = s]
      /\ pc'[w] \in {"settleStage", "correct", "attempt"}
  BY DEF SettleAttempt, Step, Inv, TypeOK, WorkerTypeOK
<1>2. r \in Runs /\ pc[w] \in OpenPCs /\ pc'[w] \notin AttemptPCs
  BY <1>1, EngineRun DEF EnginePCs, OpenPCs, AttemptPCs
<1>3. PICK rows \in Seq(Attempt) : rows = attempts[r]
  BY <1>2, Tables
<1>4. attempts'[r] = [rows EXCEPT ![k].status = s]
  BY <1>1, <1>2, <1>3, Tables
<1>5. \A i \in DOMAIN rows : attempts'[r][i].stage = rows[i].stage
  BY <1>4, MarkedAttempt
<1>6. SameColumns(r)
  BY <1>1, <1>3, <1>4, <1>5 DEF SameColumns
<1> QED
  BY <1>1, <1>2, <1>6, SameOpen

(* The end of an attempt changes what remains to be done, not where.        *)
LEMMA ExecLocals ==
  ASSUME Inv, NEW w \in Workers, Exec(w)
  PROVE  /\ loc'[w].seen = loc[w].seen /\ loc'[w].stage = loc[w].stage
         /\ loc'[w].att = loc[w].att
<1>1. PICK o \in Outcomes, verdict \in Verdicts, pendingApproval \in BOOLEAN,
           gate \in {"pass", "fail"}, ao \in BOOLEAN :
        /\ Step(w, "exec", "settleAttempt")
        /\ Kind(w) = "validate" => o \in {"ok", "invalid", "infrastructure"}
        /\ (o = "ok" /\ Kind(w) = "review") \/ (verdict = "pass" /\ ~pendingApproval)
        /\ (o = "ok" /\ Kind(w) = "validate") \/ gate = "pass"
        /\ ao => o = "ok" /\ Kind(w) \in {"plan", "replan"}
        /\ LET done == AfterExec(w, o, Advance(w, verdict, pendingApproval))
           IN loc' = [loc EXCEPT ![w].made = @ + 1, ![w].ao = @ \/ ao, ![w].plan = done[2],
                                 ![w].left = IF done[1] = "settleStage" THEN 0 ELSE @]
        /\ val' = IF o = "ok" /\ Kind(w) = "validate" THEN [val EXCEPT ![on[w]] = gate] ELSE val
        /\ UNCHANGED <<status, stages, attempts, journal, torn>>
  BY ZenonT(60) DEF Exec
<1> DEFINE done == AfterExec(w, o, Advance(w, verdict, pendingApproval))
<1>2. loc' = [loc EXCEPT ![w].made = @ + 1, ![w].ao = @ \/ ao, ![w].plan = done[2],
                         ![w].left = IF done[1] = "settleStage" THEN 0 ELSE @]
  BY <1>1
<1> HIDE DEF done
<1> QED
  BY <1>2 DEF Inv, TypeOK, WorkerTypeOK, Locals

(* Routing, an exhausted ladder and the end of an attempt write no rows.    *)
LEMMA PlanningOpen ==
  ASSUME Inv, NEW w \in Workers, WorkerOpen(w), Route(w) \/ LadderExhausted(w) \/ Exec(w)
  PROVE  WorkerOpen(w)'
<1>1. CASE Route(w) \/ LadderExhausted(w)
  <2>1. /\ UNCHANGED <<status, stages, attempts, on, forced>>
        /\ pc[w] \in {"route", "attempt"} /\ pc'[w] \in {"attempt", "settleStage"}
        /\ \/ \E n : loc' = [loc EXCEPT ![w].left = n]
           \/ \E p : loc' = [loc EXCEPT ![w].plan = p]
    BY <1>1 DEF Route, LadderExhausted, Step, durable, history, Inv, TypeOK, WorkerTypeOK
  <2>2. loc'[w].seen = loc[w].seen /\ loc'[w].stage = loc[w].stage
    BY <2>1 DEF Inv, TypeOK, WorkerTypeOK, Locals
  <2>3. pc[w] \in OpenPCs /\ pc'[w] \notin AttemptPCs
    BY <2>1 DEF OpenPCs, AttemptPCs
  <2> QED
    BY <2>1, <2>2, <2>3, Unchanged, SameOpen
<1>2. CASE Exec(w)
  <2>1. /\ UNCHANGED <<status, stages, attempts, on, forced>> /\ pc[w] = "exec"
    BY <1>2, ExecFacts DEF Step, history
  <2>3. /\ loc'[w].seen = loc[w].seen /\ loc'[w].stage = loc[w].stage
        /\ loc'[w].att = loc[w].att
    BY <1>2, ExecLocals
  <2>4. pc[w] \in OpenPCs /\ pc[w] \in AttemptPCs
    BY <2>1 DEF OpenPCs, AttemptPCs
  <2>5. on[w] \in forced \/ status[on[w]] \in Stopped \/ loc[w].att \in Running(attempts[on[w]])
    BY <2>4 DEF WorkerOpen
  <2> QED
    BY <2>1, <2>3, <2>4, <2>5, Unchanged, SameOpen
<1> QED
  BY <1>1, <1>2

LEMMA ElsewhereOpen ==
  ASSUME Inv, NEW w \in Workers,
         \/ Start(w) \/ Assess(w) \/ Read(w) \/ StopBlocked(w) \/ SettleStage(w) \/ SettleRun(w)
         \/ Integrate(w) \/ Publish(w) \/ PublishEnd(w) \/ ObserveCancel(w) \/ Return(w)
  PROVE  WorkerOpen(w)'
<1>1. pc'[w] \notin OpenPCs
  BY DEF Start, Assess, Read, StopBlocked, SettleStage, SettleRun, Integrate, Publish, PublishEnd,
     ObserveCancel, Return, Step, OpenPCs, Inv, TypeOK, WorkerTypeOK
<1> QED
  BY <1>1, AwayPlaces DEF WorkerOpen

(* The engine leaves torn workspaces alone, and a stopped run stopped.      *)
LEMMA EngineStops ==
  ASSUME Inv, NEW w \in Workers, EngineStep(w)
  PROVE  /\ torn' = torn
         /\ pc[w] \in AwayPCs /\ status[on[w]] \in Stopped =>
              pc'[w] \in AwayPCs /\ status'[on[w]] \in Stopped
<1>1. torn' = torn
  <2>1. CASE \/ Start(w) \/ Assess(w) \/ Read(w) \/ StopBlocked(w) \/ BeginStage(w) \/ Route(w)
             \/ NextCandidate(w) \/ LadderExhausted(w) \/ Correct(w) \/ Checkpoint(w)
    BY <2>1 DEF Start, Assess, Read, StopBlocked, BeginStage, Route, NextCandidate,
       LadderExhausted, Correct, Checkpoint, AppendAttempt, durable
  <2>2. CASE Exec(w)
    BY <2>2, ExecFacts
  <2>3. CASE \/ SettleAttempt(w) \/ SettleStage(w) \/ SettleRun(w) \/ Integrate(w) \/ Publish(w)
             \/ PublishEnd(w) \/ ObserveCancel(w) \/ Return(w)
    BY <2>3 DEF SettleAttempt, SettleStage, SettleRun, Integrate, Publish, PublishEnd,
       ObserveCancel, Return, durable
  <2> QED
    BY <2>1, <2>2, <2>3 DEF EngineStep
<1>2. ASSUME pc[w] \in AwayPCs, status[on[w]] \in Stopped
      PROVE  pc'[w] \in AwayPCs /\ status'[on[w]] \in Stopped
  <2>1. on[w] \in Runs /\ pc[w] \in {"start", "read", "return"}
    BY <1>2, Locality, AwayPlaces
  <2>2. CASE ObserveCancel(w)
    <3>1. pc'[w] = "release" /\ CancelRun(on[w])
      BY <2>2 DEF ObserveCancel, Inv, TypeOK, WorkerTypeOK
    <3> QED
      BY <1>2, <2>1, <3>1, CancelCloses, StoppedStatuses DEF AwayPCs
  <2>3. CASE ~ObserveCancel(w)
    <3>1. Start(w) \/ Read(w) \/ Return(w)
      <4>1. CASE Exec(w)
        BY <2>1, <4>1, ExecFacts DEF Step
      <4>2. CASE ~Exec(w)
        BY <2>1, <2>3, <4>2 DEF EngineStep, Assess, StopBlocked, BeginStage, Route, NextCandidate,
           LadderExhausted, Correct, Checkpoint, SettleAttempt, SettleStage, SettleRun, Integrate,
           Publish, PublishEnd, Step
      <4> QED
        BY <4>1, <4>2
    <3>2. CASE Start(w)
      <4>1. status[on[w]] \notin {"queued", "assessing"}
        BY <1>2, StoppedStatuses
      <4>2. status' = status /\ pc'[w] \in {"return", "read"}
        BY <3>2, <4>1 DEF Start, Step, Inv, TypeOK, WorkerTypeOK
      <4> QED
        BY <1>2, <4>2 DEF AwayPCs
    <3>3. CASE Read(w)
      <4>1. status[on[w]] \notin StageStatuses \cup {"ready_to_integrate", "integrating"}
        BY <1>2, StoppedStatuses
      <4>2. status' = status /\ pc'[w] = "return"
        BY <3>3, <4>1 DEF Read, Step, durable, Inv, TypeOK, WorkerTypeOK
      <4> QED
        BY <1>2, <4>2 DEF AwayPCs
    <3>4. CASE Return(w)
      BY <1>2, <3>4 DEF Return, Step, durable, Inv, TypeOK, WorkerTypeOK, AwayPCs
    <3> QED
      BY <3>1, <3>2, <3>3, <3>4
  <2> QED
    BY <2>2, <2>3
<1> QED
  BY <1>1, <1>2

LEMMA EngineWorkspace ==
  ASSUME Inv, WorkspaceInv, NEW w \in Workers, EngineStep(w)
  PROVE  WorkspaceInv'
<1>1. /\ on[w] \in Runs /\ phase \in {"serving", "stopping"}
      /\ UNCHANGED <<phase, recTodo, on, forced, torn>>
      /\ \A v \in Workers \ {w} : pc'[v] = pc[v] /\ loc'[v] = loc[v]
      /\ \A r \in Runs \ {on[w]} :
           status'[r] = status[r] /\ stages'[r] = stages[r] /\ attempts'[r] = attempts[r]
  BY Locality, AttemptsLocal, EngineStops
<1>2. WorkerOpen(w)'
  BY BeginStageOpen, NewAttemptOpen, CheckpointOpen, SettleAttemptOpen, PlanningOpen, ElsewhereOpen
  DEF EngineStep, WorkspaceInv
<1>3. ASSUME NEW v \in Workers \ {w}
      PROVE  WorkerOpen(v)'
  <2>1. CASE on[v] = NoRun
    <3>1. pc'[v] = "idle"
      BY <1>1, <2>1 DEF Inv, OneExecution
    <3> QED
      BY <3>1, AwayPlaces DEF WorkerOpen
  <2>2. CASE on[v] # NoRun
    <3>1. on[v] \in Runs \ {on[w]}
      BY <2>2 DEF Inv, TypeOK, WorkerTypeOK, OneExecution
    <3>2. Kind(v)' = Kind(v)
      BY <1>1 DEF Kind
    <3> QED
      BY <1>1, <3>1, <3>2 DEF WorkspaceInv, WorkerOpen
  <2> QED
    BY <2>1, <2>2
<1>4. ASSUME NEW r \in Runs, r \in torn \ forced
      PROVE  TornRun(r)'
  <2>1. /\ \A v \in Workers : on[v] = r => pc[v] \in AwayPCs
        /\ status[r] \in Stopped
    BY <1>1, <1>4 DEF WorkspaceInv, TornRun
  <2>2. status'[r] \in Stopped /\ (on[w] = r => pc'[w] \in AwayPCs)
    BY <1>1, <2>1, EngineStops
  <2> QED
    BY <1>1, <2>1, <2>2 DEF TornRun
<1> QED
  BY <1>1, <1>2, <1>3, <1>4 DEF WorkspaceInv, TornRun

-----------------------------------------------------------------------------
(* Steps of the scheduler and of the API.                                   *)

LEMMA OutsideWorkspace ==
  ASSUME Inv, Inv', WorkspaceInv,
         phase \in {"serving", "stopping"}, phase' \in {"serving", "stopping"},
         torn' = torn, forced \subseteq forced',
         \A v \in Workers :
           \/ pc'[v] = pc[v] /\ on'[v] = on[v] /\ loc'[v] = loc[v]
           \/ pc'[v] \in AwayPCs \cup {"idle"},
         \A r \in Runs :
           /\ SameColumns(r)
           /\ \/ status'[r] = status[r] /\ attempts'[r] = attempts[r]
              \/ status'[r] \in Stopped
              \/ r \in forced' \/ (status[r] \notin Stopped /\ attempts'[r] = attempts[r])
  PROVE  WorkspaceInv'
<1>1. ASSUME NEW v \in Workers
      PROVE  WorkerOpen(v)'
  <2>1. CASE pc'[v] \notin OpenPCs
    BY <2>1, AwayPlaces DEF WorkerOpen
  <2>2. CASE pc'[v] \in OpenPCs
    <3>1. pc'[v] = pc[v] /\ on'[v] = on[v] /\ loc'[v] = loc[v]
      BY <2>2, AwayPlaces
    <3>2. on[v] \in Runs
      BY <2>2, <3>1, EngineRun, Places
    <3>3. WorkerOpen(v)
      BY DEF WorkspaceInv
    <3>4. pc'[v] \in AttemptPCs =>
            \/ on[v] \in forced' \/ status'[on[v]] \in Stopped
            \/ loc'[v].att \in Running(attempts'[on[v]])
      BY <3>1, <3>2, <3>3 DEF WorkerOpen
    <3> QED
      BY <2>2, <3>1, <3>2, <3>3, <3>4, SameOpen
  <2> QED
    BY <2>1, <2>2
<1>2. ASSUME NEW r \in Runs, r \in torn' \ forced'
      PROVE  TornRun(r)'
  <2>1. /\ \A v \in Workers : on[v] = r => pc[v] \in AwayPCs
        /\ status[r] \in Stopped
    BY <1>2 DEF WorkspaceInv, TornRun
  <2>2. status'[r] \in Stopped
    BY <1>2, <2>1
  <2>3. ASSUME NEW v \in Workers, on'[v] = r
        PROVE  pc'[v] \in AwayPCs
    <3>1. pc'[v] # "idle"
      BY <2>3, RunsAssumption DEF Inv, OneExecution
    <3> QED
      BY <2>1, <2>3, <3>1
  <2> QED
    BY <2>2, <2>3 DEF TornRun
<1> QED
  BY <1>1, <1>2 DEF WorkspaceInv, TornRun

LEMMA SchedulerWorkspace ==
  ASSUME Inv, Inv', RowInv, WorkspaceInv,
         \/ \E w \in Workers : Register(w) \/ Release(w)
         \/ \E r \in Runs : RunOne(r) \/ TickVisit(r)
         \/ (TickList /\ phase = "serving") \/ Shutdown
  PROVE  WorkspaceInv'
<1>1. /\ phase \in {"serving", "stopping"} /\ phase' \in {"serving", "stopping"}
      /\ UNCHANGED <<stages, attempts, torn, forced>>
  BY DEF Register, Release, RunOne, TickVisit, TickList, Shutdown, durable, history
<1>2. \A v \in Workers :
        \/ pc'[v] = pc[v] /\ on'[v] = on[v] /\ loc'[v] = loc[v]
        \/ pc'[v] \in AwayPCs \cup {"idle"}
  BY DEF Register, Release, RunOne, TickVisit, Claim, TickList, Shutdown, worker, AwayPCs,
     Inv, TypeOK, WorkerTypeOK
<1>3. \A s \in Runs : status'[s] = status[s] \/ status'[s] = "blocked"
  <2>1. status' = status \/ \E r \in Runs : status' = [status EXCEPT ![r] = "blocked"]
    BY DEF Register, Release, RunOne, TickVisit, TickList, Shutdown, durable
  <2> QED
    BY <2>1 DEF Inv, TypeOK, DurableTypeOK
<1> QED
  BY <1>1, <1>2, <1>3, StoppedStatuses, Unchanged, OutsideWorkspace

LEMMA ApiWorkspace ==
  ASSUME Inv, Inv', WorkspaceInv, NEW r \in Runs, ApiStep(r)
  PROVE  WorkspaceInv'
<1>1. /\ phase \in {"serving", "stopping"} /\ phase' \in {"serving", "stopping"}
      /\ UNCHANGED <<pc, on, loc, torn>> /\ forced \subseteq forced'
  BY DEF ApiStep, Submit, CancelSignal, CancelCommit, ManualIntegrate, worker, durable, history
<1>2. CASE Submit(r) \/ ManualIntegrate(r)
  <2>1. /\ UNCHANGED <<stages, attempts>>
        /\ \E x : status' = [status EXCEPT ![r] = x]
        /\ status[r] = "absent" \/ r \in forced'
    BY <1>2 DEF Submit, ManualIntegrate, Enqueue
  <2>2. \A s \in Runs \ {r} : status'[s] = status[s]
    BY <2>1 DEF Inv, TypeOK, DurableTypeOK
  <2> QED
    BY <1>1, <2>1, <2>2, StoppedStatuses, Unchanged, OutsideWorkspace
<1>3. CASE CancelSignal(r)
  BY <1>1, <1>3, Unchanged, OutsideWorkspace DEF CancelSignal, durable
<1>4. CASE CancelCommit(r)
  <2>1. CancelRun(r) \/ UNCHANGED <<status, stages, attempts>>
    BY <1>4 DEF CancelCommit
  <2>2. \A s \in Runs : SameColumns(s)
    BY <2>1, CancelColumns, Unchanged
  <2>3. \A s \in Runs :
          (status'[s] = status[s] /\ attempts'[s] = attempts[s]) \/ status'[s] \in Stopped
    BY <2>1, CancelCloses, StoppedStatuses
  <2> QED
    BY <1>1, <2>2, <2>3, OutsideWorkspace
<1> QED
  BY <1>2, <1>3, <1>4 DEF ApiStep

-----------------------------------------------------------------------------
(* The process, and recovery: nobody executes anything.                     *)

LEMMA NobodyWorks ==
  ASSUME Inv', \A w \in Workers : pc'[w] = "idle",
         \A r \in Runs : r \in torn' \ forced' =>
           \/ status'[r] \in Stopped
           \/ phase' \in {"down", "terminals"} /\ OpenWrite(r)'
           \/ phase' = "active" /\ r \in recTodo' /\ (OpenWrite(r)' \/ recBlock' = r)
  PROVE  WorkspaceInv'
<1>1. \A w \in Workers : on'[w] \notin Runs
  BY RunsAssumption DEF Inv, OneExecution
<1> QED
  BY <1>1, AwayPlaces DEF WorkspaceInv, WorkerOpen, TornRun

(* What a crash tears has its attempt open, or was stopped meanwhile.       *)
LEMMA TornAttempt ==
  ASSUME Inv, RowInv, WorkspaceInv, NEW r \in Runs, Writing(r), r \notin forced
  PROVE  status[r] \in Stopped \/ OpenWrite(r)
<1>1. PICK w \in Workers : /\ on[w] = r /\ pc[w] \in {"exec", "settleAttempt"}
                           /\ Kind(w) \in WriteKinds
  BY DEF Writing
<1>2. pc[w] \in AttemptPCs /\ pc[w] \in OpenPCs
  BY <1>1 DEF AttemptPCs, OpenPCs
<1>3. WorkerRows(w) /\ WorkerOpen(w)
  BY DEF RowInv, WorkspaceInv
<1>4. /\ stages[r][loc[w].stage].kind = Kind(w) /\ attempts[r][loc[w].att].stage = loc[w].stage
      /\ status[r] \in Stopped \/ loc[w].att \in Running(attempts[r])
  BY <1>1, <1>2, <1>3 DEF WorkerRows, WorkerOpen
<1> QED
  BY <1>1, <1>4 DEF OpenWrite

LEMMA ExitWorkspace ==
  ASSUME Inv, Inv', RowInv, WorkspaceInv, GapFree, StopDone \/ Crash
  PROVE  WorkspaceInv'
<1>1. /\ phase' = "down" /\ UNCHANGED <<status, stages, attempts, forced>>
      /\ \A w \in Workers : pc'[w] = "idle"
  BY DEF StopDone, Crash, Exit, history
<1>2. \A r \in Runs : OpenWrite(r)' <=> OpenWrite(r)
  BY <1>1 DEF OpenWrite
<1>3. ASSUME NEW r \in Runs, r \in torn \ forced
      PROVE  status[r] \in Stopped \/ OpenWrite(r)
  <2>1. TornRun(r)
    BY DEF WorkspaceInv
  <2>2. CASE Crash
    <3>1. recBlock # r
      BY <1>3, <2>2 DEF GapFree
    <3> QED
      BY <1>3, <2>1, <3>1 DEF TornRun
  <2>3. CASE StopDone
    BY <1>3, <2>1, <2>3 DEF StopDone, TornRun
  <2> QED
    BY <2>2, <2>3
<1>4. ASSUME NEW r \in Runs, r \in torn' \ torn, r \notin forced
      PROVE  status[r] \in Stopped \/ OpenWrite(r)
  <2>1. Writing(r)
    BY <1>4 DEF StopDone, Crash
  <2> QED
    BY <1>4, <2>1, TornAttempt
<1> QED
  BY <1>1, <1>2, <1>3, <1>4, NobodyWorks

LEMMA StartupWorkspace ==
  ASSUME Inv, Inv', RowInv, WorkspaceInv, Restart \/ NextPhase
  PROVE  WorkspaceInv'
<1>1. /\ UNCHANGED <<status, stages, attempts, torn, forced, pc, recBlock>>
      /\ phase \in {"down", "terminals", "active", "journals"}
      /\ \A w \in Workers : pc[w] = "idle"
  BY DEF Restart, NextPhase, durable, worker, history, RowInv, RecoveryOK
<1>2. \A r \in Runs : OpenWrite(r)' <=> OpenWrite(r)
  BY <1>1 DEF OpenWrite
<1>3. ASSUME NEW r \in Runs, r \in torn \ forced, status[r] \notin Stopped
      PROVE  \/ phase' \in {"down", "terminals"} /\ OpenWrite(r)
             \/ phase' = "active" /\ r \in recTodo' /\ OpenWrite(r)
  <2>1. TornRun(r) /\ RunRows(r)
    BY DEF WorkspaceInv, RowInv
  <2>2. CASE Restart
    BY <1>3, <2>1, <2>2 DEF Restart, TornRun
  <2>3. CASE NextPhase
    <3>1. phase = "terminals" /\ OpenWrite(r)
      BY <1>1, <1>3, <2>1, <2>3 DEF NextPhase, TornRun
    <3>2. status[r] # "absent"
      BY <2>1, <3>1 DEF RunRows, Unborn, AllClosed, OpenWrite
    <3>3. status[r] \notin {"absent"} \cup Terminal
      BY <1>3, <3>2, StoppedStatuses
    <3>4. phase' = "active" /\ recTodo' = Recoverable
      BY <2>3, <3>1 DEF NextPhase
    <3> QED
      BY <3>1, <3>3, <3>4 DEF Recoverable
  <2> QED
    BY <2>2, <2>3
<1> QED
  BY <1>1, <1>2, <1>3, NobodyWorks

(* What one step of recovery does to a torn run r.                          *)
LEMMA RecoveredWorkspace ==
  ASSUME Inv, RowInv, WorkspaceInv, NEW s \in Runs, RecoveryStep(s),
         NEW r \in Runs, r \in torn' \ forced
  PROVE  \/ status'[r] \in Stopped
         \/ phase' \in {"down", "terminals"} /\ OpenWrite(r)'
         \/ phase' = "active" /\ r \in recTodo' /\ (OpenWrite(r)' \/ recBlock' = r)
<1>1. TornRun(r) /\ RunRows(r) /\ RecoveryOK
  BY DEF WorkspaceInv, RowInv
<1>2. CASE RecoverTerminal(s)
  <2>1. phase = "terminals" /\ phase' = phase /\ torn' = torn /\ status' = status
        /\ s \in recTodo
    BY <1>2 DEF RecoverTerminal
  <2>2. s = r => status[r] \in Stopped
    BY <1>1, <2>1, StoppedStatuses DEF RecoveryOK
  <2>3. s # r => stages'[r] = stages[r] /\ attempts'[r] = attempts[r]
    BY <1>2, Tables DEF RecoverTerminal
  <2> QED
    BY <1>1, <2>1, <2>2, <2>3 DEF TornRun, OpenWrite
<1>3. CASE RecoverAttempt(s)
  <2>1. PICK i \in Running(attempts[s]), restored \in BOOLEAN :
          /\ \A j \in Running(attempts[s]) : i <= j
          /\ attempts' = [attempts EXCEPT ![s][i].status = "interrupted"]
          /\ torn' = IF restored THEN torn \ {s} ELSE torn
          /\ recBlock' = IF stages[s][attempts[s][i].stage].kind \in WriteKinds /\ ~restored
                         THEN s ELSE NoRun
    BY <1>3 DEF RecoverAttempt
  <2>2. /\ phase = "active" /\ phase' = phase /\ UNCHANGED <<status, stages, recTodo>>
        /\ s \in recTodo /\ recBlock = NoRun
    BY <1>3 DEF RecoverAttempt
  <2>3. CASE s = r
    <3>1. torn' = torn /\ ~restored
      BY <2>1, <2>3
    <3>2. status[r] \in Stopped \/ OpenWrite(r)
      BY <1>1, <2>2, <3>1, RunsAssumption DEF TornRun
    <3>3. ASSUME OpenWrite(r)
          PROVE  recBlock' = r
      <4>1. PICK k \in Running(attempts[r]) : stages[r][attempts[r][k].stage].kind \in WriteKinds
        BY <3>3 DEF OpenWrite
      <4>2. i = k
        BY <1>1, <2>1, <2>3, <4>1 DEF RunRows, LastOpen
      <4> QED
        BY <2>1, <2>3, <3>1, <4>1, <4>2
    <3> QED
      BY <2>2, <2>3, <3>2, <3>3
  <2>4. CASE s # r
    <3>1. r \in torn
      BY <2>1
    <3>2. stages'[r] = stages[r] /\ attempts'[r] = attempts[r]
      BY <2>1, <2>2, <2>4, Tables
    <3> QED
      BY <1>1, <2>2, <3>1, <3>2, RunsAssumption DEF TornRun, OpenWrite
  <2> QED
    BY <2>3, <2>4
<1>4. CASE RecoverBlock(s)
  <2>1. /\ phase = "active" /\ UNCHANGED <<phase, stages, attempts, torn, recTodo>>
        /\ recBlock = s /\ status' = [status EXCEPT ![s] = "blocked"]
    BY <1>4 DEF RecoverBlock
  <2>2. s = r => status'[r] = "blocked"
    BY <2>1, Tables
  <2>3. s # r => status'[r] = status[r]
    BY <2>1, Tables
  <2> QED
    BY <1>1, <2>1, <2>2, <2>3, StoppedStatuses DEF TornRun, OpenWrite
<1>5. CASE RecoverStages(s)
  <2>1. /\ phase = "active" /\ UNCHANGED <<phase, status, attempts, torn, recBlock>>
        /\ recTodo' = recTodo \ {s} /\ Running(attempts[s]) = {} /\ recBlock = NoRun
    BY <1>5 DEF RecoverStages
  <2>2. s = r => status[r] \in Stopped
    BY <1>1, <2>1, RunsAssumption DEF TornRun, OpenWrite
  <2>3. s # r => stages'[r] = stages[r]
    BY <1>5, Tables DEF RecoverStages
  <2> QED
    BY <1>1, <2>1, <2>2, <2>3 DEF TornRun, OpenWrite
<1>6. CASE RecoverJournal(s)
  <2>1. /\ phase = "journals" /\ torn' = torn
        /\ \/ status' = status
           \/ \E x \in {"complete", "integration_blocked"} : status' = [status EXCEPT ![s] = x]
    BY <1>6 DEF RecoverJournal
  <2>2. status[r] \in Stopped
    BY <1>1, <2>1 DEF TornRun
  <2> QED
    BY <2>1, <2>2, Tables, StoppedStatuses
<1> QED
  BY <1>2, <1>3, <1>4, <1>5, <1>6 DEF RecoveryStep

LEMMA RecoveryWorkspace ==
  ASSUME Inv, Inv', RowInv, WorkspaceInv, NEW s \in Runs, RecoveryStep(s)
  PROVE  WorkspaceInv'
<1>1. /\ phase \in {"terminals", "active", "journals"} /\ pc' = pc /\ forced' = forced
  BY DEF RecoveryStep, RecoverTerminal, RecoverAttempt, RecoverBlock, RecoverStages, RecoverJournal,
     worker, history
<1>2. \A w \in Workers : pc[w] = "idle"
  BY <1>1 DEF RowInv, RecoveryOK
<1> QED
  BY <1>1, <1>2, RecoveredWorkspace, NobodyWorks

-----------------------------------------------------------------------------
LEMMA InitWorkspace == Init => WorkspaceInv
<1> SUFFICES ASSUME Init PROVE WorkspaceInv
  OBVIOUS
<1>1. torn = {} /\ \A w \in Workers : pc[w] = "idle"
  BY DEF Init
<1> QED
  BY <1>1, AwayPlaces DEF WorkspaceInv, WorkerOpen, TornRun

LEMMA StillWorkspace ==
  ASSUME WorkspaceInv,
         UNCHANGED <<status, stages, attempts, torn, phase, recTodo, recBlock, pc, on, loc, forced>>
  PROVE  WorkspaceInv'
<1>1. \A w \in Workers : WorkerOpen(w)' <=> WorkerOpen(w)
  BY DEF WorkerOpen, Kind
<1>2. \A r \in Runs : TornRun(r)' <=> TornRun(r)
  BY DEF TornRun, OpenWrite
<1> QED
  BY <1>1, <1>2 DEF WorkspaceInv

LEMMA NextWorkspace ==
  ASSUME Inv, Inv', RowInv, WorkspaceInv, GapFree \/ UNCHANGED vars, [Next]_vars
  PROVE  WorkspaceInv'
<1>1. CASE UNCHANGED vars
  BY <1>1, StillWorkspace DEF vars, durable, recovery, worker, history
<1>2. CASE DiskChange
  BY <1>2, StillWorkspace DEF DiskChange, durable, recovery, worker, history
<1>3. CASE TickList
  BY <1>3, SchedulerWorkspace DEF TickList
<1>4. CASE GapFree /\ (StopDone \/ Crash)
  BY <1>4, ExitWorkspace
<1>5. CASE \/ \E w \in Workers : WorkerStep(w)
           \/ \E r \in Runs : RunOne(r) \/ TickVisit(r)
           \/ Shutdown
  BY <1>5, EngineWorkspace, SchedulerWorkspace DEF WorkerStep
<1>6. CASE \E r \in Runs : ApiStep(r) \/ RecoveryStep(r)
  BY <1>6, ApiWorkspace, RecoveryWorkspace
<1>7. CASE Restart \/ NextPhase
  BY <1>7, StartupWorkspace
<1> QED
  BY <1>1, <1>2, <1>3, <1>4, <1>5, <1>6, <1>7 DEF Next

LEMMA AwayFromTorn == WorkspaceInv /\ Inv => NoTornResume
<1> SUFFICES ASSUME WorkspaceInv, Inv, NEW w \in Workers,
                    pc[w] \in {"attempt", "checkpoint", "exec", "publish"}
             PROVE  on[w] \notin torn \ forced
  BY DEF NoTornResume
<1>1. on[w] \in Runs
  BY EngineRun DEF EnginePCs
<1> QED
  BY <1>1, AwayPlaces DEF WorkspaceInv, TornRun

(* However many times the server crashes, no stage starts and nothing is    *)
(* published on a workspace that holds the writes of an interrupted attempt *)
(* (recovery.go:181-185), provided that no crash falls between recovery's   *)
(* marking the attempt and its blocking the run.                            *)
THEOREM NoResumeOutsideGap == Spec /\ [][GapFree]_vars => []NoTornResume
<1>1. Inv /\ Inv' /\ RowInv /\ WorkspaceInv /\ [Next]_vars /\ [GapFree]_vars => WorkspaceInv'
  BY NextWorkspace
<1> QED
  BY <1>1, InitWorkspace, AwayFromTorn, RowsHold, PTL DEF Spec

-----------------------------------------------------------------------------
(* A workspace is torn by a crash, so that the gap takes a second one.      *)
CrashCounted == torn = {} \/ used.crashes >= 1

LEMMA OnlyCrashTears ==
  ASSUME Inv, [Next]_vars, ~Crash
  PROVE  torn' \subseteq torn /\ used'.crashes = used.crashes
<1>1. ASSUME NEW w \in Workers, EngineStep(w)
      PROVE  torn' = torn /\ used' = used
  <2>1. CASE ObserveCancel(w)
    BY <2>1 DEF ObserveCancel
  <2>2. CASE ~ObserveCancel(w)
    BY <1>1, <2>2, EngineMoves, EngineStops DEF Step
  <2> QED
    BY <2>1, <2>2
<1>2. CASE \/ UNCHANGED vars \/ \E w \in Workers : Register(w) \/ Release(w)
           \/ \E r \in Runs : RunOne(r) \/ TickVisit(r)
           \/ TickList \/ DiskChange
  BY <1>2 DEF Register, Release, RunOne, TickVisit, TickList, DiskChange, vars, durable
<1>3. CASE \E r \in Runs : ApiStep(r)
  BY <1>3 DEF ApiStep, Submit, CancelSignal, CancelCommit, ManualIntegrate, durable,
     Inv, TypeOK, OutsideTypeOK
<1>4. CASE \E r \in Runs : RecoveryStep(r)
  BY <1>4 DEF RecoveryStep, RecoverTerminal, RecoverAttempt, RecoverBlock, RecoverStages,
     RecoverJournal
<1>5. CASE Shutdown \/ StopDone \/ Restart \/ NextPhase
  BY <1>5 DEF Shutdown, StopDone, Restart, NextPhase, durable, Inv, TypeOK, OutsideTypeOK
<1> QED
  BY <1>1, <1>2, <1>3, <1>4, <1>5 DEF Next, WorkerStep

LEMMA CrashesCounted == Spec => [](Inv /\ CrashCounted)
<1>1. Init => CrashCounted
  BY DEF Init, CrashCounted
<1>2. ASSUME Inv, CrashCounted, [Next]_vars
      PROVE  CrashCounted'
  <2>1. used.crashes \in Nat
    BY <1>2 DEF Inv, TypeOK, OutsideTypeOK
  <2>2. CASE Crash
    <3>1. used'.crashes = used.crashes + 1
      BY <1>2, <2>2 DEF Crash, Inv, TypeOK, OutsideTypeOK
    <3> QED
      BY <2>1, <3>1 DEF CrashCounted
  <2>3. CASE ~Crash
    BY <1>2, <2>3, OnlyCrashTears DEF CrashCounted
  <2> QED
    BY <2>2, <2>3
<1> QED
  BY <1>1, <1>2, InvHolds, PTL DEF Spec

(* No run resumes on a torn workspace while the server crashes at most      *)
(* once, wherever that crash falls, recovery included.                      *)
THEOREM NoResumeOnTorn ==
  ASSUME MaxCrashes <= 1
  PROVE  Spec => []NoTornResume
<1>1. Inv /\ CrashCounted /\ [Next]_vars => [GapFree]_vars
  BY BoundsAssumption DEF GapFree, Crash, CrashCounted, Inv, TypeOK, OutsideTypeOK
<1>2. Spec => [][GapFree]_vars
  BY <1>1, CrashesCounted, PTL DEF Spec
<1> QED
  BY <1>2, NoResumeOutsideGap, PTL

=============================================================================
