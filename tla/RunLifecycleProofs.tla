-------------------------- MODULE RunLifecycleProofs ------------------------
(***************************************************************************)
(* Theorems about RunLifecycle for every set of runs and of goroutines and *)
(* for all budgets.                                                        *)
(***************************************************************************)
EXTENDS RunLifecycle, TLAPS

StagePCs == {"begin", "route", "attempt", "correct", "checkpoint", "exec",
             "settleAttempt", "settleStage", "settleRun"}

(* What runStage's locals hold where they are used: the loop read a stage's *)
(* status before it entered runStage, and the plan names a status for each  *)
(* row that is about to be closed.                                          *)
LocalsOK ==
  \A w \in Workers :
    /\ pc[w] \in StagePCs => loc[w].seen \in StageStatuses
    /\ pc[w] = "settleAttempt" => loc[w].plan.att # "keep"
    /\ pc[w] = "settleStage" => loc[w].plan.stage # "keep"

Inv == TypeOK /\ OneExecution /\ LocalsOK

-----------------------------------------------------------------------------
(* Rows                                                                     *)

LEMMA FunctionIsSeq ==
  ASSUME NEW S, NEW n \in Nat, NEW f \in [1..n -> S]
  PROVE  f \in Seq(S) /\ Len(f) = n
  OBVIOUS

LEMMA StatusOfRow ==
  ASSUME NEW s \in AttemptStatuses
  PROVE  /\ \A x \in Stage : [x EXCEPT !.status = s] \in Stage
         /\ \A x \in Attempt : [x EXCEPT !.status = s] \in Attempt
  BY DEF Stage, Attempt

LEMMA MarkRow ==
  ASSUME NEW R, NEW rows \in Seq(R), NEW i, NEW s,
         \A x \in R : [x EXCEPT !.status = s] \in R
  PROVE  /\ [rows EXCEPT ![i].status = s] \in Seq(R)
         /\ Len([rows EXCEPT ![i].status = s]) = Len(rows)
<1>1. Len(rows) \in Nat /\ rows \in [1..Len(rows) -> R]
  OBVIOUS
<1>2. [rows EXCEPT ![i].status = s] \in [1..Len(rows) -> R]
  BY <1>1
<1> QED
  BY <1>1, <1>2, FunctionIsSeq

LEMMA CloseRows ==
  ASSUME NEW R, NEW rows \in Seq(R), NEW s,
         \A x \in R : [x EXCEPT !.status = s] \in R
  PROVE  /\ CloseRunning(rows, s) \in Seq(R)
         /\ Len(CloseRunning(rows, s)) = Len(rows)
<1>1. Len(rows) \in Nat /\ rows \in [1..Len(rows) -> R]
  OBVIOUS
<1>2. CloseRunning(rows, s) \in [1..Len(rows) -> R]
  BY <1>1 DEF CloseRunning
<1> QED
  BY <1>1, <1>2, FunctionIsSeq

-----------------------------------------------------------------------------
LEMMA InitInv == Init => Inv
<1> SUFFICES ASSUME Init PROVE Inv
  OBVIOUS
<1>1. NoLocals \in Locals
  BY DEF NoLocals, Locals, NoPlan, Plans, RunStatuses
<1>2. DurableTypeOK
  BY DEF Init, DurableTypeOK, RunStatuses
<1>3. ServerTypeOK
  BY DEF Init, ServerTypeOK, NoTick
<1>4. WorkerTypeOK
  BY <1>1 DEF Init, WorkerTypeOK, PCs
<1>5. OutsideTypeOK
  BY DEF Init, OutsideTypeOK
<1>6. OneExecution
  BY DEF Init, OneExecution
<1>7. LocalsOK
  BY DEF Init, LocalsOK, StagePCs
<1> QED
  BY <1>2, <1>3, <1>4, <1>5, <1>6, <1>7 DEF Inv, TypeOK

-----------------------------------------------------------------------------
(* Steps of the engine                                                      *)

LEMMA EngineRun ==
  ASSUME Inv, NEW w \in Workers, pc[w] \in EnginePCs
  PROVE  on[w] \in Runs /\ loc[w] \in Locals
  BY DEF Inv, TypeOK, WorkerTypeOK, OneExecution, EnginePCs

(* A step of the engine preserves the invariant if what it writes to the    *)
(* tables is well formed and its new locals are fit for where it goes.      *)
LEMMA EngineFrame ==
  ASSUME Inv, NEW w \in Workers, NEW p \in EnginePCs, NEW q \in PCs \ {"idle"}, Step(w, p, q),
         NEW l \in Locals, loc' = [loc EXCEPT ![w] = l],
         q \in StagePCs => l.seen \in StageStatuses,
         q = "settleAttempt" => l.plan.att # "keep",
         q = "settleStage" => l.plan.stage # "keep",
         DurableTypeOK'
  PROVE  Inv'
<1>1. ServerTypeOK' /\ OutsideTypeOK'
  BY DEF Step, Inv, TypeOK, ServerTypeOK, OutsideTypeOK, recovery, scheduler, history
<1>2. WorkerTypeOK'
  BY DEF Step, Inv, TypeOK, WorkerTypeOK
<1>3. pc[w] # "idle" /\ pc'[w] # "idle" /\ on' = on /\ inflight' = inflight
      /\ \A v \in Workers \ {w} : pc'[v] = pc[v]
  BY DEF Step, Inv, TypeOK, WorkerTypeOK, EnginePCs, scheduler
<1>4. OneExecution'
  BY <1>3 DEF Inv, OneExecution
<1>5. LocalsOK'
  BY DEF Step, Inv, TypeOK, WorkerTypeOK, LocalsOK
<1> QED
  BY <1>1, <1>2, <1>4, <1>5 DEF Inv, TypeOK

(* The same for a step that leaves runStage, or never was in it.            *)
OutPCs == {"assess", "read", "integrate", "publish", "publishing", "return", "release"}

LEMMA EngineLeaves ==
  ASSUME Inv, NEW w \in Workers, NEW p \in EnginePCs, NEW q \in OutPCs, Step(w, p, q),
         NEW l \in Locals, loc' = [loc EXCEPT ![w] = l], DurableTypeOK'
  PROVE  Inv'
<1>1. q \in PCs \ {"idle"} /\ q \notin StagePCs
  BY DEF OutPCs, PCs, EnginePCs, StagePCs
<1> QED
  BY <1>1, EngineFrame DEF StagePCs

LEMMA SameLocals ==
  ASSUME Inv, NEW w \in Workers, UNCHANGED loc
  PROVE  loc' = [loc EXCEPT ![w] = loc[w]] /\ loc[w] \in Locals
  BY DEF Inv, TypeOK, WorkerTypeOK

(* A plan is put into the locals.                                           *)
LEMMA SetPlan ==
  ASSUME Inv, NEW w \in Workers, NEW x \in Plans, loc' = [loc EXCEPT ![w].plan = x]
  PROVE  \E l \in Locals : loc' = [loc EXCEPT ![w] = l] /\ l.plan = x /\ l.seen = loc[w].seen
<1> DEFINE l == [loc[w] EXCEPT !.plan = x]
<1>1. l \in Locals /\ l.plan = x /\ l.seen = loc[w].seen
  BY DEF Locals, Inv, TypeOK, WorkerTypeOK
<1>2. loc' = [loc EXCEPT ![w] = l]
  BY DEF Inv, TypeOK, WorkerTypeOK
<1> QED
  BY <1>1, <1>2

LEMMA StatusWrite ==
  ASSUME Inv, NEW r \in Runs, NEW s \in RunStatuses,
         status' = [status EXCEPT ![r] = s] \/ status' = status,
         UNCHANGED <<stages, attempts, val, journal, torn>>
  PROVE  DurableTypeOK'
  BY DEF Inv, TypeOK, DurableTypeOK

LEMMA NothingWritten ==
  ASSUME Inv, UNCHANGED durable
  PROVE  DurableTypeOK'
  BY DEF Inv, TypeOK, DurableTypeOK, durable

LEMMA SetAo ==
  ASSUME NEW l \in Locals, NEW b \in BOOLEAN
  PROVE  [l EXCEPT !.ao = b] \in Locals
  BY DEF Locals

LEMMA NoLocalsOK == NoLocals \in Locals
  BY DEF NoLocals, Locals, NoPlan, Plans, RunStatuses

LEMMA StartInv ==
  ASSUME Inv, NEW w \in Workers, Start(w)
  PROVE  Inv'
<1>1. pc[w] = "start" /\ on[w] \in Runs
  BY EngineRun DEF Start, Step, EnginePCs
<1>2. DurableTypeOK'
  BY <1>1, StatusWrite DEF Start, RunStatuses
<1> DEFINE b == on[w] \in ArtifactOnlyRuns
<1>3. b \in BOOLEAN /\ loc' = [loc EXCEPT ![w] = [NoLocals EXCEPT !.ao = b]]
  <2>1. b \in BOOLEAN
    OBVIOUS
  <2>2. loc' = [loc EXCEPT ![w] = [NoLocals EXCEPT !.ao = b]]
    BY DEF Start
  <2> QED
    BY <2>1, <2>2
<1> HIDE DEF b
<1>4. PICK l \in Locals : loc' = [loc EXCEPT ![w] = l]
  BY <1>3, SetAo, NoLocalsOK
<1>5. PICK q \in {"return", "assess", "read"} : Step(w, "start", q)
  BY DEF Start
<1> QED
  BY <1>2, <1>4, <1>5, EngineLeaves DEF EnginePCs, OutPCs

LEMMA AssessInv ==
  ASSUME Inv, NEW w \in Workers, Assess(w)
  PROVE  Inv'
<1>1. PICK next \in {"planning", "exploring"}, ao \in BOOLEAN :
        /\ Step(w, "assess", IF status[on[w]] = "assessing" THEN "read" ELSE "return")
        /\ status' = IF status[on[w]] = "assessing" THEN [status EXCEPT ![on[w]] = next] ELSE status
        /\ loc' = [loc EXCEPT ![w].ao = @ \/ ao]
        /\ UNCHANGED <<stages, attempts, val, journal, torn>>
  BY DEF Assess
<1>2. on[w] \in Runs /\ loc[w] \in Locals
  BY <1>1, EngineRun DEF Step, EnginePCs
<1>3. DurableTypeOK'
  BY <1>1, <1>2, StatusWrite DEF RunStatuses, StageStatuses
<1>4. PICK b \in BOOLEAN : loc' = [loc EXCEPT ![w] = [loc[w] EXCEPT !.ao = b]]
  BY <1>1, Zenon
<1>5. PICK l \in Locals : loc' = [loc EXCEPT ![w] = l]
  BY <1>2, <1>4, SetAo
<1>6. PICK q \in {"return", "read"} : Step(w, "assess", q)
  BY <1>1
<1> QED
  BY <1>3, <1>5, <1>6, EngineLeaves DEF EnginePCs, OutPCs

LEMMA ReadInv ==
  ASSUME Inv, NEW w \in Workers, Read(w)
  PROVE  Inv'
<1> DEFINE r == on[w]
           l == [NoLocals EXCEPT !.ao = loc[w].ao, !.seen = status[r]]
<1>1. r \in Runs /\ loc[w] \in Locals
  BY EngineRun DEF Read, Step, EnginePCs
<1>2. status[r] \in RunStatuses
  BY <1>1 DEF Inv, TypeOK, DurableTypeOK
<1>3. l \in Locals
  BY <1>1, <1>2 DEF NoLocals, Locals, NoPlan, Plans, RunStatuses
<1>4. PICK q \in {"begin", "integrate", "return"} :
        Step(w, "read", q) /\ (q = "begin" => status[r] \in StageStatuses)
  BY DEF Read
<1>5. DurableTypeOK' /\ loc' = [loc EXCEPT ![w] = l]
  BY NothingWritten DEF Read
<1>6. q \in StagePCs => l.seen \in StageStatuses
  BY <1>4 DEF StagePCs, NoLocals
<1> QED
  BY <1>3, <1>4, <1>5, <1>6, EngineFrame DEF PCs, EnginePCs

LEMMA StopBlockedInv ==
  ASSUME Inv, NEW w \in Workers, StopBlocked(w)
  PROVE  Inv'
<1>1. Step(w, "begin", "read") /\ on[w] \in Runs /\ loc[w] \in Locals
  BY EngineRun DEF StopBlocked, Step, EnginePCs
<1>2. DurableTypeOK'
  <2>1. CloseRunning(stages[on[w]], "interrupted") \in Seq(Stage)
    BY <1>1, CloseRows, StatusOfRow DEF Inv, TypeOK, DurableTypeOK, AttemptStatuses
  <2> QED
    BY <1>1, <2>1 DEF StopBlocked, Inv, TypeOK, DurableTypeOK, RunStatuses, Halted
<1>3. PICK l \in Locals : loc' = [loc EXCEPT ![w] = l]
  BY SameLocals DEF StopBlocked
<1>4. PICK p \in EnginePCs, q \in OutPCs : Step(w, p, q)
  BY <1>1 DEF EnginePCs, OutPCs
<1> QED
  BY <1>2, <1>3, <1>4, EngineLeaves

LEMMA StageKind ==
  ASSUME Inv, NEW w \in Workers, pc[w] \in StagePCs
  PROVE  Kind(w) \in Kinds
  BY DEF Inv, LocalsOK, Kind, Kinds, StageForStatus, StageStatuses

LEMMA BeginStageInv ==
  ASSUME Inv, NEW w \in Workers, BeginStage(w)
  PROVE  Inv'
<1>1. PICK q \in {"attempt", "route"} : Step(w, "begin", q)
  BY DEF BeginStage
<1>2. on[w] \in Runs /\ loc[w] \in Locals /\ pc[w] \in StagePCs
  BY <1>1, EngineRun DEF Step, EnginePCs, StagePCs
<1>3. DurableTypeOK'
  <2>1. [kind |-> Kind(w), status |-> "running"] \in Stage
    BY <1>2, StageKind DEF Stage, AttemptStatuses
  <2>2. Append(stages[on[w]], [kind |-> Kind(w), status |-> "running"]) \in Seq(Stage)
    BY <1>2, <2>1 DEF Inv, TypeOK, DurableTypeOK
  <2> QED
    BY <1>2, <2>2 DEF BeginStage, Inv, TypeOK, DurableTypeOK
<1>4. PICK l \in Locals : loc' = [loc EXCEPT ![w] = l] /\ l.seen = loc[w].seen
  <2>1. PICK n \in Nat : n = Len(stages[on[w]]) + 1
    BY <1>2 DEF Inv, TypeOK, DurableTypeOK
  <2> DEFINE l == [loc[w] EXCEPT !.stage = n, !.left = 1]
  <2>2. l \in Locals /\ l.seen = loc[w].seen
    BY <1>2 DEF Locals
  <2>3. loc' = [loc EXCEPT ![w] = l]
    BY <2>1 DEF BeginStage, Inv, TypeOK, WorkerTypeOK
  <2> QED
    BY <2>2, <2>3
<1>5. l.seen \in StageStatuses
  BY <1>2, <1>4 DEF Inv, LocalsOK
<1>6. "begin" \in EnginePCs /\ q \in PCs \ {"idle"} /\ q \notin {"settleAttempt", "settleStage"}
  BY DEF EnginePCs, PCs
<1> QED
  BY <1>1, <1>3, <1>4, <1>5, <1>6, EngineFrame

(* A step inside runStage that keeps what the loop read.                    *)
LEMMA EngineStays ==
  ASSUME Inv, NEW w \in Workers, NEW p \in StagePCs, NEW q \in StagePCs, Step(w, p, q),
         NEW l \in Locals, loc' = [loc EXCEPT ![w] = l], l.seen = loc[w].seen,
         q = "settleAttempt" => l.plan.att # "keep",
         q = "settleStage" => l.plan.stage # "keep",
         DurableTypeOK'
  PROVE  Inv'
<1>1. loc[w].seen \in StageStatuses
  BY DEF Inv, LocalsOK, Step
<1>2. p \in EnginePCs /\ q \in PCs \ {"idle"}
  BY DEF StagePCs, PCs, EnginePCs
<1> QED
  BY <1>1, <1>2, EngineFrame

LEMMA RouteInv ==
  ASSUME Inv, NEW w \in Workers, Route(w)
  PROVE  Inv'
<1>1. DurableTypeOK'
  BY NothingWritten DEF Route
<1>2. CASE \E n \in 1..MaxCandidates :
             Step(w, "route", "attempt") /\ loc' = [loc EXCEPT ![w].left = n]
  <2>1. PICK n \in 1..MaxCandidates :
          Step(w, "route", "attempt") /\ loc' = [loc EXCEPT ![w].left = n]
    BY <1>2
  <2>2. PICK l \in Locals : loc' = [loc EXCEPT ![w] = l] /\ l.seen = loc[w].seen
    <3> DEFINE l == [loc[w] EXCEPT !.left = n]
    <3>1. l \in Locals /\ l.seen = loc[w].seen
      BY BoundsAssumption DEF Inv, TypeOK, WorkerTypeOK, Locals
    <3>2. loc' = [loc EXCEPT ![w] = l]
      BY <2>1 DEF Inv, TypeOK, WorkerTypeOK
    <3> QED
      BY <3>1, <3>2
  <2>3. PICK p \in StagePCs, q \in StagePCs : Step(w, p, q) /\ q = "attempt"
    BY <2>1 DEF StagePCs
  <2> QED
    BY <1>1, <2>2, <2>3, EngineStays
<1>3. CASE \E to \in {"blocked", "failed"} :
             /\ Step(w, "route", "settleStage")
             /\ loc' = [loc EXCEPT ![w].plan = Plan("keep", "failed", "set", to)]
  <2>1. PICK x \in Plans : x.stage # "keep" /\ loc' = [loc EXCEPT ![w].plan = x]
    BY <1>3 DEF Plan, Plans, AttemptStatuses, RunStatuses, Halted, Terminal
  <2>2. PICK l \in Locals : loc' = [loc EXCEPT ![w] = l] /\ l.plan = x /\ l.seen = loc[w].seen
    BY <2>1, SetPlan
  <2>3. PICK p \in StagePCs, q \in StagePCs : Step(w, p, q) /\ q = "settleStage"
    BY <1>3 DEF StagePCs
  <2>4. l.plan.stage # "keep" /\ q # "settleAttempt"
    BY <2>1, <2>2, <2>3
  <2> QED
    BY <1>1, <2>2, <2>3, <2>4, EngineStays
<1> QED
  BY <1>2, <1>3 DEF Route

LEMMA LadderExhaustedInv ==
  ASSUME Inv, NEW w \in Workers, LadderExhausted(w)
  PROVE  Inv'
<1>1. DurableTypeOK'
  BY NothingWritten DEF LadderExhausted
<1>2. PICK x \in Plans : x.stage # "keep" /\ loc' = [loc EXCEPT ![w].plan = x]
  BY DEF LadderExhausted, Plan, Plans, AttemptStatuses, RunStatuses, Terminal
<1>3. PICK l \in Locals : loc' = [loc EXCEPT ![w] = l] /\ l.plan = x /\ l.seen = loc[w].seen
  BY <1>2, SetPlan
<1>4. PICK p \in StagePCs, q \in StagePCs : Step(w, p, q) /\ q = "settleStage"
  BY DEF LadderExhausted, StagePCs
<1>5. l.plan.stage # "keep" /\ q # "settleAttempt"
  BY <1>2, <1>3, <1>4
<1> QED
  BY <1>1, <1>3, <1>4, <1>5, EngineStays

LEMMA AppendAttemptTyped ==
  ASSUME Inv, NEW w \in Workers, on[w] \in Runs, AppendAttempt(w)
  PROVE  DurableTypeOK'
<1>1. [stage |-> loc[w].stage, status |-> "running", cp |-> FALSE] \in Attempt
  BY DEF Attempt, AttemptStatuses, Inv, TypeOK, WorkerTypeOK, Locals
<1> QED
  BY <1>1 DEF AppendAttempt, Inv, TypeOK, DurableTypeOK

LEMMA NextCandidateInv ==
  ASSUME Inv, NEW w \in Workers, NextCandidate(w)
  PROVE  Inv'
<1>1. PICK p \in StagePCs, q \in StagePCs :
        Step(w, p, q) /\ q \notin {"settleAttempt", "settleStage"} /\ p = "attempt"
  BY DEF NextCandidate, AfterAppend, StagePCs
<1>2. on[w] \in Runs
  BY <1>1, EngineRun DEF Step, EnginePCs
<1>3. DurableTypeOK'
  BY <1>2, AppendAttemptTyped DEF NextCandidate
<1>4. PICK l \in Locals : loc' = [loc EXCEPT ![w] = l] /\ l.seen = loc[w].seen
  <2>1. PICK n \in Nat : n = Len(attempts[on[w]]) + 1
    BY <1>2 DEF Inv, TypeOK, DurableTypeOK
  <2>2. loc[w] \in Locals /\ loc[w].left \in Nat /\ loc[w].left > 0
    BY DEF NextCandidate, Inv, TypeOK, WorkerTypeOK, Locals
  <2>3. PICK k \in Nat : k = loc[w].left - 1
    BY <2>2
  <2> DEFINE l == [loc[w] EXCEPT !.left = k, !.att = n]
  <2>4. l \in Locals /\ l.seen = loc[w].seen
    BY <2>2 DEF Locals
  <2>5. loc' = [loc EXCEPT ![w] = l]
    BY <2>1, <2>3 DEF NextCandidate, Inv, TypeOK, WorkerTypeOK
  <2> QED
    BY <2>4, <2>5
<1> QED
  BY <1>1, <1>3, <1>4, EngineStays

LEMMA CorrectInv ==
  ASSUME Inv, NEW w \in Workers, Correct(w)
  PROVE  Inv'
<1>1. PICK p \in StagePCs, q \in StagePCs :
        Step(w, p, q) /\ q \notin {"settleAttempt", "settleStage"} /\ p = "correct"
  BY DEF Correct, AfterAppend, StagePCs
<1>2. on[w] \in Runs
  BY <1>1, EngineRun DEF Step, EnginePCs
<1>3. DurableTypeOK'
  BY <1>2, AppendAttemptTyped DEF Correct
<1>4. PICK l \in Locals : loc' = [loc EXCEPT ![w] = l] /\ l.seen = loc[w].seen
  <2>1. PICK n \in Nat : n = Len(attempts[on[w]]) + 1
    BY <1>2 DEF Inv, TypeOK, DurableTypeOK
  <2> DEFINE l == [loc[w] EXCEPT !.corr = TRUE, !.att = n]
  <2>2. l \in Locals /\ l.seen = loc[w].seen
    BY DEF Inv, TypeOK, WorkerTypeOK, Locals
  <2>3. loc' = [loc EXCEPT ![w] = l]
    BY <2>1 DEF Correct, Inv, TypeOK, WorkerTypeOK
  <2> QED
    BY <2>2, <2>3
<1> QED
  BY <1>1, <1>3, <1>4, EngineStays

LEMMA CheckpointRow ==
  ASSUME NEW rows \in Seq(Attempt), NEW i
  PROVE  [rows EXCEPT ![i].cp = TRUE] \in Seq(Attempt)
<1>1. Len(rows) \in Nat /\ rows \in [1..Len(rows) -> Attempt]
  OBVIOUS
<1>2. [rows EXCEPT ![i].cp = TRUE] \in [1..Len(rows) -> Attempt]
  BY <1>1 DEF Attempt
<1> QED
  BY <1>1, <1>2, FunctionIsSeq

LEMMA CheckpointInv ==
  ASSUME Inv, NEW w \in Workers, Checkpoint(w)
  PROVE  Inv'
<1>1. CASE /\ Step(w, "checkpoint", "exec")
           /\ attempts' = [attempts EXCEPT ![on[w]][loc[w].att].cp = TRUE]
           /\ UNCHANGED <<status, stages, val, journal, torn, loc>>
  <2>1. PICK p \in StagePCs, q \in StagePCs :
          Step(w, p, q) /\ p = "checkpoint" /\ q = "exec"
    BY <1>1 DEF StagePCs
  <2>2. on[w] \in Runs
    BY <2>1, EngineRun DEF Step, EnginePCs
  <2>3. [attempts[on[w]] EXCEPT ![loc[w].att].cp = TRUE] \in Seq(Attempt)
    BY <2>2, CheckpointRow DEF Inv, TypeOK, DurableTypeOK
  <2>4. DurableTypeOK'
    BY <1>1, <2>2, <2>3 DEF Inv, TypeOK, DurableTypeOK
  <2>5. q \notin {"settleAttempt", "settleStage"}
    BY <2>1
  <2>6. PICK l \in Locals : loc' = [loc EXCEPT ![w] = l] /\ l.seen = loc[w].seen
    BY <1>1, SameLocals
  <2> QED
    BY <2>1, <2>4, <2>5, <2>6, EngineStays
<1>2. CASE /\ Step(w, "checkpoint", "settleAttempt")
           /\ loc' = [loc EXCEPT ![w].plan = Plan("failed", "failed", "set", "failed")]
           /\ UNCHANGED durable
  <2>1. PICK x \in Plans : x.att # "keep" /\ loc' = [loc EXCEPT ![w].plan = x]
    BY <1>2 DEF Plan, Plans, AttemptStatuses, RunStatuses, Terminal
  <2>2. PICK l \in Locals : loc' = [loc EXCEPT ![w] = l] /\ l.plan = x /\ l.seen = loc[w].seen
    BY <2>1, SetPlan
  <2>3. PICK p \in StagePCs, q \in StagePCs : Step(w, p, q) /\ q = "settleAttempt"
    BY <1>2 DEF StagePCs
  <2>4. l.plan.att # "keep" /\ q # "settleStage"
    BY <2>1, <2>2, <2>3
  <2>5. DurableTypeOK'
    BY <1>2, NothingWritten
  <2> QED
    BY <2>2, <2>3, <2>4, <2>5, EngineStays
<1> QED
  BY <1>1, <1>2 DEF Checkpoint

LEMMA AdvanceTyped ==
  ASSUME NEW w, Kind(w) \in Kinds, NEW verdict \in Verdicts, NEW pendingApproval \in BOOLEAN
  PROVE  Advance(w, verdict, pendingApproval) \in RunStatuses
<1>1. CompletionPolicy(loc[w].ao, val[on[w]], verdict, pendingApproval) \in RunStatuses
  BY DEF CompletionPolicy, Verdicts, RunStatuses, StageStatuses, Halted, Terminal
<1> QED
  BY <1>1 DEF Advance, Kinds, RunStatuses, StageStatuses

LEMMA AfterExecTyped ==
  ASSUME NEW w, NEW o \in Outcomes, NEW to \in RunStatuses
  PROVE  AfterExec(w, o, to)[2] \in Plans /\ AfterExec(w, o, to)[2].att # "keep"
<1>1. FailStage(w, o) \in Plans /\ FailStage(w, o).att # "keep"
  BY DEF FailStage, Plan, Plans, AttemptStatuses, RunStatuses, StageStatuses, Halted, Terminal
<1>2. \A a \in AttemptStatuses, s \in AttemptStatuses \cup {"keep"}, h \in {"none", "set", "cas"},
         t \in RunStatuses : Plan(a, s, h, t) \in Plans /\ Plan(a, s, h, t).att # "keep"
  BY DEF Plan, Plans, AttemptStatuses
<1>3. "failed" \in RunStatuses /\ "absent" \in RunStatuses
  BY DEF RunStatuses, Terminal
<1>4. {"succeeded", "failed", "invalid_output"} \subseteq AttemptStatuses
  BY DEF AttemptStatuses
<1> QED
  BY <1>1, <1>2, <1>3, <1>4 DEF AfterExec, Outcomes

LEMMA ExecInv ==
  ASSUME Inv, NEW w \in Workers, Exec(w)
  PROVE  Inv'
<1>1. PICK o \in Outcomes, verdict \in Verdicts, pendingApproval \in BOOLEAN,
           gate \in {"pass", "fail"}, ao \in BOOLEAN :
        /\ Step(w, "exec", "settleAttempt")
        /\ Kind(w) = "validate" => o \in {"ok", "invalid", "infrastructure"}
        /\ (o = "ok" /\ Kind(w) = "review") \/ (verdict = "pass" /\ ~pendingApproval)
        /\ (o = "ok" /\ Kind(w) = "validate") \/ gate = "pass"
        /\ ao => o = "ok" /\ Kind(w) \in {"plan", "replan"}
        /\ LET done == AfterExec(w, o, Advance(w, verdict, pendingApproval))
           IN loc' = [loc EXCEPT ![w].made = @ + 1, ![w].ao = @ \/ ao, ![w].plan = done[2],
                                 ![w].left = IF done[1] = "settleStage" THEN 0 ELSE @]
        /\ val' = IF o = "ok" /\ Kind(w) = "validate" THEN [val EXCEPT ![on[w]] = gate] ELSE val
        /\ UNCHANGED <<status, stages, attempts, journal, torn>>
  BY ZenonT(60) DEF Exec
<1>2. PICK p \in StagePCs, q \in StagePCs :
        Step(w, p, q) /\ p = "exec" /\ q = "settleAttempt"
  BY <1>1 DEF StagePCs
<1>3. on[w] \in Runs /\ loc[w] \in Locals
  BY <1>2, EngineRun DEF Step, EnginePCs
<1>4. DurableTypeOK'
  BY <1>1, <1>3 DEF Inv, TypeOK, DurableTypeOK
<1>5. Advance(w, verdict, pendingApproval) \in RunStatuses
  BY <1>2, StageKind, AdvanceTyped DEF Step
<1>6. PICK x \in Plans : /\ x = AfterExec(w, o, Advance(w, verdict, pendingApproval))[2]
                         /\ x.att # "keep"
  BY <1>5, AfterExecTyped
<1>7. PICK l \in Locals : loc' = [loc EXCEPT ![w] = l] /\ l.plan = x /\ l.seen = loc[w].seen
  <2> DEFINE d == AfterExec(w, o, Advance(w, verdict, pendingApproval))[1] = "settleStage"
             b == loc[w].ao \/ ao
  <2>1. b \in BOOLEAN
    OBVIOUS
  <2>2. PICK m \in Nat : m = loc[w].made + 1
    BY <1>3 DEF Locals
  <2>3. PICK k \in Nat : k = IF d THEN 0 ELSE loc[w].left
    BY <1>3 DEF Locals
  <2>4. loc' = [loc EXCEPT ![w].made = m, ![w].ao = b, ![w].plan = x, ![w].left = k]
    BY <1>1, <1>6, <2>2, <2>3
  <2> HIDE DEF b, d
  <2> DEFINE l == [loc[w] EXCEPT !.made = m, !.ao = b, !.plan = x, !.left = k]
  <2>5. l \in Locals /\ l.plan = x /\ l.seen = loc[w].seen
    BY <1>3, <2>1 DEF Locals
  <2>6. loc' = [loc EXCEPT ![w] = l]
    BY <2>4 DEF Inv, TypeOK, WorkerTypeOK
  <2> QED
    BY <2>5, <2>6
<1>8. l.plan.att # "keep" /\ q # "settleStage"
  BY <1>2, <1>6, <1>7
<1> QED
  BY <1>2, <1>4, <1>7, <1>8, EngineStays

LEMMA SettleAttemptInv ==
  ASSUME Inv, NEW w \in Workers, SettleAttempt(w)
  PROVE  Inv'
<1> DEFINE x == loc[w].plan
<1>1. PICK p \in StagePCs, q \in StagePCs :
        /\ Step(w, p, q) /\ p = "settleAttempt" /\ q # "settleAttempt"
        /\ q = "settleStage" => x.stage # "keep"
  BY DEF SettleAttempt, StagePCs
<1>2. on[w] \in Runs /\ x \in Plans /\ x.att \in AttemptStatuses
  BY <1>1, EngineRun DEF Step, EnginePCs, Inv, LocalsOK, Locals, Plans
<1>3. [attempts[on[w]] EXCEPT ![loc[w].att].status = x.att] \in Seq(Attempt)
  BY <1>2, MarkRow, StatusOfRow DEF Inv, TypeOK, DurableTypeOK
<1>4. DurableTypeOK'
  BY <1>2, <1>3 DEF SettleAttempt, Inv, TypeOK, DurableTypeOK
<1>5. PICK l \in Locals : loc' = [loc EXCEPT ![w] = l] /\ l = loc[w]
  BY SameLocals DEF SettleAttempt
<1>6. l.seen = loc[w].seen /\ (q = "settleStage" => l.plan.stage # "keep")
  BY <1>1, <1>5
<1> QED
  BY <1>1, <1>4, <1>5, <1>6, EngineStays

LEMMA SettleStageInv ==
  ASSUME Inv, NEW w \in Workers, SettleStage(w)
  PROVE  Inv'
<1> DEFINE x == loc[w].plan
<1>1. PICK p \in StagePCs, q \in StagePCs :
        Step(w, p, q) /\ p = "settleStage" /\ q \notin {"settleAttempt", "settleStage"}
  BY DEF SettleStage, StagePCs
<1>2. on[w] \in Runs /\ x \in Plans /\ x.stage \in AttemptStatuses
  BY <1>1, EngineRun DEF Step, EnginePCs, Inv, LocalsOK, Locals, Plans
<1>3. [stages[on[w]] EXCEPT ![loc[w].stage].status = x.stage] \in Seq(Stage)
  BY <1>2, MarkRow, StatusOfRow DEF Inv, TypeOK, DurableTypeOK
<1>4. DurableTypeOK'
  BY <1>2, <1>3 DEF SettleStage, Inv, TypeOK, DurableTypeOK
<1>5. PICK l \in Locals : loc' = [loc EXCEPT ![w] = l] /\ l.seen = loc[w].seen
  BY SameLocals DEF SettleStage
<1> QED
  BY <1>1, <1>4, <1>5, EngineStays

LEMMA SettleRunInv ==
  ASSUME Inv, NEW w \in Workers, SettleRun(w)
  PROVE  Inv'
<1>1. PICK p \in EnginePCs, q \in OutPCs : Step(w, p, q)
  BY DEF SettleRun, EnginePCs, OutPCs
<1>2. on[w] \in Runs /\ loc[w].plan.to \in RunStatuses
  BY <1>1, EngineRun DEF Step, Locals, Plans
<1>3. DurableTypeOK'
  BY <1>2, StatusWrite DEF SettleRun
<1>4. PICK l \in Locals : loc' = [loc EXCEPT ![w] = l]
  BY SameLocals DEF SettleRun
<1> QED
  BY <1>1, <1>3, <1>4, EngineLeaves

LEMMA IntegrateInv ==
  ASSUME Inv, NEW w \in Workers, Integrate(w)
  PROVE  Inv'
<1>1. PICK p \in EnginePCs, q \in OutPCs : Step(w, p, q)
  BY DEF Integrate, EnginePCs, OutPCs
<1>2. on[w] \in Runs
  BY <1>1, EngineRun DEF Step
<1>3. DurableTypeOK'
  BY <1>2 DEF Integrate, Inv, TypeOK, DurableTypeOK, RunStatuses, Terminal
<1>4. PICK l \in Locals : loc' = [loc EXCEPT ![w] = l]
  BY SameLocals DEF Integrate
<1> QED
  BY <1>1, <1>3, <1>4, EngineLeaves

LEMMA PublishInv ==
  ASSUME Inv, NEW w \in Workers, Publish(w)
  PROVE  Inv'
<1>1. PICK p \in EnginePCs, q \in OutPCs : Step(w, p, q)
  BY DEF Publish, EnginePCs, OutPCs
<1>2. on[w] \in Runs
  BY <1>1, EngineRun DEF Step
<1>3. DurableTypeOK'
  BY <1>2 DEF Publish, Inv, TypeOK, DurableTypeOK, RunStatuses, Halted
<1>4. PICK l \in Locals : loc' = [loc EXCEPT ![w] = l]
  BY SameLocals DEF Publish
<1> QED
  BY <1>1, <1>3, <1>4, EngineLeaves

LEMMA PublishEndInv ==
  ASSUME Inv, NEW w \in Workers, PublishEnd(w)
  PROVE  Inv'
<1>1. PICK p \in EnginePCs, q \in OutPCs : Step(w, p, q)
  BY DEF PublishEnd, EnginePCs, OutPCs
<1>2. on[w] \in Runs
  BY <1>1, EngineRun DEF Step
<1>3. DurableTypeOK'
  BY <1>2 DEF PublishEnd, Inv, TypeOK, DurableTypeOK, RunStatuses, Terminal, Halted
<1>4. PICK l \in Locals : loc' = [loc EXCEPT ![w] = l]
  BY SameLocals DEF PublishEnd
<1> QED
  BY <1>1, <1>3, <1>4, EngineLeaves

LEMMA ReturnInv ==
  ASSUME Inv, NEW w \in Workers, Return(w)
  PROVE  Inv'
<1>1. PICK p \in EnginePCs, q \in OutPCs : Step(w, p, q)
  BY DEF Return, EnginePCs, OutPCs
<1>2. DurableTypeOK'
  BY NothingWritten DEF Return
<1>3. PICK l \in Locals : loc' = [loc EXCEPT ![w] = l]
  BY SameLocals DEF Return
<1> QED
  BY <1>1, <1>2, <1>3, EngineLeaves

(* What CancelRun writes is well formed.                                    *)
LEMMA CancelTyped ==
  ASSUME Inv, NEW r \in Runs, CancelRun(r), UNCHANGED <<val, journal, torn>>
  PROVE  DurableTypeOK'
<1>1. /\ CloseRunning(attempts[r], "cancelled") \in Seq(Attempt)
      /\ CloseRunning(stages[r], "interrupted") \in Seq(Stage)
  BY CloseRows, StatusOfRow DEF Inv, TypeOK, DurableTypeOK, AttemptStatuses
<1> QED
  BY <1>1 DEF CancelRun, Inv, TypeOK, DurableTypeOK, RunStatuses, Terminal

LEMMA ObserveCancelInv ==
  ASSUME Inv, NEW w \in Workers, ObserveCancel(w)
  PROVE  Inv'
<1>1. DurableTypeOK'
  BY EngineRun, CancelTyped DEF ObserveCancel
<1>2. ServerTypeOK' /\ OutsideTypeOK'
  BY DEF ObserveCancel, Inv, TypeOK, ServerTypeOK, OutsideTypeOK, recovery, scheduler, history
<1>3. WorkerTypeOK'
  BY DEF ObserveCancel, Inv, TypeOK, WorkerTypeOK, PCs
<1>4. OneExecution'
  BY DEF ObserveCancel, Inv, TypeOK, WorkerTypeOK, OneExecution, EnginePCs, scheduler
<1>5. LocalsOK'
  BY DEF ObserveCancel, Inv, TypeOK, WorkerTypeOK, LocalsOK, StagePCs
<1> QED
  BY <1>1, <1>2, <1>3, <1>4, <1>5 DEF Inv, TypeOK

LEMMA EngineInv ==
  ASSUME Inv, NEW w \in Workers, EngineStep(w)
  PROVE  Inv'
  BY StartInv, AssessInv, ReadInv, StopBlockedInv, BeginStageInv, RouteInv, NextCandidateInv,
     LadderExhaustedInv, CorrectInv, CheckpointInv, ExecInv, SettleAttemptInv, SettleStageInv,
     SettleRunInv, IntegrateInv, PublishInv, PublishEndInv, ObserveCancelInv, ReturnInv
  DEF EngineStep

-----------------------------------------------------------------------------
(* Steps of the scheduler                                                   *)

(* A step that leaves the goroutines alone.                                 *)
LEMMA WorkersKeep ==
  ASSUME Inv, UNCHANGED <<pc, on, loc, inflight>>, DurableTypeOK', ServerTypeOK', OutsideTypeOK',
         ctx' \in [Workers -> {"none", "live", "cancelled"}]
  PROVE  Inv'
<1>1. WorkerTypeOK' /\ OneExecution' /\ LocalsOK'
  BY DEF Inv, TypeOK, WorkerTypeOK, OneExecution, LocalsOK
<1> QED
  BY <1>1 DEF Inv, TypeOK

(* A claim makes the run the claimer's, and nobody else's.                  *)
LEMMA ClaimExcludes ==
  ASSUME Inv, NEW w \in Workers, NEW r \in Runs, NEW from \in {"claimedTick", "claimedEnqueue"},
         Claim(w, r, from), UNCHANGED <<ctx, loc>>
  PROVE  OneExecution' /\ WorkerTypeOK' /\ LocalsOK' /\ inflight' \subseteq Runs
<1>1. /\ r \notin inflight /\ pc[w] = "idle" /\ on[w] = NoRun
      /\ inflight' = inflight \cup {r}
      /\ pc' = [pc EXCEPT ![w] = from] /\ on' = [on EXCEPT ![w] = r]
  BY DEF Claim, Inv, OneExecution
<1>2. WorkerTypeOK'
  BY <1>1 DEF Inv, TypeOK, WorkerTypeOK, PCs
<1>3. /\ pc'[w] = from /\ on'[w] = r /\ from # "idle" /\ r # NoRun
      /\ \A v \in Workers \ {w} : pc'[v] = pc[v] /\ on'[v] = on[v] /\ on[v] # r
  BY <1>1, RunsAssumption DEF Inv, TypeOK, WorkerTypeOK, OneExecution
<1>4. \A v \in Workers : (on'[v] = NoRun) <=> (pc'[v] = "idle")
  BY <1>3 DEF Inv, OneExecution
<1>5. \A u, v \in Workers : on'[u] = on'[v] /\ on'[u] # NoRun => u = v
  BY <1>3 DEF Inv, OneExecution
<1>6. {on'[v] : v \in Workers} \ {NoRun} = inflight'
  BY <1>1, <1>3 DEF Inv, OneExecution
<1>7. LocalsOK'
  BY <1>1, <1>3 DEF Inv, LocalsOK, StagePCs
<1>8. inflight' \subseteq Runs
  BY <1>1 DEF Inv, TypeOK, ServerTypeOK
<1> QED
  BY <1>2, <1>4, <1>5, <1>6, <1>7, <1>8 DEF OneExecution

LEMMA RunOneInv ==
  ASSUME Inv, NEW r \in Runs, RunOne(r)
  PROVE  Inv'
<1>1. DurableTypeOK'
  BY NothingWritten DEF RunOne
<1>2. OutsideTypeOK'
  BY DEF RunOne, Inv, TypeOK, OutsideTypeOK, history
<1>3. pending' \in [Runs -> Nat]
  BY DEF RunOne, Inv, TypeOK, ServerTypeOK
<1>4. CASE \E w \in Workers : Claim(w, r, "claimedEnqueue")
  <2>1. OneExecution' /\ WorkerTypeOK' /\ LocalsOK' /\ inflight' \subseteq Runs
    BY <1>4, ClaimExcludes DEF RunOne
  <2>2. ServerTypeOK'
    BY <1>3, <2>1 DEF RunOne, Inv, TypeOK, ServerTypeOK, recovery
  <2> QED
    BY <1>1, <1>2, <2>1, <2>2 DEF Inv, TypeOK
<1>5. CASE UNCHANGED <<inflight, pc, on>>
  <2>1. ServerTypeOK'
    BY <1>3, <1>5 DEF RunOne, Inv, TypeOK, ServerTypeOK, recovery
  <2> QED
    BY <1>1, <1>2, <1>5, <2>1, WorkersKeep DEF RunOne, Inv, TypeOK, WorkerTypeOK
<1> QED
  BY <1>4, <1>5 DEF RunOne

LEMMA RegisterInv ==
  ASSUME Inv, NEW w \in Workers, Register(w)
  PROVE  Inv'
<1>1. DurableTypeOK' /\ ServerTypeOK' /\ OutsideTypeOK'
  BY DEF Register, Inv, TypeOK, DurableTypeOK, ServerTypeOK, OutsideTypeOK,
         durable, recovery, scheduler, history
<1>2. WorkerTypeOK'
  BY DEF Register, Inv, TypeOK, WorkerTypeOK, PCs, EnginePCs
<1>3. OneExecution'
  BY DEF Register, Inv, TypeOK, WorkerTypeOK, OneExecution, scheduler
<1>4. LocalsOK'
  BY DEF Register, Inv, TypeOK, WorkerTypeOK, LocalsOK, StagePCs
<1> QED
  BY <1>1, <1>2, <1>3, <1>4 DEF Inv, TypeOK

LEMMA ReleaseInv ==
  ASSUME Inv, NEW w \in Workers, Release(w)
  PROVE  Inv'
<1>1. DurableTypeOK' /\ OutsideTypeOK' /\ ServerTypeOK'
  BY DEF Release, Inv, TypeOK, DurableTypeOK, OutsideTypeOK, ServerTypeOK,
         durable, recovery, history
<1>2. WorkerTypeOK'
  BY NoLocalsOK DEF Release, Inv, TypeOK, WorkerTypeOK, PCs
<1>3. /\ pc'[w] = "idle" /\ on'[w] = NoRun /\ on[w] # NoRun
      /\ inflight' = inflight \ {on[w]}
      /\ \A v \in Workers \ {w} : pc'[v] = pc[v] /\ on'[v] = on[v] /\ on[v] # on[w]
  BY DEF Release, Inv, TypeOK, WorkerTypeOK, OneExecution
<1>4. {on'[v] : v \in Workers} \ {NoRun} = inflight'
  BY <1>3 DEF Inv, OneExecution
<1>5. OneExecution'
  BY <1>3, <1>4 DEF Inv, OneExecution
<1>6. LocalsOK'
  BY DEF Release, Inv, TypeOK, WorkerTypeOK, LocalsOK, StagePCs
<1> QED
  BY <1>1, <1>2, <1>5, <1>6 DEF Inv, TypeOK

LEMMA TickListInv ==
  ASSUME Inv, TickList
  PROVE  Inv'
<1>1. DurableTypeOK' /\ OutsideTypeOK'
  BY DEF TickList, Inv, TypeOK, DurableTypeOK, OutsideTypeOK, durable, history
<1>2. ServerTypeOK'
  BY DEF TickList, Listed, Inv, TypeOK, ServerTypeOK, OutsideTypeOK, recovery
<1> QED
  BY <1>1, <1>2, WorkersKeep DEF TickList, worker, Inv, TypeOK, WorkerTypeOK

LEMMA TickVisitInv ==
  ASSUME Inv, NEW r \in Runs, TickVisit(r)
  PROVE  Inv'
<1>1. DurableTypeOK'
  BY StatusWrite DEF TickVisit, RunStatuses, Halted
<1>2. OutsideTypeOK'
  BY DEF TickVisit, Inv, TypeOK, OutsideTypeOK, history
<1>3. tick' \in [allowed : BOOLEAN, todo : SUBSET Runs]
  BY DEF TickVisit, NoTick, Inv, TypeOK, ServerTypeOK
<1>4. CASE \E w \in Workers : Claim(w, r, "claimedTick")
  <2>1. OneExecution' /\ WorkerTypeOK' /\ LocalsOK' /\ inflight' \subseteq Runs
    BY <1>4, ClaimExcludes DEF TickVisit
  <2>2. ServerTypeOK'
    BY <1>3, <2>1 DEF TickVisit, Inv, TypeOK, ServerTypeOK, recovery
  <2> QED
    BY <1>1, <1>2, <2>1, <2>2 DEF Inv, TypeOK
<1>5. CASE UNCHANGED <<inflight, pc, on>>
  <2>1. ServerTypeOK'
    BY <1>3, <1>5 DEF TickVisit, Inv, TypeOK, ServerTypeOK, recovery
  <2> QED
    BY <1>1, <1>2, <1>5, <2>1, WorkersKeep DEF TickVisit, Inv, TypeOK, WorkerTypeOK
<1> QED
  BY <1>4, <1>5 DEF TickVisit

-----------------------------------------------------------------------------
(* Steps of the API, of the process and of recovery                         *)

LEMMA EnqueueInv ==
  ASSUME Inv, NEW r \in Runs, NEW to \in RunStatuses, Enqueue(r, to),
         UNCHANGED <<stages, attempts, val, journal, torn, phase, recovery, inflight, tick,
                     worker, cancelling>>,
         OutsideTypeOK'
  PROVE  Inv'
<1>1. DurableTypeOK'
  BY DEF Enqueue, Inv, TypeOK, DurableTypeOK, RunStatuses, Halted
<1>2. ServerTypeOK'
  BY DEF Enqueue, Inv, TypeOK, ServerTypeOK, recovery
<1> QED
  BY <1>1, <1>2, WorkersKeep DEF worker, Inv, TypeOK, WorkerTypeOK

LEMMA ApiInv ==
  ASSUME Inv, NEW r \in Runs, ApiStep(r)
  PROVE  Inv'
<1>1. CASE Submit(r)
  <2>1. OutsideTypeOK'
    BY <1>1 DEF Submit, Inv, TypeOK, OutsideTypeOK, history
  <2>2. "queued" \in RunStatuses
    BY DEF RunStatuses
  <2> QED
    BY <1>1, <2>1, <2>2, EnqueueInv DEF Submit
<1>2. CASE CancelSignal(r)
  <2>1. DurableTypeOK' /\ ServerTypeOK'
    BY <1>2 DEF CancelSignal, Inv, TypeOK, DurableTypeOK, ServerTypeOK,
                durable, recovery, scheduler
  <2>2. OutsideTypeOK'
    BY <1>2 DEF CancelSignal, Inv, TypeOK, OutsideTypeOK
  <2>3. ctx' \in [Workers -> {"none", "live", "cancelled"}]
    BY <1>2 DEF CancelSignal, Inv, TypeOK, WorkerTypeOK
  <2> QED
    BY <1>2, <2>1, <2>2, <2>3, WorkersKeep DEF CancelSignal, scheduler
<1>3. CASE CancelCommit(r)
  <2>1. DurableTypeOK'
    BY <1>3, CancelTyped DEF CancelCommit, Inv, TypeOK, DurableTypeOK
  <2>2. ServerTypeOK' /\ OutsideTypeOK'
    BY <1>3 DEF CancelCommit, Inv, TypeOK, ServerTypeOK, OutsideTypeOK, recovery, scheduler
  <2> QED
    BY <1>3, <2>1, <2>2, WorkersKeep
    DEF CancelCommit, scheduler, worker, Inv, TypeOK, WorkerTypeOK
<1>4. CASE ManualIntegrate(r)
  <2>1. OutsideTypeOK'
    BY <1>4 DEF ManualIntegrate, Inv, TypeOK, OutsideTypeOK
  <2>2. "ready_to_integrate" \in RunStatuses
    BY DEF RunStatuses
  <2> QED
    BY <1>4, <2>1, <2>2, EnqueueInv DEF ManualIntegrate
<1> QED
  BY <1>1, <1>2, <1>3, <1>4 DEF ApiStep

LEMMA ExitInv ==
  ASSUME Inv, Exit, torn' \subseteq Runs, OutsideTypeOK'
  PROVE  Inv'
<1>1. DurableTypeOK'
  BY DEF Exit, Inv, TypeOK, DurableTypeOK
<1>2. ServerTypeOK'
  BY DEF Exit, Inv, TypeOK, ServerTypeOK, NoTick
<1>3. WorkerTypeOK'
  BY NoLocalsOK DEF Exit, WorkerTypeOK, PCs
<1>4. OneExecution'
  BY DEF Exit, OneExecution
<1>5. LocalsOK'
  BY DEF Exit, LocalsOK, StagePCs
<1> QED
  BY <1>1, <1>2, <1>3, <1>4, <1>5 DEF Inv, TypeOK

LEMMA ProcessInv ==
  ASSUME Inv, Shutdown \/ StopDone \/ Crash \/ Restart \/ NextPhase \/ DiskChange
  PROVE  Inv'
<1>1. CASE Shutdown
  <2>1. DurableTypeOK' /\ ServerTypeOK' /\ OutsideTypeOK'
    <3>1. DurableTypeOK' /\ ServerTypeOK'
      BY <1>1 DEF Shutdown, Inv, TypeOK, DurableTypeOK, ServerTypeOK, durable, recovery, scheduler
    <3>2. OutsideTypeOK'
      BY <1>1 DEF Shutdown, Inv, TypeOK, OutsideTypeOK, history
    <3> QED
      BY <3>1, <3>2
  <2>2. ctx' \in [Workers -> {"none", "live", "cancelled"}]
    BY <1>1 DEF Shutdown, Inv, TypeOK, WorkerTypeOK
  <2> QED
    BY <1>1, <2>1, <2>2, WorkersKeep DEF Shutdown, scheduler
<1>2. CASE StopDone
  BY <1>2, ExitInv DEF StopDone, Exit, history, Inv, TypeOK, DurableTypeOK, OutsideTypeOK
<1>3. CASE Crash
  <2>1. torn' \subseteq Runs
    BY <1>3 DEF Crash, Inv, TypeOK, DurableTypeOK
  <2>2. OutsideTypeOK'
    BY <1>3 DEF Crash, Exit, history, Inv, TypeOK, OutsideTypeOK
  <2> QED
    BY <1>3, <2>1, <2>2, ExitInv DEF Crash
<1>4. CASE Restart
  <2>1. DurableTypeOK' /\ ServerTypeOK' /\ OutsideTypeOK'
    BY <1>4 DEF Restart, Inv, TypeOK, DurableTypeOK, ServerTypeOK, OutsideTypeOK,
                durable, scheduler, history
  <2> QED
    BY <1>4, <2>1, WorkersKeep DEF Restart, scheduler, worker, Inv, TypeOK, WorkerTypeOK
<1>5. CASE NextPhase
  <2>1. DurableTypeOK' /\ OutsideTypeOK'
    BY <1>5 DEF NextPhase, Inv, TypeOK, DurableTypeOK, OutsideTypeOK, durable, history
  <2>2. ServerTypeOK'
    BY <1>5 DEF NextPhase, Recoverable, Inv, TypeOK, DurableTypeOK, ServerTypeOK, scheduler
  <2> QED
    BY <1>5, <2>1, <2>2, WorkersKeep DEF NextPhase, scheduler, worker, Inv, TypeOK, WorkerTypeOK
<1>6. CASE DiskChange
  <2>1. DurableTypeOK' /\ ServerTypeOK' /\ OutsideTypeOK'
    BY <1>6 DEF DiskChange, Inv, TypeOK, DurableTypeOK, ServerTypeOK, OutsideTypeOK,
                durable, recovery, scheduler, history
  <2> QED
    BY <1>6, <2>1, WorkersKeep DEF DiskChange, scheduler, worker, Inv, TypeOK, WorkerTypeOK
<1> QED
  BY <1>1, <1>2, <1>3, <1>4, <1>5, <1>6

LEMMA RecoveryInv ==
  ASSUME Inv, NEW r \in Runs, RecoveryStep(r)
  PROVE  Inv'
<1>1. UNCHANGED <<scheduler, worker, cancelling, lowDisk, used, history, phase>>
  BY DEF RecoveryStep, RecoverTerminal, RecoverAttempt, RecoverBlock, RecoverStages,
         RecoverJournal, recovery, durable
<1>2. OutsideTypeOK'
  BY <1>1 DEF history, Inv, TypeOK, OutsideTypeOK
<1>3. ServerTypeOK'
  BY <1>1 DEF RecoveryStep, RecoverTerminal, RecoverAttempt, RecoverBlock, RecoverStages,
              RecoverJournal, recovery, durable, scheduler, Inv, TypeOK, ServerTypeOK
<1>4. \A s \in AttemptStatuses : /\ CloseRunning(stages[r], s) \in Seq(Stage)
                                 /\ CloseRunning(attempts[r], s) \in Seq(Attempt)
  BY CloseRows, StatusOfRow DEF Inv, TypeOK, DurableTypeOK
<1>5. DurableTypeOK'
  <2>1. CASE RecoverTerminal(r)
    BY <2>1, <1>4 DEF RecoverTerminal, Inv, TypeOK, DurableTypeOK, AttemptStatuses
  <2>2. CASE RecoverAttempt(r)
    <3>1. PICK i : attempts' = [attempts EXCEPT ![r][i].status = "interrupted"]
      BY <2>2 DEF RecoverAttempt
    <3>2. [attempts[r] EXCEPT ![i].status = "interrupted"] \in Seq(Attempt)
      BY MarkRow, StatusOfRow DEF Inv, TypeOK, DurableTypeOK, AttemptStatuses
    <3>3. torn' \subseteq Runs
      BY <2>2 DEF RecoverAttempt, Inv, TypeOK, DurableTypeOK
    <3> QED
      BY <2>2, <3>1, <3>2, <3>3 DEF RecoverAttempt, Inv, TypeOK, DurableTypeOK
  <2>3. CASE RecoverBlock(r)
    BY <2>3, StatusWrite DEF RecoverBlock, RunStatuses, Halted
  <2>4. CASE RecoverStages(r)
    BY <2>4, <1>4 DEF RecoverStages, Inv, TypeOK, DurableTypeOK, AttemptStatuses
  <2>5. CASE RecoverJournal(r)
    BY <2>5 DEF RecoverJournal, Inv, TypeOK, DurableTypeOK, RunStatuses, Terminal, Halted
  <2> QED
    BY <2>1, <2>2, <2>3, <2>4, <2>5 DEF RecoveryStep
<1> QED
  BY <1>1, <1>2, <1>3, <1>5, WorkersKeep DEF scheduler, worker, Inv, TypeOK, WorkerTypeOK

-----------------------------------------------------------------------------
LEMMA NextInv ==
  ASSUME Inv, [Next]_vars
  PROVE  Inv'
<1>1. CASE Next
  BY <1>1, EngineInv, RegisterInv, ReleaseInv, RunOneInv, TickVisitInv, ApiInv, RecoveryInv,
     TickListInv, ProcessInv DEF Next, WorkerStep
<1>2. CASE UNCHANGED vars
  <2>1. DurableTypeOK' /\ ServerTypeOK' /\ OutsideTypeOK'
    BY <1>2 DEF vars, Inv, TypeOK, DurableTypeOK, ServerTypeOK, OutsideTypeOK,
                durable, recovery, scheduler, history
  <2> QED
    BY <1>2, <2>1, WorkersKeep DEF vars, scheduler, worker, Inv, TypeOK, WorkerTypeOK
<1> QED
  BY <1>1, <1>2

LEMMA InvHolds == Spec => []Inv
  BY InitInv, NextInv, PTL DEF Spec

(* Whatever the interleaving of goroutines, clients, crashes and recovery,  *)
(* the tables only ever hold statuses the schema knows.                     *)
THEOREM TypeCorrect == Spec => []TypeOK
  BY InvHolds, PTL DEF Inv

(* Ticks, enqueued goroutines and operators never run the same run twice at *)
(* a time, and inflight is exactly the set of runs being run: for any       *)
(* number of runs and of goroutines (Scheduler.runOne).                     *)
THEOREM ExecutionExclusive == Spec => []OneExecution
  BY InvHolds, PTL DEF Inv

=============================================================================
