---------------------------- MODULE RunGateProofs ---------------------------
(***************************************************************************)
(* "Model prose cannot override hard gates" (completion.go:10), for any    *)
(* number of runs, goroutines, crashes and restarts and all budgets: what  *)
(* an execution may conclude from the status it read and from the rows of  *)
(* its run, until its run is integrated or complete.                       *)
(***************************************************************************)
EXTENDS RunHistoryProofs

Passed == {"ready_to_integrate", "integrating", "complete"}

(* Where a run with a publication journal can be.                          *)
Late == Passed \cup {"integration_blocked", "blocked", "cancelled"}

Unsupervised(r) == r \notin forced \cup missed

Writes(r) == OfKind(r, "execute") \cup OfKind(r, "repair")

(* The last write is validated; and it is reviewed, with the gate open.     *)
Validated(r) ==
  /\ val[r] # "none"
  /\ \E v \in Succeeded(r, {"validate"}) : \A i \in Writes(r) : i < v

GatePassed(r) ==
  /\ val[r] = "pass"
  /\ \E v \in Succeeded(r, {"validate"}), s \in Succeeded(r, {"review"}) :
       v < s /\ \A i \in Writes(r) : i < v

PublishPCs == {"integrate", "publish", "publishing"}
GatePCs    == StagePCs \cup PublishPCs

RunGate(r) ==
  Unsupervised(r) =>
    /\ status[r] = "reviewing" => Validated(r)
    /\ status[r] \in Passed => GatePassed(r)
    /\ r \in journal => GatePassed(r) /\ status[r] \in Late

(* What a stage may hand over to, while it is still to be settled.          *)
PlanGate(w) ==
  /\ loc[w].plan.to \in Passed =>
       loc[w].plan.stage = "succeeded" /\ loc[w].seen = "reviewing" /\ val[on[w]] = "pass"
  /\ loc[w].plan.to = "reviewing" =>
       loc[w].plan.stage = "succeeded" /\ loc[w].seen = "validating" /\ val[on[w]] # "none"

WorkerGate(w) ==
  ctx[w] = "live" /\ Unsupervised(on[w]) =>
    /\ pc[w] \in StagePCs =>
         /\ on[w] \notin journal
         /\ status[on[w]] \in {loc[w].seen, "blocked"}
         /\ loc[w].seen = "reviewing" => Validated(on[w])
    /\ pc[w] \in OpenPCs => stages[on[w]][loc[w].stage].kind = Kind(w)
    /\ pc[w] \in {"settleAttempt", "settleStage"} => PlanGate(w)
    /\ pc[w] = "settleRun" => /\ loc[w].plan.to \in Passed => GatePassed(on[w])
                              /\ loc[w].plan.to = "reviewing" => Validated(on[w])
    /\ pc[w] \in PublishPCs => GatePassed(on[w]) /\ status[on[w]] \in Late

GateInv ==
  /\ phase = "journals" => recTodo \subseteq journal
  /\ \A r \in Runs : RunGate(r)
  /\ \A w \in Workers : WorkerGate(w)

-----------------------------------------------------------------------------
LEMMA GateSets ==
  /\ Passed \subseteq Late /\ Late \cap StageStatuses = {} /\ Passed \cap StageStatuses = {}
  /\ "reviewing" \notin Late /\ "reviewing" \in StageStatuses
  /\ \A s \in {"absent", "queued", "assessing", "failed"} : s \notin Late
  /\ OpenPCs \subseteq StagePCs /\ StagePCs \subseteq HeedlessPCs /\ PublishPCs \subseteq HeedlessPCs
  /\ StagePCs \cap PublishPCs = {}
  /\ \A q \in {"idle", "claimedTick", "claimedEnqueue", "release", "start", "assess", "read",
               "return"} : q \notin GatePCs
  BY DEF Passed, Late, StageStatuses, OpenPCs, StagePCs, HeedlessPCs, PublishPCs, GatePCs, EnginePCs

(* Closed rows stay, so what was validated and reviewed stays so until a    *)
(* stage is added.                                                          *)
LEMMA GateKept ==
  ASSUME NEW r, Kept(r), DOMAIN stages'[r] = DOMAIN stages[r], val'[r] = val[r]
  PROVE  /\ Validated(r) => Validated(r)'
         /\ GatePassed(r) => GatePassed(r)'
<1>1. \A i \in DOMAIN stages[r] :
        /\ i \in DOMAIN stages'[r] /\ stages'[r][i].kind = stages[r][i].kind
        /\ i \notin Running(stages[r]) => stages'[r][i] = stages[r][i]
  BY DEF Kept
<1>2. Writes(r)' = Writes(r)
  BY <1>1 DEF Writes, OfKind
<1>3. \A K : \A i \in Succeeded(r, K) : i \in Succeeded(r, K)'
  BY <1>1 DEF Succeeded, Running
<1>4. Validated(r) => Validated(r)'
  BY <1>2, <1>3 DEF Validated
<1>5. GatePassed(r) => GatePassed(r)'
  BY <1>2, <1>3 DEF GatePassed
<1> QED
  BY <1>4, <1>5

LEMMA GateSame ==
  ASSUME NEW r, stages'[r] = stages[r], val'[r] = val[r]
  PROVE  (Validated(r)' <=> Validated(r)) /\ (GatePassed(r)' <=> GatePassed(r))
  BY DEF Validated, GatePassed, Succeeded, Writes, OfKind

(* What an engine step leaves alone.                                        *)
LEMMA Locality ==
  ASSUME Inv, NEW w \in Workers, EngineStep(w)
  PROVE  /\ pc[w] \in EnginePCs /\ phase \in {"serving", "stopping"} /\ on[w] \in Runs
         /\ ctx[w] = "live" \/ ObserveCancel(w)
         /\ UNCHANGED <<phase, recTodo, on, ctx, missed, forced>>
         /\ \A v \in Workers \ {w} : pc'[v] = pc[v] /\ loc'[v] = loc[v]
         /\ \A r \in Runs \ {on[w]} :
              /\ status'[r] = status[r] /\ stages'[r] = stages[r] /\ val'[r] = val[r]
              /\ r \in journal' <=> r \in journal
<1>1. CASE ObserveCancel(w)
  <2>1. on[w] \in Runs /\ CancelRun(on[w])
    BY <1>1, EngineRun DEF ObserveCancel
  <2> QED
    BY <1>1, <2>1, CancelCloses
    DEF ObserveCancel, recovery, history, Inv, TypeOK, WorkerTypeOK
<1>2. CASE ~ObserveCancel(w)
  <2>1. PICK p \in EnginePCs : \E q : Step(w, p, q)
    BY <1>2, EngineMoves
  <2>2. /\ pc[w] \in EnginePCs /\ phase \in {"serving", "stopping"} /\ ctx[w] = "live"
        /\ UNCHANGED <<phase, recTodo, on, ctx, missed, forced>>
        /\ \A v \in Workers \ {w} : pc'[v] = pc[v]
    BY <2>1, StepFacts DEF Step, recovery, history, Inv, TypeOK, WorkerTypeOK
  <2>3. on[w] \in Runs
    BY <2>2, EngineRun
  <2>4. \A v \in Workers \ {w} : loc'[v] = loc[v]
    <3>1. loc \in [Workers -> Locals]
      BY DEF Inv, TypeOK, WorkerTypeOK
    <3>2. CASE Start(w) \/ Assess(w) \/ Read(w)
      BY <3>1, <3>2 DEF Start, Assess, Read
    <3>3. CASE BeginStage(w) \/ Route(w) \/ NextCandidate(w) \/ LadderExhausted(w) \/ Correct(w)
      BY <3>1, <3>3 DEF BeginStage, Route, NextCandidate, LadderExhausted, Correct
    <3>4. CASE Checkpoint(w)
      BY <3>1, <3>4 DEF Checkpoint
    <3>5. CASE Exec(w)
      BY <3>1, <3>5 DEF Exec
    <3>6. CASE \/ StopBlocked(w) \/ SettleAttempt(w) \/ SettleStage(w) \/ SettleRun(w)
               \/ Integrate(w) \/ Publish(w) \/ PublishEnd(w) \/ Return(w)
      BY <3>6 DEF StopBlocked, SettleAttempt, SettleStage, SettleRun, Integrate, Publish,
           PublishEnd, Return
    <3> QED
      BY <1>2, <3>2, <3>3, <3>4, <3>5, <3>6 DEF EngineStep
  <2>5. /\ status' = status \/ \E x : status' = [status EXCEPT ![on[w]] = x]
        /\ stages' = stages \/ \E x : stages' = [stages EXCEPT ![on[w]] = x]
        /\ val' = val \/ \E x : val' = [val EXCEPT ![on[w]] = x]
        /\ journal' = journal \/ journal' = journal \cup {on[w]}
    BY <1>2, EngineWrites
  <2>6. val \in [Runs -> {"none", "pass", "fail"}]
    BY DEF Inv, TypeOK, DurableTypeOK
  <2> QED
    BY <2>2, <2>3, <2>4, <2>5, <2>6, Tables
<1> QED
  BY <1>1, <1>2

(* An engine step preserves the invariant if it does for its own run.       *)
LEMMA GateOwn ==
  ASSUME Inv, GateInv, NEW w \in Workers, EngineStep(w),
         Unsupervised(on[w]) => RunGate(on[w])' /\ WorkerGate(w)'
  PROVE  GateInv'
<1>1. /\ pc[w] \in EnginePCs /\ phase \in {"serving", "stopping"} /\ on[w] \in Runs
      /\ UNCHANGED <<phase, recTodo, on, ctx, missed, forced>>
      /\ \A v \in Workers \ {w} : pc'[v] = pc[v] /\ loc'[v] = loc[v]
      /\ \A r \in Runs \ {on[w]} :
           /\ status'[r] = status[r] /\ stages'[r] = stages[r] /\ val'[r] = val[r]
           /\ r \in journal' <=> r \in journal
  BY Locality
<1>2. ASSUME NEW r \in Runs \ {on[w]}
      PROVE  RunGate(r)'
  BY <1>1, GateSame DEF GateInv, RunGate, Unsupervised
<1>3. ASSUME NEW v \in Workers \ {w}
      PROVE  WorkerGate(v)'
  <2>1. CASE on[v] = NoRun
    <3>1. pc[v] = "idle"
      BY <2>1 DEF Inv, OneExecution
    <3> QED
      BY <1>1, <3>1 DEF WorkerGate, StagePCs, OpenPCs, PublishPCs
  <2>2. CASE on[v] # NoRun
    <3>1. on[v] \in Runs \ {on[w]}
      BY <2>2 DEF Inv, TypeOK, WorkerTypeOK, OneExecution
    <3>2. /\ status'[on[v]] = status[on[v]] /\ stages'[on[v]] = stages[on[v]]
          /\ val'[on[v]] = val[on[v]] /\ (on[v] \in journal' <=> on[v] \in journal)
      BY <1>1, <3>1
    <3>3. pc'[v] = pc[v] /\ loc'[v] = loc[v] /\ on'[v] = on[v] /\ ctx'[v] = ctx[v]
      BY <1>1
    <3>4. (Validated(on[v])' <=> Validated(on[v])) /\ (GatePassed(on[v])' <=> GatePassed(on[v]))
      BY <3>2, <3>3, GateSame DEF Validated, GatePassed, Succeeded, Writes, OfKind
    <3>5. Unsupervised(on[v])' <=> Unsupervised(on[v])
      BY <1>1, <3>3 DEF Unsupervised
    <3>6. WorkerGate(v)
      BY DEF GateInv
    <3> QED
      BY <3>2, <3>3, <3>4, <3>5, <3>6 DEF WorkerGate, PlanGate, Kind
  <2> QED
    BY <2>1, <2>2
<1>4. RunGate(on[w])'
  BY <1>1 DEF RunGate, Unsupervised
<1>5. WorkerGate(w)'
  BY <1>1 DEF WorkerGate, Unsupervised
<1> QED
  BY <1>1, <1>2, <1>3, <1>4, <1>5 DEF GateInv

(* A step that adds no stage and no validation.                             *)
LEMMA OwnGate ==
  ASSUME Inv, RowInv, GateInv, NEW w \in Workers, EngineStep(w),
         DOMAIN stages'[on[w]] = DOMAIN stages[on[w]], val'[on[w]] = val[on[w]],
         Unsupervised(on[w]) =>
           /\ status'[on[w]] = "reviewing" => Validated(on[w])
           /\ status'[on[w]] \in Passed => GatePassed(on[w])
           /\ on[w] \in journal' => GatePassed(on[w]) /\ status'[on[w]] \in Late
           /\ WorkerGate(w)'
  PROVE  GateInv'
<1>1. on[w] \in Runs /\ UNCHANGED <<on, missed, forced>>
  BY Locality
<1>2. ASSUME Unsupervised(on[w])
      PROVE  RunGate(on[w])' /\ WorkerGate(w)'
  <2>1. Kept(on[w])
    BY <1>1, <1>2, EngineKeeps DEF Unsupervised
  <2>2. /\ Validated(on[w]) => Validated(on[w])'
        /\ GatePassed(on[w]) => GatePassed(on[w])'
    BY <2>1, <1>1, GateKept DEF Validated, GatePassed, Succeeded, Writes, OfKind
  <2> QED
    BY <1>1, <1>2, <2>2 DEF RunGate
<1> QED
  BY <1>2, GateOwn

(* One that leaves the stages and the journal of its run alone too.         *)
LEMMA SameGate ==
  ASSUME Inv, RowInv, GateInv, NEW w \in Workers, EngineStep(w),
         stages'[on[w]] = stages[on[w]], val'[on[w]] = val[on[w]],
         on[w] \in journal' <=> on[w] \in journal,
         \/ status'[on[w]] = status[on[w]]
         \/ /\ status'[on[w]] \notin Passed \cup {"reviewing"}
            /\ status'[on[w]] \in Late \/ on[w] \notin journal,
         Unsupervised(on[w]) => WorkerGate(w)'
  PROVE  GateInv'
<1>1. RunGate(on[w]) /\ on[w] \in Runs
  BY Locality DEF GateInv
<1>2. Unsupervised(on[w]) =>
        /\ status'[on[w]] = "reviewing" => Validated(on[w])
        /\ status'[on[w]] \in Passed => GatePassed(on[w])
        /\ on[w] \in journal' => GatePassed(on[w]) /\ status'[on[w]] \in Late
  BY <1>1 DEF RunGate
<1> QED
  BY <1>2, OwnGate

-----------------------------------------------------------------------------
(* Steps of the engine.                                                     *)

(* What holds of a worker's locals after a step of its own.                 *)
LEMMA MoveFacts ==
  ASSUME Inv, NEW w \in Workers, NEW p \in EnginePCs, NEW q, Step(w, p, q), EngineStep(w)
  PROVE  /\ pc[w] = p /\ pc'[w] = q /\ on[w] \in Runs /\ on'[w] = on[w]
         /\ ctx[w] = "live" /\ ctx'[w] = "live"
         /\ Unsupervised(on[w])' <=> Unsupervised(on[w])
  BY StepFacts, Locality DEF Unsupervised

LEMMA StartGate ==
  ASSUME Inv, RowInv, GateInv, NEW w \in Workers, Start(w)
  PROVE  GateInv'
<1>1. EngineStep(w)
  BY DEF EngineStep
<1>2. PICK q \in {"return", "assess", "read"} : Step(w, "start", q)
  BY DEF Start
<1>3. pc'[w] = q /\ on[w] \in Runs
  BY <1>1, <1>2, MoveFacts DEF EnginePCs
<1>4. /\ UNCHANGED <<stages, val, journal>>
      /\ status'[on[w]] = status[on[w]]
         \/ (status[on[w]] = "queued" /\ status'[on[w]] = "assessing")
  BY <1>3, Tables DEF Start
<1>5. WorkerGate(w)'
  BY <1>3 DEF WorkerGate, StagePCs, OpenPCs, PublishPCs
<1>6. Unsupervised(on[w]) /\ status[on[w]] = "queued" => on[w] \notin journal
  BY <1>3, GateSets DEF GateInv, RunGate
<1>7. CASE ~Unsupervised(on[w])
  BY <1>1, <1>7, GateOwn
<1>8. CASE Unsupervised(on[w])
  BY <1>1, <1>3, <1>4, <1>5, <1>6, <1>8, GateSets, SameGate DEF Passed
<1> QED
  BY <1>7, <1>8

LEMMA AssessGate ==
  ASSUME Inv, RowInv, GateInv, NEW w \in Workers, Assess(w)
  PROVE  GateInv'
<1>1. EngineStep(w)
  BY DEF EngineStep
<1>2. PICK q \in {"return", "read"} : Step(w, "assess", q)
  BY DEF Assess
<1>3. pc'[w] = q /\ on[w] \in Runs
  BY <1>1, <1>2, MoveFacts DEF EnginePCs
<1>4. /\ UNCHANGED <<stages, val, journal>>
      /\ \/ status'[on[w]] = status[on[w]]
         \/ status[on[w]] = "assessing" /\ status'[on[w]] \in {"planning", "exploring"}
  BY <1>3, Tables DEF Assess
<1>5. WorkerGate(w)'
  BY <1>3 DEF WorkerGate, StagePCs, OpenPCs, PublishPCs
<1>6. Unsupervised(on[w]) /\ status[on[w]] = "assessing" => on[w] \notin journal
  BY <1>3, GateSets DEF GateInv, RunGate
<1>7. CASE ~Unsupervised(on[w])
  BY <1>1, <1>7, GateOwn
<1>8. CASE Unsupervised(on[w])
  BY <1>1, <1>3, <1>4, <1>5, <1>6, <1>8, GateSets, SameGate DEF Passed
<1> QED
  BY <1>7, <1>8

LEMMA ReadGate ==
  ASSUME Inv, RowInv, GateInv, NEW w \in Workers, Read(w)
  PROVE  GateInv'
<1> DEFINE r == on[w]
<1>1. EngineStep(w)
  BY DEF EngineStep
<1>2. PICK q : /\ Step(w, "read", q)
               /\ q = "begin" => status[r] \in StageStatuses
               /\ q = "integrate" => status[r] \in Passed
               /\ q \in {"begin", "integrate", "return"}
  BY DEF Read, Passed
<1>3. /\ pc'[w] = q /\ r \in Runs /\ on'[w] = r
      /\ Unsupervised(r)' <=> Unsupervised(r)
  BY <1>1, <1>2, MoveFacts DEF EnginePCs
<1>4. UNCHANGED durable /\ loc'[w].seen = status[r]
  BY <1>3, Tables DEF Read, Inv, TypeOK, WorkerTypeOK, Locals, NoLocals
<1>5. RunGate(r)
  BY <1>3 DEF GateInv
<1>6. (Validated(r)' <=> Validated(r)) /\ (GatePassed(r)' <=> GatePassed(r))
  BY <1>3, <1>4 DEF durable, Validated, GatePassed, Succeeded, Writes, OfKind
<1>7. Unsupervised(r) => WorkerGate(w)'
  BY <1>2, <1>3, <1>4, <1>5, <1>6, GateSets
  DEF WorkerGate, RunGate, StagePCs, OpenPCs, PublishPCs, durable
<1> QED
  BY <1>1, <1>4, <1>7, SameGate DEF durable

LEMMA StopBlockedGate ==
  ASSUME Inv, RowInv, GateInv, NEW w \in Workers, StopBlocked(w)
  PROVE  GateInv'
<1> DEFINE r == on[w]
<1>1. EngineStep(w)
  BY DEF EngineStep
<1>2. Step(w, "begin", "read")
  BY DEF StopBlocked
<1>3. pc[w] = "begin" /\ pc'[w] = "read" /\ r \in Runs /\ ctx[w] = "live"
  BY <1>1, <1>2, MoveFacts DEF EnginePCs
<1>4. /\ UNCHANGED <<val, journal>> /\ status'[r] = "blocked"
      /\ stages' = [stages EXCEPT ![r] = CloseRunning(@, "interrupted")]
  BY <1>3, Tables DEF StopBlocked
<1>5. DOMAIN stages'[r] = DOMAIN stages[r]
  BY <1>3, <1>4, Tables DEF CloseRunning
<1>6. WorkerGate(w)'
  BY <1>3 DEF WorkerGate, StagePCs, OpenPCs, PublishPCs
<1>7. Unsupervised(r) => r \notin journal
  BY <1>3 DEF GateInv, WorkerGate, StagePCs
<1> QED
  BY <1>1, <1>4, <1>5, <1>6, <1>7, OwnGate DEF Passed

LEMMA BeginStageGate ==
  ASSUME Inv, RowInv, GateInv, NEW w \in Workers, BeginStage(w)
  PROVE  GateInv'
<1> DEFINE r == on[w]
           x == [kind |-> Kind(w), status |-> "running"]
           k == Len(stages[r]) + 1
<1>1. EngineStep(w)
  BY DEF EngineStep
<1>2. PICK q \in {"attempt", "route"} : Step(w, "begin", q)
  BY DEF BeginStage
<1>3. /\ pc[w] = "begin" /\ pc'[w] = q /\ r \in Runs /\ on'[w] = r
      /\ ctx[w] = "live" /\ ctx'[w] = "live"
      /\ Unsupervised(r)' <=> Unsupervised(r)
  BY <1>1, <1>2, MoveFacts DEF EnginePCs
<1>4. /\ UNCHANGED <<status, val, journal>>
      /\ stages' = [stages EXCEPT ![r] = Append(@, x)]
      /\ loc'[w].stage = k /\ loc'[w].seen = loc[w].seen
  BY <1>3 DEF BeginStage, Inv, TypeOK, WorkerTypeOK, Locals
<1>5. x \in Stage /\ x.status = "running" /\ x.kind = Kind(w)
  BY <1>3, StageKind DEF Stage, AttemptStatuses, StagePCs
<1> HIDE DEF x
<1>6. /\ DOMAIN stages'[r] = DOMAIN stages[r] \cup {k} /\ stages'[r][k] = x
      /\ \A i \in DOMAIN stages[r] : stages'[r][i] = stages[r][i]
      /\ \A i \in DOMAIN stages[r] : i \in Nat /\ i < k
  <2>1. PICK rows \in Seq(Stage) : rows = stages[r]
    BY <1>3, Tables
  <2>2. stages'[r] = Append(rows, x)
    BY <1>3, <1>4, <2>1, Tables
  <2> QED
    BY <1>5, <2>1, <2>2, AppendedRow
<1>7. ASSUME Unsupervised(r)
      PROVE  RunGate(r)' /\ WorkerGate(w)'
  <2>1. /\ r \notin journal /\ status[r] \in {loc[w].seen, "blocked"}
        /\ loc[w].seen = "reviewing" => Validated(r)
    BY <1>3, <1>7 DEF GateInv, WorkerGate, StagePCs
  <2>2. ASSUME loc[w].seen = "reviewing"
        PROVE  Validated(r)'
    <3>1. Kind(w) = "review"
      BY <2>2 DEF Kind, StageForStatus
    <3>2. Writes(r)' \subseteq Writes(r)
      BY <1>3, <1>5, <1>6, <3>1 DEF Writes, OfKind
    <3>3. Succeeded(r, {"validate"}) \subseteq Succeeded(r, {"validate"})'
      BY <1>3, <1>6 DEF Succeeded
    <3> QED
      BY <1>3, <1>4, <2>1, <2>2, <3>2, <3>3 DEF Validated
  <2>3. loc[w].seen \in StageStatuses
    BY <1>3 DEF Inv, LocalsOK, StagePCs
  <2>4. RunGate(r)'
    BY <1>3, <1>4, <2>1, <2>2, <2>3, GateSets DEF RunGate, Passed
  <2>5. Kind(w)' = Kind(w)
    BY <1>4 DEF Kind
  <2> QED
    BY <1>3, <1>4, <1>5, <1>6, <2>1, <2>2, <2>4, <2>5
    DEF WorkerGate, StagePCs, OpenPCs, PublishPCs
<1> QED
  BY <1>1, <1>7, GateOwn

(* From one of a stage's attempts to the next.                              *)
LEMMA StageGoesOn ==
  ASSUME Inv, RowInv, GateInv, NEW w \in Workers, EngineStep(w),
         NEW p \in OpenPCs, NEW q \in OpenPCs, Step(w, p, q),
         UNCHANGED <<status, stages, val, journal>>,
         loc'[w].seen = loc[w].seen, loc'[w].stage = loc[w].stage,
         Unsupervised(on[w]) /\ q \in {"settleAttempt", "settleStage"} => PlanGate(w)'
  PROVE  GateInv'
<1> DEFINE r == on[w]
<1>1. /\ pc[w] = p /\ pc'[w] = q /\ r \in Runs /\ on'[w] = r
      /\ ctx[w] = "live" /\ ctx'[w] = "live"
      /\ Unsupervised(r)' <=> Unsupervised(r)
  BY MoveFacts, Places DEF HeedlessPCs
<1>2. Kind(w)' = Kind(w)
  BY DEF Kind
<1>3. (Validated(r)' <=> Validated(r)) /\ (GatePassed(r)' <=> GatePassed(r))
  BY <1>1 DEF Validated, GatePassed, Succeeded, Writes, OfKind
<1>4. p \in StagePCs /\ q \in StagePCs /\ q \notin PublishPCs /\ q # "settleRun"
  BY DEF OpenPCs, StagePCs, PublishPCs
<1>5. Unsupervised(r) => WorkerGate(w)'
  BY <1>1, <1>2, <1>3, <1>4 DEF GateInv, WorkerGate
<1> QED
  BY <1>5, SameGate

LEMMA RouteGate ==
  ASSUME Inv, RowInv, GateInv, NEW w \in Workers, Route(w) \/ LadderExhausted(w)
  PROVE  GateInv'
<1>1. EngineStep(w)
  BY DEF EngineStep
<1>2. PICK p \in OpenPCs, q \in OpenPCs :
        /\ Step(w, p, q)
        /\ q \in {"settleAttempt", "settleStage"} =>
             \E to \in {"blocked", "failed"} :
               loc' = [loc EXCEPT ![w].plan = Plan("keep", "failed", "set", to)]
        /\ q \notin {"settleAttempt", "settleStage"} =>
             \E n : loc' = [loc EXCEPT ![w].left = n]
  BY DEF Route, LadderExhausted, OpenPCs
<1>3. UNCHANGED <<status, stages, val, journal>>
  BY DEF Route, LadderExhausted, durable
<1>4. loc \in [Workers -> Locals]
  BY DEF Inv, TypeOK, WorkerTypeOK
<1>5. loc'[w].seen = loc[w].seen /\ loc'[w].stage = loc[w].stage
  BY <1>2, <1>4 DEF Locals
<1>6. q \in {"settleAttempt", "settleStage"} => PlanGate(w)'
  BY <1>2, <1>4 DEF PlanGate, Plan, Locals, Passed
<1> QED
  BY <1>1, <1>2, <1>3, <1>5, <1>6, StageGoesOn

LEMMA AttemptGate ==
  ASSUME Inv, RowInv, GateInv, NEW w \in Workers,
         NextCandidate(w) \/ Correct(w) \/ Checkpoint(w)
  PROVE  GateInv'
<1>1. EngineStep(w)
  BY DEF EngineStep
<1>2. loc \in [Workers -> Locals]
  BY DEF Inv, TypeOK, WorkerTypeOK
<1>3. PICK p \in OpenPCs, q \in OpenPCs :
        /\ Step(w, p, q)
        /\ q \in {"settleAttempt", "settleStage"} =>
             loc' = [loc EXCEPT ![w].plan = Plan("failed", "failed", "set", "failed")]
  BY DEF NextCandidate, Correct, Checkpoint, AfterAppend, OpenPCs
<1>4. UNCHANGED <<status, stages, val, journal>>
  BY DEF NextCandidate, Correct, Checkpoint, AppendAttempt, durable
<1>5. loc'[w].seen = loc[w].seen /\ loc'[w].stage = loc[w].stage
  BY <1>2 DEF NextCandidate, Correct, Checkpoint, Locals
<1>6. q \in {"settleAttempt", "settleStage"} => PlanGate(w)'
  BY <1>2, <1>3 DEF PlanGate, Plan, Locals, Passed
<1> QED
  BY <1>1, <1>3, <1>4, <1>5, <1>6, StageGoesOn

(* Only a review with an open gate, or a validation, leads further.         *)
LEMMA VerdictGate ==
  ASSUME NEW w, Kind(w) \in Kinds, NEW verdict \in Verdicts, NEW pendingApproval \in BOOLEAN,
         NEW o \in Outcomes,
         val[on[w]] \in {"none", "pass", "fail"}
  PROVE  LET to == Advance(w, verdict, pendingApproval)
             p  == AfterExec(w, o, to)[2]
         IN /\ p.to \in Passed =>
                 p.stage = "succeeded" /\ Kind(w) = "review" /\ val[on[w]] # "fail"
            /\ p.to = "reviewing" => p.stage = "succeeded" /\ Kind(w) = "validate"
<1> DEFINE to == Advance(w, verdict, pendingApproval)
<1>1. /\ to \in Passed => Kind(w) = "review" /\ val[on[w]] # "fail"
      /\ to = "reviewing" => Kind(w) = "validate"
  <2>1. CompletionPolicy(loc[w].ao, val[on[w]], verdict, pendingApproval) \in
          Passed \cup {"blocked", "repairing", "replanning", "exploring"}
        /\ (val[on[w]] = "fail" =>
             CompletionPolicy(loc[w].ao, val[on[w]], verdict, pendingApproval) \notin Passed)
    BY DEF CompletionPolicy, Verdicts, Passed
  <2> HIDE DEF to
  <2>2. to = IF Kind(w) = "explore" THEN "planning"
             ELSE IF Kind(w) \in {"plan", "replan"} THEN "executing"
             ELSE IF Kind(w) \in {"execute", "repair"} THEN "validating"
             ELSE IF Kind(w) = "validate" THEN "reviewing"
             ELSE CompletionPolicy(loc[w].ao, val[on[w]], verdict, pendingApproval)
    BY DEF to, Advance, Kinds
  <2> QED
    BY <2>1, <2>2 DEF Passed, Kinds
<1> HIDE DEF to
<1>2. \A a, s, h, t : Plan(a, s, h, t).stage = s /\ Plan(a, s, h, t).to = t
  BY DEF Plan
<1>3. FailStage(w, o).to \notin Passed \cup {"reviewing"}
  BY DEF FailStage, Plan, Passed
<1>4. LET p == AfterExec(w, o, to)[2]
      IN \/ p.stage = "succeeded" /\ p.to = to
         \/ p.to \notin Passed \cup {"reviewing"}
  BY <1>2, <1>3 DEF AfterExec, Outcomes, Passed
<1> QED
  BY <1>1, <1>4 DEF to, Passed

LEMMA ExecGate ==
  ASSUME Inv, RowInv, GateInv, NEW w \in Workers, Exec(w)
  PROVE  GateInv'
<1> DEFINE r == on[w]
<1>1. EngineStep(w)
  BY DEF EngineStep
<1>2. PICK o \in Outcomes, verdict \in Verdicts, pendingApproval \in BOOLEAN,
           gate \in {"pass", "fail"}, ao \in BOOLEAN :
        /\ Step(w, "exec", "settleAttempt")
        /\ Kind(w) = "validate" => o \in {"ok", "invalid", "infrastructure"}
        /\ (o = "ok" /\ Kind(w) = "review") \/ (verdict = "pass" /\ ~pendingApproval)
        /\ (o = "ok" /\ Kind(w) = "validate") \/ gate = "pass"
        /\ ao => o = "ok" /\ Kind(w) \in {"plan", "replan"}
        /\ LET done == AfterExec(w, o, Advance(w, verdict, pendingApproval))
           IN loc' = [loc EXCEPT ![w].made = @ + 1, ![w].ao = @ \/ ao, ![w].plan = done[2],
                                 ![w].left = IF done[1] = "settleStage" THEN 0 ELSE @]
        /\ val' = IF o = "ok" /\ Kind(w) = "validate" THEN [val EXCEPT ![on[w]] = gate] ELSE val
        /\ UNCHANGED <<status, stages, attempts, journal, torn>>
  BY ZenonT(60) DEF Exec
<1> DEFINE done == AfterExec(w, o, Advance(w, verdict, pendingApproval))
           p == done[2]
<1>3. /\ pc[w] = "exec" /\ pc'[w] = "settleAttempt" /\ r \in Runs /\ on'[w] = r
      /\ ctx[w] = "live" /\ ctx'[w] = "live"
      /\ Unsupervised(r)' <=> Unsupervised(r)
  BY <1>1, <1>2, MoveFacts DEF EnginePCs
<1>4. loc[w].seen \in StageStatuses /\ Kind(w) \in Kinds
      /\ val \in [Runs -> {"none", "pass", "fail"}]
  BY <1>3, StageKind DEF Inv, LocalsOK, StagePCs, TypeOK, DurableTypeOK
<1>5. /\ p.to \in Passed => p.stage = "succeeded" /\ Kind(w) = "review" /\ val[r] # "fail"
      /\ p.to = "reviewing" => p.stage = "succeeded" /\ Kind(w) = "validate"
  <2>1. val[on[w]] \in {"none", "pass", "fail"}
    BY <1>3, <1>4
  <2> QED
    BY <1>4, <2>1, VerdictGate
<1>6. \/ val' = val
      \/ Kind(w) = "validate" /\ val' = [val EXCEPT ![r] = gate]
  BY <1>2
<1> HIDE DEF done
<1>7. loc' = [loc EXCEPT ![w].made = @ + 1, ![w].ao = @ \/ ao, ![w].plan = done[2],
                         ![w].left = IF done[1] = "settleStage" THEN 0 ELSE @]
  BY <1>2 DEF done
<1>8. loc'[w].seen = loc[w].seen /\ loc'[w].stage = loc[w].stage /\ loc'[w].plan = p
  BY <1>7 DEF Inv, TypeOK, WorkerTypeOK, Locals
<1>9. /\ Kind(w) = "validate" <=> loc[w].seen = "validating"
      /\ Kind(w) = "review" <=> loc[w].seen = "reviewing"
  BY <1>4 DEF Kind, StageForStatus, StageStatuses
<1>10. ASSUME Unsupervised(r)
       PROVE  PlanGate(w)'
  <2>1. loc[w].seen = "reviewing" => val[r] # "none"
    BY <1>3, <1>10 DEF GateInv, WorkerGate, StagePCs, Validated
  <2>2. Kind(w) = "review" => val'[r] = val[r]
    BY <1>6
  <2>3. p.to = "reviewing" => val'[r] # "none"
    <3>1. ASSUME p.to = "reviewing"
          PROVE  o = "ok" /\ Kind(w) = "validate"
      <4>1. Kind(w) = "validate" /\ p.stage = "succeeded"
        BY <1>5, <3>1
      <4>2. o # "ok" => p.stage # "succeeded"
        BY DEF p, done, AfterExec, Plan, FailStage, Outcomes
      <4> QED
        BY <4>1, <4>2
    <3> QED
      BY <1>2, <1>3, <1>4, <3>1
  <2> QED
    BY <1>3, <1>4, <1>5, <1>8, <1>9, <2>1, <2>2, <2>3 DEF PlanGate
<1>11. CASE val' = val
  BY <1>1, <1>2, <1>8, <1>10, <1>11, StageGoesOn DEF OpenPCs
<1>12. CASE Kind(w) = "validate"
  <2>1. Kind(w)' = Kind(w)
    BY <1>8 DEF Kind
  <2>2. ASSUME Unsupervised(r)
        PROVE  RunGate(r)' /\ WorkerGate(w)'
    <3>1. /\ r \notin journal /\ status[r] \in {"validating", "blocked"}
          /\ loc[w].seen = "validating" /\ stages[r][loc[w].stage].kind = Kind(w)
      BY <1>3, <1>9, <1>12, <2>2 DEF GateInv, WorkerGate, StagePCs, OpenPCs
    <3>2. RunGate(r)'
      BY <1>2, <1>3, <3>1 DEF RunGate, Passed
    <3> QED
      BY <1>2, <1>3, <1>8, <1>10, <2>1, <2>2, <3>1, <3>2
      DEF WorkerGate, StagePCs, OpenPCs, PublishPCs
  <2> QED
    BY <1>1, <2>2, GateOwn
<1> QED
  BY <1>6, <1>11, <1>12

LEMMA SettleAttemptGate ==
  ASSUME Inv, RowInv, GateInv, NEW w \in Workers, SettleAttempt(w)
  PROVE  GateInv'
<1>1. EngineStep(w)
  BY DEF EngineStep
<1>2. PICK q \in {"settleStage", "correct", "attempt"} : Step(w, "settleAttempt", q)
  BY DEF SettleAttempt
<1>3. /\ pc[w] = "settleAttempt" /\ on[w] \in Runs /\ on'[w] = on[w] /\ ctx[w] = "live"
  BY <1>1, <1>2, MoveFacts DEF EnginePCs
<1>4. UNCHANGED <<status, stages, val, journal, loc>>
  BY DEF SettleAttempt
<1>5. Unsupervised(on[w]) => PlanGate(w)'
  BY <1>3, <1>4 DEF GateInv, WorkerGate, PlanGate
<1> QED
  BY <1>1, <1>2, <1>4, <1>5, StageGoesOn DEF OpenPCs

(* The stage that is settled is the last one of its run.                    *)
LEMMA SettleStageGate ==
  ASSUME Inv, RowInv, GateInv, NEW w \in Workers, SettleStage(w)
  PROVE  GateInv'
<1> DEFINE r == on[w]
           k == loc[w].stage
           p == loc[w].plan
<1>1. EngineStep(w)
  BY DEF EngineStep
<1>2. Step(w, "settleStage", "settleRun")
  BY DEF SettleStage
<1>3. /\ pc[w] = "settleStage" /\ pc'[w] = "settleRun" /\ r \in Runs /\ on'[w] = r
      /\ ctx[w] = "live" /\ ctx'[w] = "live" /\ phase \in {"serving", "stopping"}
      /\ Unsupervised(r)' <=> Unsupervised(r)
  BY <1>1, <1>2, MoveFacts, Locality DEF EnginePCs
<1>4. /\ UNCHANGED <<status, val, journal, loc>>
      /\ stages' = [stages EXCEPT ![r][k].status = p.stage]
  BY DEF SettleStage
<1>5. WorkerRows(w) /\ loc[w].seen \in StageStatuses
  BY <1>3, Here DEF Inv, LocalsOK, StagePCs, EnginePCs
<1>6. k = Len(stages[r]) /\ (Unsupervised(r) => k \in Running(stages[r]))
  BY <1>3, <1>5 DEF WorkerRows, Unsupervised, OpenPCs
<1>7. PICK rows \in Seq(Stage) : rows = stages[r]
  BY <1>3, Tables
<1>8. /\ DOMAIN stages'[r] = DOMAIN stages[r]
      /\ \A i \in DOMAIN stages[r] : i \in Nat /\ i <= k
      /\ \A i \in DOMAIN stages[r] : stages'[r][i].kind = stages[r][i].kind
      /\ \A i \in DOMAIN stages[r] \ {k} : stages'[r][i] = stages[r][i]
      /\ k \in DOMAIN stages[r] => stages'[r][k].status = p.stage
  <2>1. stages'[r] = [rows EXCEPT ![k].status = p.stage]
    BY <1>3, <1>4, <1>7, Tables
  <2>2. \A i \in DOMAIN rows : rows[i] \in Stage
    OBVIOUS
  <2>3. DOMAIN rows = 1..Len(rows) /\ Len(rows) \in Nat
    OBVIOUS
  <2>4. k \in DOMAIN rows => [rows EXCEPT ![k].status = p.stage][k].status = p.stage
    BY <2>2 DEF Stage
  <2> QED
    BY <1>6, <1>7, <2>1, <2>3, <2>4, MarkedStage
<1>9. ASSUME Unsupervised(r)
      PROVE  WorkerGate(w)'
  <2>1. /\ r \notin journal /\ status[r] \in {loc[w].seen, "blocked"}
        /\ loc[w].seen = "reviewing" => Validated(r)
        /\ stages[r][k].kind = Kind(w) /\ PlanGate(w)
    BY <1>3, <1>9 DEF GateInv, WorkerGate, StagePCs, OpenPCs
  <2>2. k \in DOMAIN stages[r] /\ stages[r][k].status = "running"
    BY <1>6, <1>9 DEF Running
  <2>3. Writes(r)' = Writes(r)
    BY <1>3, <1>8 DEF Writes, OfKind
  <2>4. Kept(r)
    BY <1>1, <1>3, <1>9, EngineKeeps, Locality DEF Unsupervised
  <2>5. /\ Validated(r) => Validated(r)'
        /\ GatePassed(r) => GatePassed(r)'
    <3>1. DOMAIN stages'[r] = DOMAIN stages[r] /\ val'[r] = val[r] /\ on' = on
      BY <1>1, <1>4, <1>8, Locality
    <3> QED
      BY <2>4, <3>1, GateKept DEF Validated, GatePassed, Succeeded, Writes, OfKind
  <2>6. Kind(w) \in {"validate", "review"} => k \notin Writes(r)
    BY <2>1 DEF Writes, OfKind
  <2>7. /\ loc[w].seen = "reviewing" => Kind(w) = "review"
        /\ loc[w].seen = "validating" => Kind(w) = "validate"
    BY DEF Kind, StageForStatus
  <2>8. ASSUME p.to \in Passed
        PROVE  GatePassed(r)'
    <3>1. p.stage = "succeeded" /\ Kind(w) = "review" /\ val[r] = "pass" /\ Validated(r)
      BY <2>1, <2>7, <2>8 DEF PlanGate
    <3>2. PICK v \in Succeeded(r, {"validate"}) : \A i \in Writes(r) : i < v
      BY <3>1 DEF Validated
    <3>3. v \in DOMAIN stages[r] /\ v # k /\ v < k
      BY <1>8, <2>2, <3>2 DEF Succeeded
    <3>4. v \in Succeeded(r, {"validate"})'
      BY <1>3, <1>8, <3>2, <3>3 DEF Succeeded
    <3>5. k \in Succeeded(r, {"review"})'
      BY <1>3, <1>8, <2>1, <2>2, <3>1 DEF Succeeded
    <3> QED
      BY <1>3, <1>4, <2>3, <3>1, <3>2, <3>3, <3>4, <3>5 DEF GatePassed
  <2>9. ASSUME p.to = "reviewing"
        PROVE  Validated(r)'
    <3>1. p.stage = "succeeded" /\ Kind(w) = "validate" /\ val[r] # "none"
      BY <2>1, <2>7, <2>9 DEF PlanGate
    <3>2. k \in Succeeded(r, {"validate"})'
      BY <1>3, <1>8, <2>1, <2>2, <3>1 DEF Succeeded
    <3>3. \A i \in Writes(r) : i < k
      <4>1. \A i \in Writes(r) : i \in DOMAIN stages[r] /\ i # k
        BY <2>6, <3>1 DEF Writes, OfKind
      <4> QED
        BY <1>6, <1>8, <2>2, <4>1
    <3> QED
      BY <1>3, <1>4, <2>3, <3>1, <3>2, <3>3 DEF Validated
  <2> QED
    BY <1>3, <1>4, <2>1, <2>5, <2>8, <2>9
    DEF WorkerGate, StagePCs, OpenPCs, PublishPCs
<1>10. CASE ~Unsupervised(r)
  BY <1>1, <1>10, GateOwn
<1>11. CASE Unsupervised(r)
  <2>1. RunGate(r)
    BY <1>3 DEF GateInv
  <2> QED
    BY <1>1, <1>4, <1>8, <1>9, <1>11, <2>1, OwnGate DEF RunGate
<1> QED
  BY <1>10, <1>11

LEMMA SettleRunGate ==
  ASSUME Inv, RowInv, GateInv, NEW w \in Workers, SettleRun(w)
  PROVE  GateInv'
<1> DEFINE r == on[w]
<1>1. EngineStep(w)
  BY DEF EngineStep
<1>2. PICK q \in {"read", "return"} : Step(w, "settleRun", q)
  BY DEF SettleRun
<1>3. /\ pc[w] = "settleRun" /\ pc'[w] = q /\ r \in Runs /\ ctx[w] = "live"
  BY <1>1, <1>2, MoveFacts DEF EnginePCs
<1>4. /\ UNCHANGED <<stages, val, journal>>
      /\ status'[r] = status[r] \/ status'[r] = loc[w].plan.to
  BY <1>3, Tables DEF SettleRun
<1>5. WorkerGate(w)'
  BY <1>3 DEF WorkerGate, StagePCs, OpenPCs, PublishPCs
<1>6. Unsupervised(r) =>
        /\ r \notin journal /\ RunGate(r)
        /\ loc[w].plan.to \in Passed => GatePassed(r)
        /\ loc[w].plan.to = "reviewing" => Validated(r)
  BY <1>3 DEF GateInv, WorkerGate, StagePCs
<1> QED
  BY <1>1, <1>4, <1>5, <1>6, OwnGate DEF RunGate

(* Publishing: the gate was passed before.                                  *)
LEMMA IntegrationGate ==
  ASSUME Inv, RowInv, GateInv, NEW w \in Workers, Integrate(w) \/ Publish(w) \/ PublishEnd(w)
  PROVE  GateInv'
<1> DEFINE r == on[w]
<1>1. EngineStep(w)
  BY DEF EngineStep
<1>2. PICK p \in PublishPCs, q \in {"read", "publish", "publishing"} : Step(w, p, q)
  BY DEF Integrate, Publish, PublishEnd, PublishPCs
<1>3. /\ pc[w] = p /\ pc'[w] = q /\ r \in Runs /\ on'[w] = r /\ ctx[w] = "live"
      /\ Unsupervised(r)' <=> Unsupervised(r)
  BY <1>1, <1>2, MoveFacts DEF EnginePCs, PublishPCs
<1>4. UNCHANGED <<stages, val>>
  BY DEF Integrate, Publish, PublishEnd
<1>5. \/ status'[r] = status[r]
      \/ status'[r] \in {"complete", "integrating", "integration_blocked"}
  BY <1>3, Tables DEF Integrate, Publish, PublishEnd
<1>6. (Validated(r)' <=> Validated(r)) /\ (GatePassed(r)' <=> GatePassed(r))
  BY <1>3, <1>4 DEF Validated, GatePassed, Succeeded, Writes, OfKind
<1>7. Unsupervised(r) => GatePassed(r) /\ status[r] \in Late /\ status'[r] \in Late
  BY <1>3, <1>5 DEF GateInv, WorkerGate, Late, Passed
<1>8. Unsupervised(r) => WorkerGate(w)'
  BY <1>3, <1>6, <1>7 DEF WorkerGate, StagePCs, OpenPCs, PublishPCs
<1> QED
  BY <1>1, <1>4, <1>7, <1>8, GateSets, OwnGate

LEMMA LeavingGate ==
  ASSUME Inv, RowInv, GateInv, NEW w \in Workers, ObserveCancel(w) \/ Return(w)
  PROVE  GateInv'
<1> DEFINE r == on[w]
<1>1. EngineStep(w)
  BY DEF EngineStep
<1>2. r \in Runs /\ pc'[w] = "release" /\ UNCHANGED <<val, journal>>
  BY <1>1, Locality, StepFacts DEF ObserveCancel, Return, durable, Inv, TypeOK, WorkerTypeOK
<1>3. WorkerGate(w)'
  BY <1>2 DEF WorkerGate, StagePCs, OpenPCs, PublishPCs
<1>4. DOMAIN stages'[r] = DOMAIN stages[r] /\ status'[r] \in {status[r], "cancelled"}
  BY <1>2, CancelCloses DEF ObserveCancel, Return, durable
<1>5. RunGate(r)
  BY <1>2 DEF GateInv
<1> QED
  BY <1>1, <1>2, <1>3, <1>4, <1>5, OwnGate DEF RunGate, Late, Passed

LEMMA EngineGate ==
  ASSUME Inv, RowInv, GateInv, NEW w \in Workers, EngineStep(w)
  PROVE  GateInv'
  BY StartGate, AssessGate, ReadGate, StopBlockedGate, BeginStageGate, RouteGate, AttemptGate,
     ExecGate, SettleAttemptGate, SettleStageGate, SettleRunGate, IntegrationGate, LeavingGate
  DEF EngineStep

-----------------------------------------------------------------------------
(* Everybody else.                                                          *)

(* What a step that is not the engine's may do: it adds no stage, validates *)
(* nothing, begins no publication, and moves a run only to where the gate   *)
(* does not matter or was passed.                                           *)
LEMMA OutsideGate ==
  ASSUME Inv, RowInv, GateInv, [Next]_vars,
         missed \subseteq missed', forced \subseteq forced',
         phase' = "journals" => recTodo' \subseteq journal',
         val' = val, journal' \subseteq journal,
         \A r \in Runs : DOMAIN stages'[r] = DOMAIN stages[r],
         \A r \in Runs \ forced' :
           \/ status'[r] = status[r]
           \/ status'[r] \in Late \ Passed
           \/ r \in journal /\ status'[r] \in Late
           \/ status[r] = "absent" /\ status'[r] = "queued",
         \A v \in Workers :
           \/ pc'[v] \notin GatePCs
           \/ ctx'[v] # "live"
           \/ on'[v] \in missed' \cup forced'
           \/ /\ pc'[v] = pc[v] /\ on'[v] = on[v] /\ loc'[v] = loc[v] /\ ctx'[v] = ctx[v]
              /\ status'[on[v]] \in {status[on[v]], "blocked"}
  PROVE  GateInv'
<1>1. ASSUME NEW r \in Runs, Unsupervised(r)'
      PROVE  /\ Unsupervised(r) /\ Kept(r)
             /\ Validated(r) => Validated(r)'
             /\ GatePassed(r) => GatePassed(r)'
  <2>1. Unsupervised(r) /\ Kept(r)
    BY <1>1, NextKeeps DEF Unsupervised
  <2> QED
    BY <2>1, GateKept
<1>2. ASSUME NEW r \in Runs
      PROVE  RunGate(r)'
  <2> SUFFICES ASSUME Unsupervised(r)'
               PROVE  /\ status'[r] = "reviewing" => Validated(r)'
                      /\ status'[r] \in Passed => GatePassed(r)'
                      /\ r \in journal' => GatePassed(r)' /\ status'[r] \in Late
    BY DEF RunGate
  <2>1. RunGate(r) /\ r \in Runs \ forced'
    BY DEF GateInv, Unsupervised
  <2>2. "queued" \notin Passed
    BY DEF Passed
  <2> QED
    BY <1>1, <2>1, <2>2, GateSets DEF RunGate
<1>3. ASSUME NEW v \in Workers
      PROVE  WorkerGate(v)'
  <2> SUFFICES ASSUME pc'[v] \in GatePCs, ctx'[v] = "live", on'[v] \notin missed' \cup forced'
               PROVE  WorkerGate(v)'
    BY DEF WorkerGate, Unsupervised, GatePCs, StagePCs, OpenPCs, PublishPCs
  <2>1. /\ pc'[v] = pc[v] /\ on'[v] = on[v] /\ loc'[v] = loc[v] /\ ctx'[v] = ctx[v]
        /\ status'[on[v]] \in {status[on[v]], "blocked"}
    OBVIOUS
  <2>2. on[v] \in Runs
    BY <2>1, EngineRun, GateSets, Places DEF GatePCs
  <2>3. Unsupervised(on[v])' /\ Unsupervised(on[v])
    BY <2>1 DEF Unsupervised
  <2>4. /\ Validated(on[v]) => Validated(on[v])'
        /\ GatePassed(on[v]) => GatePassed(on[v])'
        /\ Kept(on[v])
    <3>1. PICK r \in Runs : r = on[v]
      BY <2>2
    <3>2. Unsupervised(r)' /\ on'[v] = r
      BY <2>1, <2>3, <3>1 DEF Unsupervised
    <3> QED
      BY <1>1, <3>1, <3>2 DEF Validated, GatePassed, Succeeded, Writes, OfKind
  <2>5. pc[v] \in OpenPCs => stages'[on[v]][loc[v].stage].kind = stages[on[v]][loc[v].stage].kind
    <3>1. WorkerRows(v)
      BY DEF RowInv
    <3>2. pc[v] \in OpenPCs => loc[v].stage \in DOMAIN stages[on[v]]
      BY <2>1, <2>3, <3>1 DEF WorkerRows, Unsupervised, Running
    <3> QED
      BY <2>4, <3>2 DEF Kept
  <2>6. WorkerGate(v) /\ Kind(v)' = Kind(v) /\ (PlanGate(v)' <=> PlanGate(v))
    BY <2>1 DEF GateInv, Kind, PlanGate
  <2> QED
    BY <2>1, <2>3, <2>4, <2>5, <2>6 DEF WorkerGate, Late
<1> QED
  BY <1>2, <1>3 DEF GateInv

LEMMA SchedulerGate ==
  ASSUME Inv, RowInv, GateInv,
         \/ TickList \/ \E w \in Workers : Register(w) \/ Release(w)
         \/ \E r \in Runs : RunOne(r) \/ TickVisit(r)
  PROVE  GateInv'
<1>1. [Next]_vars
  BY DEF Next, WorkerStep
<1>2. UNCHANGED <<stages, val, journal, missed, forced, recTodo, phase>> /\ phase # "journals"
  BY DEF TickList, Register, Release, RunOne, TickVisit, durable, recovery, history
<1>3. \A r \in Runs : status'[r] \in {status[r], "blocked"}
  BY Tables DEF TickList, Register, Release, RunOne, TickVisit, durable
<1>4. \A v \in Workers :
        \/ pc'[v] \notin GatePCs
        \/ pc'[v] = pc[v] /\ on'[v] = on[v] /\ loc'[v] = loc[v] /\ ctx'[v] = ctx[v]
  BY GateSets
  DEF TickList, Register, Release, RunOne, TickVisit, Claim, worker, Inv, TypeOK, WorkerTypeOK
<1>5. \A v \in Workers : pc[v] \in GatePCs => on[v] \in Runs
  BY EngineRun, GateSets, Places DEF GatePCs
<1>6. "blocked" \in Late \ Passed
  BY DEF Late, Passed
<1> QED
  BY <1>1, <1>2, <1>3, <1>4, <1>5, <1>6, OutsideGate

LEMMA ApiGate ==
  ASSUME Inv, RowInv, GateInv, NEW r \in Runs, ApiStep(r)
  PROVE  GateInv'
<1>1. [Next]_vars
  BY DEF Next
<1>2. \A v \in Workers : pc[v] \in GatePCs => pc[v] \in HeedlessPCs /\ on[v] \in Runs
  BY EngineRun, GateSets, Places DEF GatePCs
<1>3. /\ "blocked" \in Late \ Passed /\ "cancelled" \in Late \ Passed
  BY DEF Late, Passed
<1>4. CASE Submit(r)
  <2>1. /\ UNCHANGED <<stages, val, journal, missed, forced, recTodo, phase, pc, on, ctx, loc>>
        /\ phase # "journals" /\ status[r] = "absent"
    BY <1>4 DEF Submit, recovery, history, worker
  <2>2. /\ \A s \in Runs \ {r} : status'[s] = status[s]
        /\ status'[r] \in {"queued", "blocked"}
    BY <1>4, Tables DEF Submit, Enqueue
  <2>3. \A v \in Workers : pc[v] \in GatePCs => on[v] \in Runs \ {r}
    BY <1>2, <2>1, Known, RunsAssumption DEF Inv, OneExecution
  <2> QED
    BY <1>1, <1>3, <2>1, <2>2, <2>3, OutsideGate
<1>5. CASE CancelSignal(r)
  <2>1. /\ UNCHANGED <<status, stages, val, journal, missed, forced, recTodo, phase, pc, on, loc>>
        /\ phase # "journals"
        /\ \A v \in Workers : ctx'[v] = ctx[v] \/ ctx'[v] # "live"
    BY <1>5 DEF CancelSignal, durable, recovery
  <2> QED
    BY <1>1, <2>1, OutsideGate
<1>6. CASE CancelCommit(r)
  <2>1. /\ UNCHANGED <<val, journal, forced, recTodo, phase, pc, on, ctx, loc>>
        /\ phase # "journals" /\ missed \subseteq missed'
    BY <1>6 DEF CancelCommit, recovery, worker
  <2>2. \/ UNCHANGED <<status, stages>>
        \/ /\ CancelRun(r) /\ status[r] \notin Terminal
           /\ Heedless(r) => r \in missed'
    BY <1>6 DEF CancelCommit, CancelRun
  <2>3. /\ \A s \in Runs \ {r} : status'[s] = status[s] /\ stages'[s] = stages[s]
        /\ DOMAIN stages'[r] = DOMAIN stages[r] /\ status'[r] \in {status[r], "cancelled"}
        /\ Heedless(r) => r \in missed' \/ status'[r] = status[r]
    BY <2>2, CancelCloses
  <2>4. \A v \in Workers : pc[v] \in GatePCs /\ ctx[v] = "live" /\ on[v] = r => Heedless(r)
    BY <1>2 DEF Heedless, HeedlessPCs
  <2> QED
    BY <1>1, <1>2, <1>3, <2>1, <2>3, <2>4, OutsideGate
<1>7. CASE ManualIntegrate(r)
  <2>1. /\ UNCHANGED <<stages, val, journal, missed, recTodo, phase, pc, on, ctx, loc>>
        /\ phase # "journals" /\ forced' = forced \cup {r}
        /\ \A s \in Runs \ {r} : status'[s] = status[s]
    BY <1>7, Tables DEF ManualIntegrate, Enqueue, recovery, worker
  <2> QED
    BY <1>1, <1>2, <2>1, OutsideGate
<1> QED
  BY <1>4, <1>5, <1>6, <1>7 DEF ApiStep

LEMMA ProcessGate ==
  ASSUME Inv, RowInv, GateInv,
         Shutdown \/ StopDone \/ Crash \/ Restart \/ NextPhase \/ DiskChange
  PROVE  GateInv'
<1>1. [Next]_vars
  BY DEF Next
<1>2. UNCHANGED <<status, stages, val, journal, missed, forced>>
  BY DEF Shutdown, StopDone, Crash, Exit, Restart, NextPhase, DiskChange, durable, history
<1>3. phase' = "journals" => recTodo' \subseteq journal'
  <2>1. CASE Shutdown \/ StopDone \/ Crash \/ Restart
    BY <2>1 DEF Shutdown, StopDone, Crash, Exit, Restart
  <2>2. CASE NextPhase
    BY <1>2, <2>2 DEF NextPhase
  <2>3. CASE DiskChange
    BY <1>2, <2>3 DEF DiskChange, recovery, GateInv
  <2> QED
    BY <2>1, <2>2, <2>3
<1>4. \A v \in Workers :
        \/ pc'[v] = "idle" \/ ctx'[v] # "live"
        \/ pc'[v] = pc[v] /\ on'[v] = on[v] /\ loc'[v] = loc[v] /\ ctx'[v] = ctx[v]
  BY DEF Shutdown, StopDone, Crash, Exit, Restart, NextPhase, DiskChange, worker
<1> QED
  BY <1>1, <1>2, <1>3, <1>4, GateSets, OutsideGate

LEMMA RecoveryGate ==
  ASSUME Inv, RowInv, GateInv, NEW r \in Runs, RecoveryStep(r)
  PROVE  GateInv'
<1>1. [Next]_vars
  BY DEF Next
<1>2. UNCHANGED <<val, missed, forced, phase, pc, on, ctx, loc>> /\ phase \notin {"serving", "stopping"}
  BY DEF RecoveryStep, RecoverTerminal, RecoverAttempt, RecoverBlock, RecoverStages,
     RecoverJournal, history, worker
<1>3. \A v \in Workers : pc'[v] \notin GatePCs
  BY <1>2, GateSets DEF RowInv, RecoveryOK
<1>4. \A s \in Runs : DOMAIN stages'[s] = DOMAIN stages[s]
  BY Tables
  DEF RecoveryStep, RecoverTerminal, RecoverAttempt, RecoverBlock, RecoverStages,
      RecoverJournal, CloseRunning
<1>5. journal' \subseteq journal /\ (phase' = "journals" => recTodo' \subseteq journal')
  BY DEF RecoveryStep, RecoverTerminal, RecoverAttempt, RecoverBlock, RecoverStages,
     RecoverJournal, GateInv
<1>6. \A s \in Runs :
        \/ status'[s] \in {status[s], "blocked", "integration_blocked"}
        \/ s \in journal /\ status'[s] = "complete"
  BY Tables
  DEF RecoveryStep, RecoverTerminal, RecoverAttempt, RecoverBlock, RecoverStages,
      RecoverJournal, GateInv
<1>7. {"blocked", "integration_blocked"} \subseteq Late \ Passed /\ "complete" \in Late
  BY DEF Late, Passed
<1> QED
  BY <1>1, <1>2, <1>3, <1>4, <1>5, <1>6, <1>7, OutsideGate

-----------------------------------------------------------------------------
LEMMA InitGate == Init => GateInv
  BY DEF Init, GateInv, RunGate, WorkerGate, Passed, StagePCs, OpenPCs, PublishPCs

LEMMA StillGate ==
  ASSUME Inv, RowInv, GateInv, UNCHANGED vars
  PROVE  GateInv'
<1>1. UNCHANGED <<status, stages, val, journal, missed, forced, phase, recTodo, pc, on, ctx, loc>>
  BY DEF vars, durable, recovery, worker, history
<1> QED
  BY <1>1, OutsideGate DEF GateInv

LEMMA NextGate ==
  ASSUME Inv, RowInv, GateInv, [Next]_vars
  PROVE  GateInv'
  BY EngineGate, SchedulerGate, ApiGate, ProcessGate, RecoveryGate, StillGate
  DEF Next, WorkerStep

(* "Model prose cannot override hard gates" (completion.go:10): however     *)
(* often a run is stopped, cancelled, crashed and resumed, it is integrated *)
(* or complete only if its last write was validated with no blocking        *)
(* failure and reviewed after that, unless an operator sent it there or a   *)
(* client cancelled it behind a live execution.                             *)
THEOREM GateHolds == Spec => []HardGate
<1>1. Init => GateInv
  BY InitGate
<1>2. Inv /\ RowInv /\ GateInv /\ [Next]_vars => GateInv'
  BY NextGate
<1>3. GateInv => HardGate
  BY DEF GateInv, RunGate, Unsupervised, GatePassed, Passed, HardGate, Writes, OfKind
<1> QED
  BY <1>1, <1>2, <1>3, RowsHold, PTL DEF Spec

=============================================================================
