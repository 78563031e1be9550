-------------------------- MODULE RunHistoryProofs --------------------------
(***************************************************************************)
(* What executions, cancellations, crashes and recovery leave in the       *)
(* tables of RunLifecycle, for any number of runs and goroutines and all   *)
(* budgets: at most the last stage and the last attempt of a run are open, *)
(* no row stays open without somebody working on it, closed rows never     *)
(* change, and a finished run stays finished.                              *)
(***************************************************************************)
EXTENDS RunLifecycleProofs

(* Statuses nothing continues from by itself to another stage.             *)
Resting == Terminal \cup Halted \cup {"ready_to_integrate", "integrating"}

(* Where a worker has a stage open, where also an attempt, where neither,  *)
(* and where its next write does not look at the run's status.             *)
OpenPCs     == {"route", "attempt", "correct", "checkpoint", "exec", "settleAttempt",
                "settleStage"}
AttemptPCs  == {"checkpoint", "exec", "settleAttempt"}
ClosedPCs   == {"assess", "begin", "settleRun"}
HeedlessPCs == EnginePCs \ {"start", "read", "return"}

AllClosed(r) == Running(stages[r]) = {} /\ Running(attempts[r]) = {}

(* What a worker knows of the rows of its run.                             *)
WorkerRows(w) ==
  /\ pc[w] \in OpenPCs => loc[w].stage = Len(stages[on[w]])
  /\ pc[w] \in AttemptPCs => /\ loc[w].att = Len(attempts[on[w]])
                             /\ loc[w].att \in DOMAIN attempts[on[w]]
                             /\ attempts[on[w]][loc[w].att].stage = loc[w].stage
  /\ pc[w] \in ClosedPCs => AllClosed(on[w])
  /\ pc[w] \in OpenPCs \ AttemptPCs => Running(attempts[on[w]]) = {}
  /\ pc[w] = "settleAttempt" => loc[w].plan.att # "running"
  /\ pc[w] \in {"settleAttempt", "settleStage"} => loc[w].plan.stage # "running"
  /\ pc[w] = "settleAttempt" /\ loc[w].plan.stage # "keep" => loc[w].plan.to # "absent"
  /\ pc[w] \in {"settleStage", "settleRun"} => loc[w].plan.to # "absent"
  /\ ctx[w] = "live" /\ on[w] \notin missed =>
       /\ pc[w] \in HeedlessPCs => status[on[w]] \notin Terminal
       /\ pc[w] \in OpenPCs => loc[w].stage \in Running(stages[on[w]])
       /\ pc[w] \in AttemptPCs => loc[w].att \in Running(attempts[on[w]])

(* Somebody is about to close what r has open.                             *)
Attended(r) ==
  IF phase = "active" THEN r \in recTodo
  ELSE \E w \in Workers : on[w] = r /\ pc[w] \in OpenPCs

LastOpen(r) == /\ Running(stages[r]) \subseteq {Len(stages[r])}
               /\ Running(attempts[r]) \subseteq {Len(attempts[r])}

OpenInOpen(r) ==
  r \notin missed => \A i \in Running(attempts[r]) : attempts[r][i].stage \in Running(stages[r])

EndedClosed(r) == r \notin missed /\ status[r] \in Terminal => AllClosed(r)

(* Nobody knows of a run that was never submitted.                          *)
Unborn(r) ==
  status[r] = "absent" =>
    AllClosed(r) /\ r \notin inflight \cup tick.todo \cup cancelling /\ pending[r] = 0

OpenAttended(r) ==
  phase \notin {"down", "terminals"} /\ ~Attended(r) /\ ~AllClosed(r)
    => r \in missed /\ status[r] \in Resting

RunRows(r) == LastOpen(r) /\ OpenInOpen(r) /\ EndedClosed(r) /\ Unborn(r) /\ OpenAttended(r)

RecoveryOK ==
  /\ phase \notin {"serving", "stopping"} => \A w \in Workers : pc[w] = "idle"
  /\ recBlock # NoRun => phase = "active" /\ recBlock \in recTodo
  /\ phase = "terminals" => \A r \in recTodo : status[r] \in Terminal
  /\ phase = "active" => \A r \in recTodo : status[r] \notin Terminal \cup {"absent"}

RowInv == RecoveryOK /\ (\A w \in Workers : WorkerRows(w)) /\ (\A r \in Runs : RunRows(r))

-----------------------------------------------------------------------------
(* Rows.                                                                    *)

LEMMA Tables ==
  ASSUME Inv, NEW r \in Runs
  PROVE  /\ stages[r] \in Seq(Stage) /\ attempts[r] \in Seq(Attempt)
         /\ Len(stages[r]) \in Nat /\ Len(attempts[r]) \in Nat
         /\ DOMAIN stages[r] = 1..Len(stages[r]) /\ DOMAIN attempts[r] = 1..Len(attempts[r])
         /\ stages \in [Runs -> Seq(Stage)] /\ attempts \in [Runs -> Seq(Attempt)]
         /\ status \in [Runs -> RunStatuses]
  BY DEF Inv, TypeOK, DurableTypeOK

LEMMA StatusSet ==
  ASSUME NEW R, R \in {Stage, Attempt}, NEW s \in AttemptStatuses
  PROVE  \A x \in R : [x EXCEPT !.status = s] \in R /\ [x EXCEPT !.status = s].status = s
<1>1. CASE R = Stage
  BY <1>1 DEF Stage
<1>2. CASE R = Attempt
  BY <1>2 DEF Attempt
<1> QED
  BY <1>1, <1>2

(* CloseRunning leaves nothing running and what was closed as it was.       *)
LEMMA ClosedRows ==
  ASSUME NEW R, R \in {Stage, Attempt}, NEW rows \in Seq(R), NEW s \in AttemptStatuses \ {"running"}
  PROVE  /\ Running(CloseRunning(rows, s)) = {}
         /\ DOMAIN CloseRunning(rows, s) = DOMAIN rows
         /\ Len(CloseRunning(rows, s)) = Len(rows)
         /\ \A i \in DOMAIN rows : i \notin Running(rows) => CloseRunning(rows, s)[i] = rows[i]
<1>1. \A x \in R : [x EXCEPT !.status = s] \in R /\ [x EXCEPT !.status = s].status = s
  BY StatusSet
<1>2. Len(CloseRunning(rows, s)) = Len(rows)
  BY <1>1, CloseRows
<1>3. DOMAIN CloseRunning(rows, s) = DOMAIN rows
  BY DEF CloseRunning
<1>4. \A i \in DOMAIN rows : i \notin Running(rows) => CloseRunning(rows, s)[i] = rows[i]
  BY DEF CloseRunning, Running
<1>5. \A i \in DOMAIN rows : rows[i] \in R
  OBVIOUS
<1>6. \A i \in DOMAIN rows : CloseRunning(rows, s)[i].status # "running"
  BY <1>1, <1>5 DEF CloseRunning
<1> QED
  BY <1>2, <1>3, <1>4, <1>6 DEF Running

(* Writing a closing status into one row.                                   *)
Marked(rows, k, s) == [rows EXCEPT ![k].status = s]

LEMMA MarkedRows ==
  ASSUME NEW R, R \in {Stage, Attempt}, NEW rows \in Seq(R), NEW k,
         NEW s \in AttemptStatuses \ {"running"}
  PROVE  /\ Running(Marked(rows, k, s)) = Running(rows) \ {k}
         /\ DOMAIN Marked(rows, k, s) = DOMAIN rows /\ Len(Marked(rows, k, s)) = Len(rows)
         /\ \A i \in DOMAIN rows \ {k} : Marked(rows, k, s)[i] = rows[i]
<1> DEFINE new == [rows EXCEPT ![k].status = s]
<1>1. \A x \in R : [x EXCEPT !.status = s] \in R /\ [x EXCEPT !.status = s].status = s
  BY StatusSet
<1>2. Len(new) = Len(rows)
  BY <1>1, MarkRow
<1>3. DOMAIN new = DOMAIN rows /\ \A i \in DOMAIN rows \ {k} : new[i] = rows[i]
  OBVIOUS
<1>4. k \in DOMAIN rows => new[k] = [rows[k] EXCEPT !.status = s] /\ rows[k] \in R
  OBVIOUS
<1>5. k \in DOMAIN rows => new[k].status = s
  BY <1>1, <1>4
<1>6. Running(new) = Running(rows) \ {k}
  BY <1>3, <1>5 DEF Running
<1> QED
  BY <1>2, <1>3, <1>6 DEF Marked

(* A closing status leaves the other columns of a row alone.                *)
LEMMA MarkedStage ==
  ASSUME NEW rows \in Seq(Stage), NEW k, NEW s
  PROVE  \A i \in DOMAIN rows : [rows EXCEPT ![k].status = s][i].kind = rows[i].kind
  BY DEF Stage

LEMMA MarkedAttempt ==
  ASSUME NEW rows \in Seq(Attempt), NEW k, NEW s
  PROVE  \A i \in DOMAIN rows : [rows EXCEPT ![k].status = s][i].stage = rows[i].stage
  BY DEF Attempt

LEMMA ClosedColumns ==
  ASSUME NEW s
  PROVE  /\ \A rows \in Seq(Stage) : \A i \in DOMAIN rows :
              CloseRunning(rows, s)[i].kind = rows[i].kind
         /\ \A rows \in Seq(Attempt) : \A i \in DOMAIN rows :
              CloseRunning(rows, s)[i].stage = rows[i].stage
<1>1. ASSUME NEW rows \in Seq(Stage), NEW i \in DOMAIN rows
      PROVE  CloseRunning(rows, s)[i].kind = rows[i].kind
  <2>1. rows[i] \in Stage
    OBVIOUS
  <2> QED
    BY <2>1 DEF CloseRunning, Stage
<1>2. ASSUME NEW rows \in Seq(Attempt), NEW i \in DOMAIN rows
      PROVE  CloseRunning(rows, s)[i].stage = rows[i].stage
  <2>1. rows[i] \in Attempt
    OBVIOUS
  <2> QED
    BY <2>1 DEF CloseRunning, Attempt
<1> QED
  BY <1>1, <1>2

(* A new row is the only one that is added.                                 *)
LEMMA AppendedRow ==
  ASSUME NEW R, R \in {Stage, Attempt}, NEW rows \in Seq(R), NEW x \in R, x.status = "running"
  PROVE  LET new == Append(rows, x)
         IN /\ Running(new) = Running(rows) \cup {Len(rows) + 1}
            /\ Len(new) = Len(rows) + 1 /\ DOMAIN new = 1..(Len(rows) + 1)
            /\ new[Len(rows) + 1] = x
            /\ \A i \in DOMAIN rows : i \in DOMAIN new /\ new[i] = rows[i]
<1> DEFINE new == Append(rows, x)
<1>1. Len(new) = Len(rows) + 1 /\ DOMAIN new = 1..(Len(rows) + 1) /\ Len(rows) \in Nat
      /\ DOMAIN rows = 1..Len(rows)
  OBVIOUS
<1>2. new[Len(rows) + 1] = x /\ \A i \in 1..Len(rows) : new[i] = rows[i]
  OBVIOUS
<1> HIDE DEF new
<1>3. Running(new) = Running(rows) \cup {Len(rows) + 1}
  BY <1>1, <1>2 DEF Running
<1> QED
  BY <1>1, <1>2, <1>3 DEF new

(* The checkpoint's column is not looked at here.                           *)
LEMMA CheckpointedRow ==
  ASSUME NEW rows \in Seq(Attempt), NEW k
  PROVE  LET new == [rows EXCEPT ![k].cp = TRUE]
         IN /\ Running(new) = Running(rows) /\ DOMAIN new = DOMAIN rows /\ Len(new) = Len(rows)
            /\ \A i \in DOMAIN rows : new[i].stage = rows[i].stage
            /\ \A i \in DOMAIN rows \ {k} : new[i] = rows[i]
<1> DEFINE new == [rows EXCEPT ![k].cp = TRUE]
<1>1. Len(rows) \in Nat /\ rows \in [1..Len(rows) -> Attempt]
  OBVIOUS
<1>2. new \in [1..Len(rows) -> Attempt]
  BY <1>1 DEF Attempt
<1>3. Len(new) = Len(rows)
  BY <1>1, <1>2, FunctionIsSeq
<1>4. \A i \in DOMAIN rows : new[i].stage = rows[i].stage /\ new[i].status = rows[i].status
  BY <1>1 DEF Attempt
<1> QED
  BY <1>1, <1>3, <1>4 DEF Running

-----------------------------------------------------------------------------
(* Where a step of the engine stands.                                       *)

LEMMA Places ==
  /\ AttemptPCs \subseteq OpenPCs /\ OpenPCs \subseteq HeedlessPCs
  /\ ClosedPCs \subseteq HeedlessPCs /\ OpenPCs \cap ClosedPCs = {}
  /\ HeedlessPCs \subseteq EnginePCs
  /\ \A q \in {"idle", "claimedTick", "claimedEnqueue", "release", "start", "read", "return"} :
       q \notin HeedlessPCs
  BY DEF AttemptPCs, OpenPCs, ClosedPCs, HeedlessPCs, EnginePCs

LEMMA RestingStatuses ==
  /\ Terminal \subseteq Resting /\ Halted \subseteq Resting
  /\ "ready_to_integrate" \in Resting /\ "integrating" \in Resting
  /\ Resting \cap StageStatuses = {}
  /\ \A s \in {"absent", "queued", "assessing"} : s \notin Resting
  /\ "absent" \notin Resting
  BY DEF Resting, Terminal, Halted, StageStatuses

(* Only its own worker attends to a run that is being executed.             *)
LEMMA AttendedBy ==
  ASSUME Inv, NEW w \in Workers, on[w] # NoRun, phase # "active"
  PROVE  Attended(on[w]) <=> pc[w] \in OpenPCs
  BY DEF Attended, Inv, OneExecution

LEMMA Here ==
  ASSUME Inv, RowInv, NEW w \in Workers, pc[w] \in EnginePCs, phase \in {"serving", "stopping"}
  PROVE  /\ on[w] \in Runs /\ WorkerRows(w) /\ RunRows(on[w])
         /\ status[on[w]] \in RunStatuses \ {"absent"}
         /\ pc[w] \notin OpenPCs =>
              AllClosed(on[w]) \/ (on[w] \in missed /\ status[on[w]] \in Resting)
<1>1. on[w] \in Runs /\ on[w] # NoRun /\ on[w] \in inflight
  BY EngineRun, RunsAssumption DEF Inv, OneExecution
<1>2. WorkerRows(w) /\ RunRows(on[w])
  BY <1>1 DEF RowInv
<1>3. status[on[w]] \in RunStatuses \ {"absent"}
  BY <1>1, <1>2, Tables DEF RunRows, Unborn
<1>4. Attended(on[w]) <=> pc[w] \in OpenPCs
  BY <1>1, AttendedBy
<1> QED
  BY <1>1, <1>2, <1>3, <1>4 DEF RunRows, OpenAttended

(* A step of one worker's execution preserves the invariant if its own run  *)
(* and its own locals do.                                                   *)
LEMMA OwnRun ==
  ASSUME Inv, Inv', RowInv, NEW w \in Workers, pc[w] \in EnginePCs, NEW q \in PCs \ {"idle"},
         phase \in {"serving", "stopping"}, pc' = [pc EXCEPT ![w] = q],
         UNCHANGED <<phase, recovery, scheduler, on, ctx, cancelling, missed>>,
         \A v \in Workers \ {w} : loc'[v] = loc[v],
         \A r \in Runs \ {on[w]} :
           status'[r] = status[r] /\ stages'[r] = stages[r] /\ attempts'[r] = attempts[r],
         WorkerRows(w)', LastOpen(on[w])', OpenInOpen(on[w])', EndedClosed(on[w])',
         status'[on[w]] # "absent",
         \/ q \in OpenPCs \/ AllClosed(on[w])'
         \/ on[w] \in missed /\ status'[on[w]] \in Resting
  PROVE  RowInv'
<1>1. on[w] \in Runs /\ on[w] # NoRun
  BY EngineRun, RunsAssumption
<1>2. /\ pc'[w] = q /\ \A v \in Workers \ {w} : pc'[v] = pc[v] /\ on[v] # on[w]
      /\ phase' # "active" /\ phase' \in {"serving", "stopping"}
  BY <1>1 DEF Inv, OneExecution, TypeOK, WorkerTypeOK
<1>3. RecoveryOK'
  BY <1>2 DEF RowInv, RecoveryOK, recovery
<1>4. ASSUME NEW v \in Workers \ {w}
      PROVE  WorkerRows(v)'
  <2>1. WorkerRows(v) /\ pc'[v] = pc[v] /\ loc'[v] = loc[v] /\ on'[v] = on[v] /\ ctx'[v] = ctx[v]
        /\ missed' = missed
    BY <1>2 DEF RowInv
  <2>2. CASE on[v] = NoRun
    <3>1. pc'[v] = "idle"
      BY <2>1, <2>2 DEF Inv, OneExecution
    <3> QED
      BY <3>1 DEF WorkerRows, OpenPCs, AttemptPCs, ClosedPCs, HeedlessPCs, EnginePCs
  <2>3. CASE on[v] # NoRun
    <3>1. on[v] \in Runs \ {on[w]}
      BY <1>2, <2>3 DEF Inv, TypeOK, WorkerTypeOK
    <3>2. status'[on[v]] = status[on[v]] /\ stages'[on[v]] = stages[on[v]]
          /\ attempts'[on[v]] = attempts[on[v]]
      BY <3>1
    <3> QED
      BY <2>1, <3>2 DEF WorkerRows, AllClosed
  <2> QED
    BY <2>2, <2>3
<1>5. ASSUME NEW r \in Runs \ {on[w]}
      PROVE  RunRows(r)'
  <2>1. status'[r] = status[r] /\ stages'[r] = stages[r] /\ attempts'[r] = attempts[r]
    OBVIOUS
  <2>2. Attended(r)' <=> Attended(r)
    BY <1>2 DEF Attended
  <2>3. RunRows(r)
    BY DEF RowInv
  <2> QED
    BY <2>1, <2>2, <2>3
    DEF RunRows, LastOpen, OpenInOpen, EndedClosed, Unborn, OpenAttended, AllClosed, scheduler
<1>6. RunRows(on[w])'
  <2>1. q \in OpenPCs => Attended(on[w])'
    BY <1>2 DEF Attended
  <2>2. OpenAttended(on[w])'
    BY <2>1 DEF OpenAttended
  <2> QED
    BY <2>2 DEF RunRows, Unborn
<1> QED
  BY <1>3, <1>4, <1>5, <1>6 DEF RowInv

-----------------------------------------------------------------------------
(* Steps of the engine.                                                     *)

LEMMA StepFacts ==
  ASSUME Inv, NEW w \in Workers, NEW p, NEW q, Step(w, p, q)
  PROVE  /\ pc[w] = p /\ pc'[w] = q /\ pc' = [pc EXCEPT ![w] = q]
         /\ ctx[w] = "live" /\ ctx'[w] = "live"
         /\ phase \in {"serving", "stopping"}
         /\ UNCHANGED <<phase, recovery, scheduler, on, ctx, cancelling, missed>>
  BY DEF Step, Inv, TypeOK, WorkerTypeOK, history

LEMMA ExecFacts ==
  ASSUME NEW w \in Workers, Exec(w)
  PROVE  /\ Step(w, "exec", "settleAttempt")
         /\ UNCHANGED <<status, stages, attempts, journal, torn>>
         /\ val' = val \/ \E x : val' = [val EXCEPT ![on[w]] = x]
<1>1. Step(w, "exec", "settleAttempt")
  BY SMT DEF Exec
<1>2. UNCHANGED <<status, stages, attempts, journal, torn>>
  BY SMT DEF Exec
<1>3. val' = val \/ \E x : val' = [val EXCEPT ![on[w]] = x]
  BY ZenonT(60) DEF Exec
<1> QED
  BY <1>1, <1>2, <1>3

(* Every step of an execution but the last is one of Step, and writes at    *)
(* most its own run's rows.                                                 *)
LEMMA EngineMoves ==
  ASSUME NEW w \in Workers, EngineStep(w), ~ObserveCancel(w)
  PROVE  \E p \in EnginePCs : \E q : Step(w, p, q)
<1>1. CASE Start(w) \/ Assess(w) \/ Read(w) \/ StopBlocked(w) \/ BeginStage(w) \/ Route(w)
  BY <1>1 DEF Start, Assess, Read, StopBlocked, BeginStage, Route, EnginePCs
<1>2. CASE NextCandidate(w) \/ LadderExhausted(w) \/ Correct(w) \/ Checkpoint(w)
  BY <1>2 DEF NextCandidate, LadderExhausted, Correct, Checkpoint, EnginePCs
<1>3. CASE Exec(w)
  BY <1>3, ExecFacts DEF EnginePCs
<1>4. CASE SettleAttempt(w) \/ SettleStage(w) \/ SettleRun(w) \/ Integrate(w) \/ Return(w)
  BY <1>4 DEF SettleAttempt, SettleStage, SettleRun, Integrate, Return, EnginePCs
<1>5. CASE Publish(w) \/ PublishEnd(w)
  BY <1>5 DEF Publish, PublishEnd, EnginePCs
<1> QED
  BY <1>1, <1>2, <1>3, <1>4, <1>5 DEF EngineStep

LEMMA EngineWrites ==
  ASSUME NEW w \in Workers, EngineStep(w), ~ObserveCancel(w)
  PROVE  /\ status' = status \/ \E x : status' = [status EXCEPT ![on[w]] = x]
         /\ stages' = stages \/ \E x : stages' = [stages EXCEPT ![on[w]] = x]
         /\ val' = val \/ \E x : val' = [val EXCEPT ![on[w]] = x]
         /\ journal' = journal \/ journal' = journal \cup {on[w]}
<1>1. CASE Start(w) \/ Assess(w) \/ Read(w)
  BY <1>1 DEF Start, Assess, Read, durable
<1>2. CASE StopBlocked(w) \/ BeginStage(w) \/ Route(w)
  BY <1>2 DEF StopBlocked, BeginStage, Route, durable
<1>3. CASE NextCandidate(w) \/ LadderExhausted(w) \/ Correct(w) \/ Checkpoint(w)
  BY <1>3 DEF NextCandidate, LadderExhausted, Correct, Checkpoint, AppendAttempt, durable
<1>4. CASE Exec(w)
  BY <1>4, ExecFacts
<1>5. CASE SettleAttempt(w) \/ SettleStage(w) \/ SettleRun(w) \/ Return(w)
  BY <1>5 DEF SettleAttempt, SettleStage, SettleRun, Return, durable
<1>6. CASE Integrate(w) \/ Publish(w) \/ PublishEnd(w)
  BY <1>6 DEF Integrate, Publish, PublishEnd
<1> QED
  BY <1>1, <1>2, <1>3, <1>4, <1>5, <1>6 DEF EngineStep

LEMMA StepRows ==
  ASSUME Inv, Inv', RowInv, NEW w \in Workers, NEW p \in EnginePCs, NEW q \in PCs \ {"idle"},
         Step(w, p, q),
         \A v \in Workers \ {w} : loc'[v] = loc[v],
         \A r \in Runs \ {on[w]} :
           status'[r] = status[r] /\ stages'[r] = stages[r] /\ attempts'[r] = attempts[r],
         WorkerRows(w)', LastOpen(on[w])', OpenInOpen(on[w])', EndedClosed(on[w])',
         status'[on[w]] # "absent",
         \/ q \in OpenPCs \/ AllClosed(on[w])'
         \/ on[w] \in missed /\ status'[on[w]] \in Resting
  PROVE  RowInv'
<1>1. /\ pc[w] \in EnginePCs /\ phase \in {"serving", "stopping"} /\ pc' = [pc EXCEPT ![w] = q]
      /\ UNCHANGED <<phase, recovery, scheduler, on, ctx, cancelling, missed>>
  BY StepFacts
<1> QED
  BY <1>1, OwnRun

(* A step that leaves the rows alone.                                       *)
LEMMA QuietStep ==
  ASSUME Inv, Inv', RowInv, NEW w \in Workers, NEW p \in EnginePCs, NEW q \in PCs \ {"idle"},
         Step(w, p, q), UNCHANGED <<stages, attempts>>,
         \A v \in Workers \ {w} : loc'[v] = loc[v],
         \A r \in Runs \ {on[w]} : status'[r] = status[r],
         WorkerRows(w)',
         status'[on[w]] # "absent",
         status'[on[w]] \in Terminal /\ on[w] \notin missed => AllClosed(on[w]),
         \/ q \in OpenPCs \/ AllClosed(on[w])
         \/ on[w] \in missed /\ status'[on[w]] \in Resting
  PROVE  RowInv'
<1>1. RunRows(on[w])
  BY StepFacts, Here
<1>2. on' = on /\ missed' = missed
  BY StepFacts
<1>3. LastOpen(on[w])' /\ OpenInOpen(on[w])' /\ EndedClosed(on[w])'
  BY <1>1, <1>2 DEF RunRows, LastOpen, OpenInOpen, EndedClosed, AllClosed
<1>4. AllClosed(on[w]) => AllClosed(on[w])'
  BY <1>2 DEF AllClosed
<1> QED
  BY <1>3, <1>4, StepRows

LEMMA StartRows ==
  ASSUME Inv, Inv', RowInv, NEW w \in Workers, Start(w)
  PROVE  RowInv'
<1> DEFINE r == on[w]
<1>1. PICK q \in {"return", "assess", "read"} :
        Step(w, "start", q) /\ (q = "assess" => status[r] \in {"queued", "assessing"})
  BY DEF Start
<1>2. pc'[w] = q /\ on' = on /\ missed' = missed /\ pc[w] = "start"
      /\ phase \in {"serving", "stopping"}
  BY <1>1, StepFacts
<1>3. /\ r \in Runs /\ RunRows(r) /\ status[r] \in RunStatuses \ {"absent"}
      /\ AllClosed(r) \/ (r \in missed /\ status[r] \in Resting)
  BY <1>2, Here DEF EnginePCs, OpenPCs
<1>4. /\ status'[r] = IF status[r] = "queued" THEN "assessing" ELSE status[r]
      /\ \A s \in Runs \ {r} : status'[s] = status[s]
      /\ UNCHANGED <<stages, attempts>> /\ \A v \in Workers \ {w} : loc'[v] = loc[v]
  BY <1>3, Tables DEF Start, Inv, TypeOK, WorkerTypeOK
<1>5. status[r] \in {"queued", "assessing"} => AllClosed(r) /\ status'[r] \notin Terminal
  BY <1>3, <1>4, RestingStatuses DEF Terminal
<1>6. WorkerRows(w)'
  BY <1>1, <1>2, <1>4, <1>5
  DEF WorkerRows, OpenPCs, AttemptPCs, ClosedPCs, HeedlessPCs, EnginePCs, AllClosed
<1>7. /\ status'[r] # "absent"
      /\ status'[r] \in Terminal /\ r \notin missed => AllClosed(r)
      /\ AllClosed(r) \/ (r \in missed /\ status'[r] \in Resting)
  BY <1>3, <1>4, <1>5
<1>8. q \in PCs \ {"idle"} /\ "start" \in EnginePCs
  BY DEF PCs, EnginePCs
<1> QED
  BY <1>1, <1>4, <1>6, <1>7, <1>8, QuietStep

LEMMA AssessRows ==
  ASSUME Inv, Inv', RowInv, NEW w \in Workers, Assess(w)
  PROVE  RowInv'
<1> DEFINE r == on[w]
<1>1. PICK next \in {"planning", "exploring"}, ao \in BOOLEAN :
        /\ Step(w, "assess", IF status[r] = "assessing" THEN "read" ELSE "return")
        /\ status' = IF status[r] = "assessing" THEN [status EXCEPT ![r] = next] ELSE status
        /\ loc' = [loc EXCEPT ![w].ao = @ \/ ao]
        /\ UNCHANGED <<stages, attempts, val, journal, torn>>
  BY ZenonT(60) DEF Assess
<1>2. PICK q \in {"read", "return"} : Step(w, "assess", q)
  BY <1>1
<1>3. pc'[w] = q /\ on' = on /\ missed' = missed /\ pc[w] = "assess"
      /\ phase \in {"serving", "stopping"}
  BY <1>2, StepFacts
<1>4. r \in Runs /\ WorkerRows(w) /\ status[r] # "absent"
  BY <1>3, Here DEF EnginePCs
<1>5. AllClosed(r)
  BY <1>3, <1>4 DEF WorkerRows, ClosedPCs
<1>6. /\ status'[r] # "absent" /\ \A s \in Runs \ {r} : status'[s] = status[s]
      /\ \A v \in Workers \ {w} : loc'[v] = loc[v]
  BY <1>1, <1>4, Tables DEF Inv, TypeOK, WorkerTypeOK
<1>7. WorkerRows(w)'
  BY <1>3 DEF WorkerRows, OpenPCs, AttemptPCs, ClosedPCs, HeedlessPCs
<1>8. q \in PCs \ {"idle"} /\ "assess" \in EnginePCs
  BY DEF PCs, EnginePCs
<1> QED
  BY <1>1, <1>2, <1>5, <1>6, <1>7, <1>8, QuietStep

LEMMA ReadRows ==
  ASSUME Inv, Inv', RowInv, NEW w \in Workers, Read(w)
  PROVE  RowInv'
<1> DEFINE r == on[w]
<1>1. PICK q \in {"begin", "integrate", "return"} :
        /\ Step(w, "read", q)
        /\ q = "begin" => status[r] \in StageStatuses
        /\ q = "integrate" => status[r] \in {"ready_to_integrate", "integrating"}
  BY DEF Read
<1>2. pc'[w] = q /\ on' = on /\ missed' = missed /\ pc[w] = "read"
      /\ phase \in {"serving", "stopping"}
  BY <1>1, StepFacts
<1>3. /\ r \in Runs /\ status[r] \in RunStatuses \ {"absent"} /\ RunRows(r)
      /\ AllClosed(r) \/ (r \in missed /\ status[r] \in Resting)
  BY <1>2, Here DEF EnginePCs, OpenPCs
<1>4. UNCHANGED <<status, stages, attempts>> /\ \A v \in Workers \ {w} : loc'[v] = loc[v]
  BY DEF Read, durable, Inv, TypeOK, WorkerTypeOK
<1>5. /\ q = "begin" => AllClosed(r)
      /\ q \in {"begin", "integrate"} => status[r] \notin Terminal
  BY <1>1, <1>3, RestingStatuses DEF Terminal, StageStatuses
<1>6. WorkerRows(w)'
  BY <1>2, <1>4, <1>5 DEF WorkerRows, OpenPCs, AttemptPCs, ClosedPCs, HeedlessPCs, AllClosed
<1>7. q \in PCs \ {"idle"} /\ "read" \in EnginePCs
  BY DEF PCs, EnginePCs
<1>8. status[r] \in Terminal /\ r \notin missed => AllClosed(r)
  BY <1>3 DEF RunRows, EndedClosed
<1> QED
  BY <1>1, <1>3, <1>4, <1>6, <1>7, <1>8, QuietStep

LEMMA StopBlockedRows ==
  ASSUME Inv, Inv', RowInv, NEW w \in Workers, StopBlocked(w)
  PROVE  RowInv'
<1> DEFINE r == on[w]
<1>1. Step(w, "begin", "read")
  BY DEF StopBlocked
<1>2. pc'[w] = "read" /\ on' = on /\ missed' = missed /\ pc[w] = "begin"
      /\ phase \in {"serving", "stopping"}
  BY <1>1, StepFacts
<1>3. r \in Runs /\ WorkerRows(w)
  BY <1>2, Here DEF EnginePCs
<1>4. AllClosed(r)
  BY <1>2, <1>3 DEF WorkerRows, ClosedPCs
<1>5. /\ status'[r] = "blocked" /\ attempts'[r] = attempts[r]
      /\ stages'[r] = CloseRunning(stages[r], "interrupted")
      /\ \A v \in Workers \ {w} : loc'[v] = loc[v]
      /\ \A s \in Runs \ {r} :
           status'[s] = status[s] /\ stages'[s] = stages[s] /\ attempts'[s] = attempts[s]
  BY <1>3, Tables DEF StopBlocked
<1>6. Running(stages'[r]) = {}
  BY <1>3, <1>5, Tables, ClosedRows DEF AttemptStatuses
<1>7. AllClosed(r)' /\ LastOpen(r)' /\ OpenInOpen(r)' /\ EndedClosed(r)'
  BY <1>2, <1>4, <1>5, <1>6 DEF AllClosed, LastOpen, OpenInOpen, EndedClosed
<1>8. WorkerRows(w)'
  BY <1>2 DEF WorkerRows, OpenPCs, AttemptPCs, ClosedPCs, HeedlessPCs
<1>9. "read" \in PCs \ {"idle"} /\ "begin" \in EnginePCs
  BY DEF PCs, EnginePCs
<1> QED
  BY <1>1, <1>2, <1>5, <1>7, <1>8, <1>9, StepRows

LEMMA BeginStageRows ==
  ASSUME Inv, Inv', RowInv, NEW w \in Workers, BeginStage(w)
  PROVE  RowInv'
<1> DEFINE r == on[w]
           x == [kind |-> Kind(w), status |-> "running"]
<1>1. PICK q \in {"attempt", "route"} : Step(w, "begin", q)
  BY DEF BeginStage
<1>2. pc'[w] = q /\ on' = on /\ missed' = missed /\ pc[w] = "begin" /\ ctx[w] = "live"
      /\ phase \in {"serving", "stopping"}
  BY <1>1, StepFacts
<1>3. r \in Runs /\ WorkerRows(w) /\ status[r] # "absent"
  BY <1>2, Here DEF EnginePCs
<1>4. AllClosed(r) /\ (r \notin missed => status[r] \notin Terminal)
  BY <1>2, <1>3 DEF WorkerRows, ClosedPCs, HeedlessPCs, EnginePCs
<1>5. /\ status' = status /\ attempts' = attempts
      /\ stages'[r] = Append(stages[r], x)
      /\ loc'[w].stage = Len(stages[r]) + 1
      /\ \A v \in Workers \ {w} : loc'[v] = loc[v]
      /\ \A s \in Runs \ {r} : stages'[s] = stages[s]
  <2>1. loc[w] \in Locals
    BY DEF Inv, TypeOK, WorkerTypeOK
  <2> QED
    BY <1>3, <2>1, Tables DEF BeginStage, Locals, Inv, TypeOK, WorkerTypeOK
<1>6. x \in Stage /\ x.status = "running"
  BY <1>2, StageKind DEF Stage, AttemptStatuses, StagePCs
<1> HIDE DEF x
<1>7. /\ Running(stages'[r]) = {Len(stages[r]) + 1} /\ Len(stages'[r]) = Len(stages[r]) + 1
  BY <1>3, <1>4, <1>5, <1>6, Tables, AppendedRow DEF AllClosed
<1>8. LastOpen(r)' /\ OpenInOpen(r)' /\ EndedClosed(r)'
  BY <1>2, <1>4, <1>5, <1>7 DEF AllClosed, LastOpen, OpenInOpen, EndedClosed
<1>9. WorkerRows(w)'
  BY <1>2, <1>4, <1>5, <1>7
  DEF WorkerRows, OpenPCs, AttemptPCs, ClosedPCs, HeedlessPCs, AllClosed
<1>10. q \in PCs \ {"idle"} /\ "begin" \in EnginePCs /\ q \in OpenPCs
  BY DEF PCs, EnginePCs, OpenPCs
<1> QED
  BY <1>1, <1>2, <1>3, <1>5, <1>8, <1>9, <1>10, StepRows

(* A step from a place where a stage is open, that leaves the tables and    *)
(* what it knows of the rows as they are.                                   *)
LEMMA StaysOpen ==
  ASSUME Inv, Inv', RowInv, NEW w \in Workers, NEW p \in OpenPCs, NEW q \in OpenPCs, Step(w, p, q),
         UNCHANGED <<status, stages, attempts>>,
         \A v \in Workers \ {w} : loc'[v] = loc[v],
         loc'[w].stage = loc[w].stage, loc'[w].att = loc[w].att,
         p \in AttemptPCs <=> q \in AttemptPCs,
         q = "settleAttempt" => /\ loc'[w].plan.att # "running"
                                /\ loc'[w].plan.stage # "keep" => loc'[w].plan.to # "absent",
         q = "settleStage" => loc'[w].plan.to # "absent",
         q \in {"settleAttempt", "settleStage"} => loc'[w].plan.stage # "running"
  PROVE  RowInv'
<1>1. pc'[w] = q /\ on' = on /\ missed' = missed /\ pc[w] = p /\ ctx[w] = "live"
      /\ ctx'[w] = "live" /\ phase \in {"serving", "stopping"}
  BY StepFacts
<1>2. p \in EnginePCs /\ q \in PCs \ {"idle"} /\ q \notin ClosedPCs /\ p \in HeedlessPCs
      /\ q \in HeedlessPCs /\ q # "settleRun"
  BY DEF OpenPCs, EnginePCs, PCs, ClosedPCs, HeedlessPCs
<1>3. on[w] \in Runs /\ WorkerRows(w) /\ status[on[w]] # "absent" /\ RunRows(on[w])
  BY <1>1, <1>2, Here
<1>4. WorkerRows(w)'
  BY <1>1, <1>2, <1>3 DEF WorkerRows
<1>5. status[on[w]] \in Terminal /\ on[w] \notin missed => AllClosed(on[w])
  BY <1>3 DEF RunRows, EndedClosed
<1> QED
  BY <1>2, <1>3, <1>4, <1>5, QuietStep

LEMMA RouteRows ==
  ASSUME Inv, Inv', RowInv, NEW w \in Workers, Route(w)
  PROVE  RowInv'
<1>1. UNCHANGED <<status, stages, attempts>> /\ loc[w] \in Locals
      /\ \A v \in Workers \ {w} : loc'[v] = loc[v]
  BY DEF Route, durable, Inv, TypeOK, WorkerTypeOK
<1>2. CASE \E n \in 1..MaxCandidates :
             Step(w, "route", "attempt") /\ loc' = [loc EXCEPT ![w].left = n]
  <2>1. loc'[w].stage = loc[w].stage /\ loc'[w].att = loc[w].att
    BY <1>1, <1>2 DEF Locals, Inv, TypeOK, WorkerTypeOK
  <2>2. "route" \in OpenPCs \ AttemptPCs /\ "attempt" \in OpenPCs \ AttemptPCs
    BY DEF OpenPCs, AttemptPCs
  <2> QED
    BY <1>1, <1>2, <2>1, <2>2, StaysOpen
<1>3. CASE \E to \in {"blocked", "failed"} :
             /\ Step(w, "route", "settleStage")
             /\ loc' = [loc EXCEPT ![w].plan = Plan("keep", "failed", "set", to)]
  <2>1. /\ loc'[w].stage = loc[w].stage /\ loc'[w].att = loc[w].att
        /\ loc'[w].plan.stage = "failed" /\ loc'[w].plan.to # "absent"
    BY <1>1, <1>3 DEF Plan, Locals, Inv, TypeOK, WorkerTypeOK
  <2>2. "route" \in OpenPCs \ AttemptPCs /\ "settleStage" \in OpenPCs \ AttemptPCs
    BY DEF OpenPCs, AttemptPCs
  <2> QED
    BY <1>1, <1>3, <2>1, <2>2, StaysOpen
<1> QED
  BY <1>2, <1>3 DEF Route

LEMMA LadderExhaustedRows ==
  ASSUME Inv, Inv', RowInv, NEW w \in Workers, LadderExhausted(w)
  PROVE  RowInv'
<1>1. UNCHANGED <<status, stages, attempts>> /\ loc[w] \in Locals
      /\ \A v \in Workers \ {w} : loc'[v] = loc[v]
  BY DEF LadderExhausted, durable, Inv, TypeOK, WorkerTypeOK
<1>2. /\ Step(w, "attempt", "settleStage")
      /\ loc'[w].stage = loc[w].stage /\ loc'[w].att = loc[w].att
      /\ loc'[w].plan.stage = "failed" /\ loc'[w].plan.to # "absent"
  BY <1>1 DEF LadderExhausted, Plan, Locals, Inv, TypeOK, WorkerTypeOK
<1>3. "attempt" \in OpenPCs \ AttemptPCs /\ "settleStage" \in OpenPCs \ AttemptPCs
  BY DEF OpenPCs, AttemptPCs
<1> QED
  BY <1>1, <1>2, <1>3, StaysOpen

(* A new attempt of the open stage.                                         *)
LEMMA AttemptRows ==
  ASSUME Inv, Inv', RowInv, NEW w \in Workers, NEW p \in OpenPCs \ AttemptPCs,
         Step(w, p, AfterAppend(w)), AppendAttempt(w),
         \A v \in Workers \ {w} : loc'[v] = loc[v],
         loc'[w].stage = loc[w].stage, loc'[w].att = Len(attempts[on[w]]) + 1
  PROVE  RowInv'
<1> DEFINE r == on[w]
           x == [stage |-> loc[w].stage, status |-> "running", cp |-> FALSE]
<1>1. PICK q \in {"checkpoint", "exec"} : Step(w, p, q)
  BY DEF AfterAppend
<1>2. pc'[w] = q /\ on' = on /\ missed' = missed /\ pc[w] = p /\ ctx[w] = "live"
      /\ phase \in {"serving", "stopping"}
  BY <1>1, StepFacts
<1>3. /\ p \in EnginePCs /\ p \in OpenPCs \ AttemptPCs /\ p \in HeedlessPCs
      /\ q \in PCs \ {"idle"} /\ q \in AttemptPCs /\ q \in OpenPCs /\ q \in HeedlessPCs
      /\ q \notin ClosedPCs
  BY DEF OpenPCs, AttemptPCs, ClosedPCs, HeedlessPCs, EnginePCs, PCs
<1>4. r \in Runs /\ WorkerRows(w) /\ status[r] # "absent" /\ RunRows(r)
  BY <1>2, <1>3, Here
<1>5. /\ Running(attempts[r]) = {} /\ loc[w].stage = Len(stages[r])
      /\ r \notin missed => status[r] \notin Terminal /\ loc[w].stage \in Running(stages[r])
  BY <1>2, <1>3, <1>4 DEF WorkerRows
<1>6. /\ status' = status /\ stages' = stages /\ attempts'[r] = Append(attempts[r], x)
      /\ \A s \in Runs \ {r} : attempts'[s] = attempts[s]
  BY <1>4, Tables DEF AppendAttempt
<1>7. x \in Attempt /\ x.status = "running" /\ x.stage = loc[w].stage
  BY DEF Attempt, AttemptStatuses, Inv, TypeOK, WorkerTypeOK, Locals
<1> HIDE DEF x
<1>8. /\ Running(attempts'[r]) = {Len(attempts[r]) + 1}
      /\ Len(attempts'[r]) = Len(attempts[r]) + 1 /\ attempts'[r][Len(attempts[r]) + 1] = x
      /\ Len(attempts[r]) + 1 \in DOMAIN attempts'[r]
  BY <1>4, <1>5, <1>6, <1>7, Tables, AppendedRow
<1>9. LastOpen(r)' /\ OpenInOpen(r)' /\ EndedClosed(r)'
  BY <1>2, <1>4, <1>5, <1>6, <1>7, <1>8 DEF RunRows, LastOpen, OpenInOpen, EndedClosed
<1>10. WorkerRows(w)'
  BY <1>2, <1>3, <1>5, <1>6, <1>7, <1>8 DEF WorkerRows, AttemptPCs
<1> QED
  BY <1>1, <1>2, <1>3, <1>4, <1>6, <1>9, <1>10, StepRows

LEMMA NextCandidateRows ==
  ASSUME Inv, Inv', RowInv, NEW w \in Workers, NextCandidate(w)
  PROVE  RowInv'
<1>1. /\ loc'[w].stage = loc[w].stage /\ loc'[w].att = Len(attempts[on[w]]) + 1
      /\ \A v \in Workers \ {w} : loc'[v] = loc[v]
  BY DEF NextCandidate, Locals, Inv, TypeOK, WorkerTypeOK
<1>2. "attempt" \in OpenPCs \ AttemptPCs
  BY DEF OpenPCs, AttemptPCs
<1> QED
  BY <1>1, <1>2, AttemptRows DEF NextCandidate

LEMMA CorrectRows ==
  ASSUME Inv, Inv', RowInv, NEW w \in Workers, Correct(w)
  PROVE  RowInv'
<1>1. /\ loc'[w].stage = loc[w].stage /\ loc'[w].att = Len(attempts[on[w]]) + 1
      /\ \A v \in Workers \ {w} : loc'[v] = loc[v]
  BY DEF Correct, Locals, Inv, TypeOK, WorkerTypeOK
<1>2. "correct" \in OpenPCs \ AttemptPCs
  BY DEF OpenPCs, AttemptPCs
<1> QED
  BY <1>1, <1>2, AttemptRows DEF Correct

LEMMA CheckpointRows ==
  ASSUME Inv, Inv', RowInv, NEW w \in Workers, Checkpoint(w)
  PROVE  RowInv'
<1> DEFINE r == on[w]
<1>1. CASE /\ Step(w, "checkpoint", "exec")
           /\ attempts' = [attempts EXCEPT ![r][loc[w].att].cp = TRUE]
           /\ UNCHANGED <<status, stages, val, journal, torn, loc>>
  <2>1. pc'[w] = "exec" /\ on' = on /\ missed' = missed /\ pc[w] = "checkpoint" /\ ctx[w] = "live"
        /\ phase \in {"serving", "stopping"}
    BY <1>1, StepFacts
  <2>2. /\ "checkpoint" \in EnginePCs /\ "checkpoint" \in AttemptPCs /\ "checkpoint" \in OpenPCs
        /\ "exec" \in PCs \ {"idle"} /\ "exec" \in AttemptPCs /\ "exec" \in OpenPCs
        /\ "exec" \notin ClosedPCs /\ "checkpoint" \in HeedlessPCs
    BY DEF OpenPCs, AttemptPCs, ClosedPCs, HeedlessPCs, EnginePCs, PCs
  <2>3. r \in Runs /\ WorkerRows(w) /\ status[r] # "absent" /\ RunRows(r)
    BY <2>1, <2>2, Here
  <2>4. /\ attempts'[r] = [attempts[r] EXCEPT ![loc[w].att].cp = TRUE]
        /\ \A s \in Runs \ {r} : attempts'[s] = attempts[s]
    BY <1>1, <2>3, Tables
  <2>5. /\ Running(attempts'[r]) = Running(attempts[r]) /\ DOMAIN attempts'[r] = DOMAIN attempts[r]
        /\ Len(attempts'[r]) = Len(attempts[r])
        /\ \A i \in DOMAIN attempts[r] : attempts'[r][i].stage = attempts[r][i].stage
    <3>1. PICK rows \in Seq(Attempt) : rows = attempts[r]
      BY <2>3, Tables
    <3>2. attempts'[r] = [rows EXCEPT ![loc[w].att].cp = TRUE]
      BY <2>4, <3>1
    <3> QED
      BY <3>1, <3>2, CheckpointedRow
  <2>6. Running(attempts[r]) \subseteq DOMAIN attempts[r]
    BY DEF Running
  <2>7. LastOpen(r)' /\ OpenInOpen(r)' /\ EndedClosed(r)'
    BY <1>1, <2>1, <2>3, <2>5, <2>6 DEF RunRows, LastOpen, OpenInOpen, EndedClosed, AllClosed
  <2>8. WorkerRows(w)'
    BY <1>1, <2>1, <2>2, <2>3, <2>5 DEF WorkerRows
  <2> QED
    BY <1>1, <2>1, <2>2, <2>3, <2>4, <2>7, <2>8, StepRows
<1>2. CASE /\ Step(w, "checkpoint", "settleAttempt")
           /\ loc' = [loc EXCEPT ![w].plan = Plan("failed", "failed", "set", "failed")]
           /\ UNCHANGED durable
  <2>1. /\ loc'[w].stage = loc[w].stage /\ loc'[w].att = loc[w].att
        /\ loc'[w].plan = Plan("failed", "failed", "set", "failed")
        /\ UNCHANGED <<status, stages, attempts>>
        /\ \A v \in Workers \ {w} : loc'[v] = loc[v]
    BY <1>2 DEF durable, Locals, Inv, TypeOK, WorkerTypeOK
  <2>2. /\ loc'[w].plan.att = "failed" /\ loc'[w].plan.stage = "failed"
        /\ loc'[w].plan.to # "absent"
    BY <2>1 DEF Plan
  <2>3. "checkpoint" \in OpenPCs /\ "settleAttempt" \in OpenPCs
        /\ "checkpoint" \in AttemptPCs /\ "settleAttempt" \in AttemptPCs
    BY DEF OpenPCs, AttemptPCs
  <2> QED
    BY <1>2, <2>1, <2>2, <2>3, StaysOpen
<1> QED
  BY <1>1, <1>2 DEF Checkpoint

(* An attempt that ends is one of runStage's: it is not left running, and   *)
(* the run's next status is a real one.                                     *)
LEMMA PlanOfExec ==
  ASSUME NEW w, NEW o \in Outcomes, NEW to \in RunStatuses \ {"absent"}
  PROVE  LET p == AfterExec(w, o, to)[2]
         IN p.att # "running" /\ p.stage # "running" /\ (p.stage # "keep" => p.to # "absent")
<1>1. /\ FailStage(w, o).att = "failed" /\ FailStage(w, o).stage = "failed"
      /\ FailStage(w, o).to # "absent"
  BY DEF FailStage, Plan
<1>2. \A a, s, h, t : /\ Plan(a, s, h, t).att = a /\ Plan(a, s, h, t).stage = s
                      /\ Plan(a, s, h, t).to = t
  BY DEF Plan
<1> QED
  BY <1>1, <1>2 DEF AfterExec, Outcomes

LEMMA AdvanceMoves ==
  ASSUME NEW w, Kind(w) \in Kinds, NEW verdict \in Verdicts, NEW pendingApproval \in BOOLEAN
  PROVE  Advance(w, verdict, pendingApproval) # "absent"
<1>1. CompletionPolicy(loc[w].ao, val[on[w]], verdict, pendingApproval) # "absent"
  BY DEF CompletionPolicy, Verdicts
<1> QED
  BY <1>1 DEF Advance, Kinds

LEMMA ExecRows ==
  ASSUME Inv, Inv', RowInv, NEW w \in Workers, Exec(w)
  PROVE  RowInv'
<1>1. PICK o \in Outcomes, verdict \in Verdicts, pendingApproval \in BOOLEAN,
           gate \in {"pass", "fail"}, ao \in BOOLEAN :
        /\ Step(w, "exec", "settleAttempt")
        /\ Kind(w) = "validate" => o \in {"ok", "invalid", "infrastructure"}
        /\ (o = "ok" /\ Kind(w) = "review") \/ (verdict = "pass" /\ ~pendingApproval)
        /\ (o = "ok" /\ Kind(w) = "validate") \/ gate = "pass"
        /\ ao => o = "ok" /\ Kind(w) \in {"plan", "replan"}
        /\ LET done == AfterExec(w, o, Advance(w, verdict, pendingApproval))
           IN loc' = [loc EXCEPT ![w].made = @ + 1, ![w].ao = @ \/ ao, ![w].plan = done[2],
                                 ![w].left = IF done[1] = "settleStage" THEN 0 ELSE @]
        /\ val' = IF o = "ok" /\ Kind(w) = "validate" THEN [val EXCEPT ![on[w]] = gate] ELSE val
        /\ UNCHANGED <<status, stages, attempts, journal, torn>>
  BY ZenonT(60) DEF Exec
<1> DEFINE to == Advance(w, verdict, pendingApproval)
           done == AfterExec(w, o, to)
<1>2. to \in RunStatuses \ {"absent"}
  <2>1. Kind(w) \in Kinds
    BY <1>1, StageKind DEF Step, StagePCs
  <2> QED
    BY <2>1, AdvanceTyped, AdvanceMoves
<1>3. /\ done[2].att # "running" /\ done[2].stage # "running"
      /\ done[2].stage # "keep" => done[2].to # "absent"
  BY <1>2, PlanOfExec
<1> HIDE DEF to
<1>4. loc' = [loc EXCEPT ![w].made = @ + 1, ![w].ao = @ \/ ao, ![w].plan = done[2],
                         ![w].left = IF done[1] = "settleStage" THEN 0 ELSE @]
  BY <1>1 DEF to
<1> HIDE DEF done
<1>5. /\ loc'[w].stage = loc[w].stage /\ loc'[w].att = loc[w].att /\ loc'[w].plan = done[2]
      /\ \A v \in Workers \ {w} : loc'[v] = loc[v]
  BY <1>4 DEF Locals, Inv, TypeOK, WorkerTypeOK
<1>6. "exec" \in OpenPCs /\ "exec" \in AttemptPCs
      /\ "settleAttempt" \in OpenPCs /\ "settleAttempt" \in AttemptPCs
  BY DEF OpenPCs, AttemptPCs
<1> QED
  BY <1>1, <1>3, <1>5, <1>6, StaysOpen

LEMMA SettleAttemptRows ==
  ASSUME Inv, Inv', RowInv, NEW w \in Workers, SettleAttempt(w)
  PROVE  RowInv'
<1> DEFINE r == on[w]
           p == loc[w].plan
<1>1. PICK q \in {"settleStage", "correct", "attempt"} :
        Step(w, "settleAttempt", q) /\ (q = "settleStage" => p.stage # "keep")
  BY DEF SettleAttempt
<1>2. pc'[w] = q /\ on' = on /\ missed' = missed /\ pc[w] = "settleAttempt" /\ ctx[w] = "live"
      /\ phase \in {"serving", "stopping"}
  BY <1>1, StepFacts
<1>3. /\ "settleAttempt" \in EnginePCs /\ "settleAttempt" \in AttemptPCs
      /\ "settleAttempt" \in OpenPCs /\ "settleAttempt" \in HeedlessPCs
      /\ q \in PCs \ {"idle"} /\ q \in OpenPCs \ AttemptPCs /\ q \in HeedlessPCs
      /\ q \notin ClosedPCs
  BY DEF OpenPCs, AttemptPCs, ClosedPCs, HeedlessPCs, EnginePCs, PCs
<1>4. r \in Runs /\ WorkerRows(w) /\ status[r] # "absent" /\ RunRows(r)
  BY <1>2, <1>3, Here
<1>5. p.att \in AttemptStatuses \ {"running"} /\ loc[w].att = Len(attempts[r])
  BY <1>2, <1>3, <1>4 DEF WorkerRows, Inv, LocalsOK, TypeOK, WorkerTypeOK, Locals, Plans
<1>6. /\ attempts'[r] = [attempts[r] EXCEPT ![loc[w].att].status = p.att]
      /\ UNCHANGED <<status, stages, loc>>
      /\ \A s \in Runs \ {r} : attempts'[s] = attempts[s]
  BY <1>4, Tables DEF SettleAttempt
<1>7. Running(attempts'[r]) = {}
  <2>1. PICK rows \in Seq(Attempt) : rows = attempts[r]
    BY <1>4, Tables
  <2>2. attempts'[r] = Marked(rows, loc[w].att, p.att)
    BY <1>6, <2>1 DEF Marked
  <2>3. Running(Marked(rows, loc[w].att, p.att)) = Running(rows) \ {loc[w].att}
    BY <1>5, MarkedRows
  <2> QED
    BY <1>4, <1>5, <2>1, <2>2, <2>3 DEF RunRows, LastOpen
<1>8. LastOpen(r)' /\ OpenInOpen(r)' /\ EndedClosed(r)'
  BY <1>2, <1>4, <1>6, <1>7 DEF RunRows, LastOpen, OpenInOpen, EndedClosed, AllClosed
<1>9. WorkerRows(w)'
  BY <1>1, <1>2, <1>3, <1>4, <1>6, <1>7 DEF WorkerRows
<1> QED
  BY <1>1, <1>2, <1>3, <1>4, <1>6, <1>8, <1>9, StepRows

LEMMA SettleStageRows ==
  ASSUME Inv, Inv', RowInv, NEW w \in Workers, SettleStage(w)
  PROVE  RowInv'
<1> DEFINE r == on[w]
           p == loc[w].plan
<1>1. Step(w, "settleStage", "settleRun")
  BY DEF SettleStage
<1>2. pc'[w] = "settleRun" /\ on' = on /\ missed' = missed /\ pc[w] = "settleStage"
      /\ ctx[w] = "live" /\ phase \in {"serving", "stopping"}
  BY <1>1, StepFacts
<1>3. /\ "settleStage" \in EnginePCs /\ "settleStage" \in OpenPCs \ AttemptPCs
      /\ "settleStage" \in HeedlessPCs
      /\ "settleRun" \in PCs \ {"idle"} /\ "settleRun" \notin OpenPCs \cup AttemptPCs
      /\ "settleRun" \in HeedlessPCs
  BY DEF OpenPCs, AttemptPCs, ClosedPCs, HeedlessPCs, EnginePCs, PCs
<1>4. r \in Runs /\ WorkerRows(w) /\ status[r] # "absent" /\ RunRows(r)
  BY <1>2, <1>3, Here
<1>5. /\ p.stage \in AttemptStatuses \ {"running"} /\ loc[w].stage = Len(stages[r])
      /\ p.to # "absent" /\ Running(attempts[r]) = {}
  BY <1>2, <1>3, <1>4 DEF WorkerRows, Inv, LocalsOK, TypeOK, WorkerTypeOK, Locals, Plans
<1>6. /\ stages'[r] = [stages[r] EXCEPT ![loc[w].stage].status = p.stage]
      /\ UNCHANGED <<status, attempts, loc>>
      /\ \A s \in Runs \ {r} : stages'[s] = stages[s]
  BY <1>4, Tables DEF SettleStage
<1>7. Running(stages'[r]) = {}
  <2>1. PICK rows \in Seq(Stage) : rows = stages[r]
    BY <1>4, Tables
  <2>2. stages'[r] = Marked(rows, loc[w].stage, p.stage)
    BY <1>6, <2>1 DEF Marked
  <2>3. Running(Marked(rows, loc[w].stage, p.stage)) = Running(rows) \ {loc[w].stage}
    BY <1>5, MarkedRows
  <2> QED
    BY <1>4, <1>5, <2>1, <2>2, <2>3 DEF RunRows, LastOpen
<1>8. AllClosed(r)' /\ LastOpen(r)' /\ OpenInOpen(r)' /\ EndedClosed(r)'
  BY <1>2, <1>5, <1>6, <1>7 DEF LastOpen, OpenInOpen, EndedClosed, AllClosed
<1>9. WorkerRows(w)'
  BY <1>2, <1>3, <1>4, <1>5, <1>6, <1>8 DEF WorkerRows
<1> QED
  BY <1>1, <1>2, <1>3, <1>4, <1>6, <1>8, <1>9, StepRows

(* The end of a stage, and integration: the run's status moves, its rows do *)
(* not.                                                                     *)
LEMMA SettleRunRows ==
  ASSUME Inv, Inv', RowInv, NEW w \in Workers, SettleRun(w)
  PROVE  RowInv'
<1> DEFINE r == on[w]
<1>1. PICK q \in {"read", "return"} : Step(w, "settleRun", q)
  BY DEF SettleRun
<1>2. pc'[w] = q /\ on' = on /\ missed' = missed /\ pc[w] = "settleRun"
      /\ phase \in {"serving", "stopping"}
  BY <1>1, StepFacts
<1>3. r \in Runs /\ WorkerRows(w) /\ status[r] # "absent"
  BY <1>2, Here DEF EnginePCs
<1>4. AllClosed(r) /\ loc[w].plan.to # "absent"
  BY <1>2, <1>3 DEF WorkerRows, ClosedPCs
<1>5. /\ status'[r] # "absent" /\ \A s \in Runs \ {r} : status'[s] = status[s]
      /\ UNCHANGED <<stages, attempts, loc>>
  BY <1>3, <1>4, Tables DEF SettleRun
<1>6. WorkerRows(w)'
  BY <1>2 DEF WorkerRows, OpenPCs, AttemptPCs, ClosedPCs, HeedlessPCs
<1>7. q \in PCs \ {"idle"} /\ "settleRun" \in EnginePCs
  BY DEF PCs, EnginePCs
<1> QED
  BY <1>1, <1>4, <1>5, <1>6, <1>7, QuietStep

LEMMA IntegrationRows ==
  ASSUME Inv, Inv', RowInv, NEW w \in Workers, Integrate(w) \/ Publish(w) \/ PublishEnd(w)
  PROVE  RowInv'
<1> DEFINE r == on[w]
<1>1. PICK p \in {"integrate", "publish", "publishing"}, q \in {"read", "publish", "publishing"} :
        Step(w, p, q)
  BY DEF Integrate, Publish, PublishEnd
<1>2. pc'[w] = q /\ on' = on /\ missed' = missed /\ pc[w] = p /\ ctx[w] = "live"
      /\ phase \in {"serving", "stopping"}
  BY <1>1, StepFacts
<1>3. /\ p \in EnginePCs \ OpenPCs /\ p \in HeedlessPCs
      /\ q \in PCs \ {"idle"} /\ q \notin OpenPCs \cup AttemptPCs \cup ClosedPCs
      /\ q \notin {"settleAttempt", "settleStage", "settleRun"}
  BY DEF OpenPCs, AttemptPCs, ClosedPCs, HeedlessPCs, EnginePCs, PCs
<1>4. /\ r \in Runs /\ WorkerRows(w) /\ status[r] # "absent"
      /\ AllClosed(r) \/ (r \in missed /\ status[r] \in Resting)
  BY <1>2, <1>3, Here
<1>5. r \notin missed => AllClosed(r) /\ status[r] \notin Terminal
  BY <1>2, <1>3, <1>4 DEF WorkerRows
<1>6. /\ UNCHANGED <<stages, attempts, loc>>
      /\ status'[r] \in Resting \ {"absent"} \/ status'[r] = status[r]
      /\ \A s \in Runs \ {r} : status'[s] = status[s]
  BY <1>4, Tables DEF Integrate, Publish, PublishEnd, Resting, Terminal, Halted
<1>7. q \in HeedlessPCs => status'[r] = status[r] \/ status'[r] \notin Terminal
  <2>1. CASE Integrate(w)
    <3>1. loc[w].ao => q = "read"
      BY <1>2, <2>1, StepFacts DEF Integrate
    <3>2. ~loc[w].ao => status'[r] = status[r] \/ status'[r] = "integrating"
      BY <1>4, <2>1, Tables DEF Integrate
    <3> QED
      BY <3>1, <3>2 DEF HeedlessPCs, Terminal
  <2>2. CASE Publish(w)
    BY <1>2, <1>4, <2>2, Tables, StepFacts DEF Publish, Terminal
  <2>3. CASE PublishEnd(w)
    <3>1. q = "read"
      BY <1>2, <2>3, StepFacts DEF PublishEnd
    <3> QED
      BY <3>1 DEF HeedlessPCs
  <2> QED
    BY <2>1, <2>2, <2>3
<1>8. WorkerRows(w)'
  BY <1>2, <1>3, <1>5, <1>7 DEF WorkerRows
<1>9. /\ status'[r] # "absent"
      /\ status'[r] \in Terminal /\ r \notin missed => AllClosed(r)
      /\ AllClosed(r) \/ (r \in missed /\ status'[r] \in Resting)
  BY <1>4, <1>5, <1>6
<1> QED
  BY <1>1, <1>3, <1>6, <1>8, <1>9, QuietStep

(* CancelRun closes every row of a run that was not terminal yet.           *)
LEMMA CancelCloses ==
  ASSUME Inv, NEW r \in Runs, CancelRun(r)
  PROVE  /\ \A s \in Runs \ {r} :
              status'[s] = status[s] /\ stages'[s] = stages[s] /\ attempts'[s] = attempts[s]
         /\ status[r] \in Terminal => UNCHANGED <<status, stages, attempts>>
         /\ status[r] \notin Terminal =>
              /\ status'[r] = "cancelled" /\ AllClosed(r)'
              /\ stages'[r] = CloseRunning(stages[r], "interrupted")
              /\ attempts'[r] = CloseRunning(attempts[r], "cancelled")
         /\ Len(stages'[r]) = Len(stages[r]) /\ DOMAIN stages'[r] = DOMAIN stages[r]
         /\ Len(attempts'[r]) = Len(attempts[r]) /\ DOMAIN attempts'[r] = DOMAIN attempts[r]
         /\ \A i \in DOMAIN attempts[r] : attempts'[r][i].stage = attempts[r][i].stage
         /\ \A i \in DOMAIN stages[r] : stages'[r][i].kind = stages[r][i].kind
<1>1. CASE status[r] \in Terminal
  BY <1>1 DEF CancelRun
<1>2. CASE status[r] \notin Terminal
  <2>1. /\ status'[r] = "cancelled"
        /\ stages'[r] = CloseRunning(stages[r], "interrupted")
        /\ attempts'[r] = CloseRunning(attempts[r], "cancelled")
        /\ \A s \in Runs \ {r} :
             status'[s] = status[s] /\ stages'[s] = stages[s] /\ attempts'[s] = attempts[s]
    BY <1>2, Tables DEF CancelRun
  <2>2. /\ Running(stages'[r]) = {} /\ DOMAIN stages'[r] = DOMAIN stages[r]
        /\ Len(stages'[r]) = Len(stages[r])
    BY <2>1, Tables, ClosedRows DEF AttemptStatuses
  <2>3. /\ Running(attempts'[r]) = {} /\ DOMAIN attempts'[r] = DOMAIN attempts[r]
        /\ Len(attempts'[r]) = Len(attempts[r])
    BY <2>1, Tables, ClosedRows DEF AttemptStatuses
  <2>4. /\ \A i \in DOMAIN attempts[r] : attempts'[r][i].stage = attempts[r][i].stage
        /\ \A i \in DOMAIN stages[r] : stages'[r][i].kind = stages[r][i].kind
    <3>1. stages[r] \in Seq(Stage) /\ attempts[r] \in Seq(Attempt)
      BY Tables
    <3>2. \A i \in DOMAIN attempts[r] :
            CloseRunning(attempts[r], "cancelled")[i].stage = attempts[r][i].stage
      BY <3>1, ClosedColumns
    <3>3. \A i \in DOMAIN stages[r] :
            CloseRunning(stages[r], "interrupted")[i].kind = stages[r][i].kind
      BY <3>1, ClosedColumns
    <3> QED
      BY <2>1, <3>2, <3>3
  <2> QED
    BY <1>2, <2>1, <2>2, <2>3, <2>4 DEF AllClosed
<1> QED
  BY <1>1, <1>2

LEMMA ObserveCancelRows ==
  ASSUME Inv, Inv', RowInv, NEW w \in Workers, ObserveCancel(w)
  PROVE  RowInv'
<1> DEFINE r == on[w]
<1>1. /\ pc[w] \in EnginePCs /\ phase \in {"serving", "stopping"} /\ ctx[w] = "cancelled"
      /\ pc' = [pc EXCEPT ![w] = "release"] /\ CancelRun(r)
      /\ UNCHANGED <<phase, recovery, scheduler, on, ctx, cancelling, missed, loc>>
  BY DEF ObserveCancel, history
<1>2. r \in Runs /\ RunRows(r) /\ status[r] # "absent"
  BY <1>1, Here
<1>3. pc'[w] = "release"
  BY <1>1 DEF Inv, TypeOK, WorkerTypeOK
<1>4. WorkerRows(w)'
  BY <1>3 DEF WorkerRows, OpenPCs, AttemptPCs, ClosedPCs, HeedlessPCs, EnginePCs
<1>5. "release" \in PCs \ {"idle"}
  BY DEF PCs
<1>6. CASE status[r] \in Terminal
  <2>1. UNCHANGED <<status, stages, attempts>>
    BY <1>1, <1>2, <1>6, CancelCloses
  <2>2. LastOpen(r)' /\ OpenInOpen(r)' /\ EndedClosed(r)'
    BY <1>1, <1>2, <2>1 DEF RunRows, LastOpen, OpenInOpen, EndedClosed, AllClosed
  <2>3. AllClosed(r)' \/ (r \in missed /\ status'[r] \in Resting)
    BY <1>1, <1>2, <1>6, <2>1, RestingStatuses DEF RunRows, EndedClosed, AllClosed
  <2> QED
    BY <1>1, <1>2, <1>4, <1>5, <2>1, <2>2, <2>3, OwnRun
<1>7. CASE status[r] \notin Terminal
  <2>1. /\ status'[r] = "cancelled" /\ AllClosed(r)'
        /\ \A s \in Runs \ {r} :
             status'[s] = status[s] /\ stages'[s] = stages[s] /\ attempts'[s] = attempts[s]
    BY <1>1, <1>2, <1>7, CancelCloses
  <2>2. LastOpen(r)' /\ OpenInOpen(r)' /\ EndedClosed(r)'
    BY <2>1 DEF LastOpen, OpenInOpen, EndedClosed, AllClosed
  <2> QED
    BY <1>1, <1>2, <1>4, <1>5, <2>1, <2>2, OwnRun
<1> QED
  BY <1>6, <1>7

LEMMA ReturnRows ==
  ASSUME Inv, Inv', RowInv, NEW w \in Workers, Return(w)
  PROVE  RowInv'
<1> DEFINE r == on[w]
<1>1. Step(w, "return", "release") /\ UNCHANGED <<status, stages, attempts, loc>>
  BY DEF Return, durable
<1>2. pc'[w] = "release" /\ pc[w] = "return" /\ phase \in {"serving", "stopping"}
  BY <1>1, StepFacts
<1>3. /\ r \in Runs /\ status[r] # "absent" /\ RunRows(r)
      /\ AllClosed(r) \/ (r \in missed /\ status[r] \in Resting)
  BY <1>2, Here DEF EnginePCs, OpenPCs
<1>4. WorkerRows(w)'
  BY <1>2 DEF WorkerRows, OpenPCs, AttemptPCs, ClosedPCs, HeedlessPCs, EnginePCs
<1>5. "release" \in PCs \ {"idle"} /\ "return" \in EnginePCs
  BY DEF PCs, EnginePCs
<1> QED
  BY <1>1, <1>3, <1>4, <1>5, QuietStep DEF RunRows, EndedClosed

LEMMA EngineRows ==
  ASSUME Inv, Inv', RowInv, NEW w \in Workers, EngineStep(w)
  PROVE  RowInv'
  BY StartRows, AssessRows, ReadRows, StopBlockedRows, BeginStageRows, RouteRows, NextCandidateRows,
     LadderExhaustedRows, CorrectRows, CheckpointRows, ExecRows, SettleAttemptRows, SettleStageRows,
     SettleRunRows, IntegrationRows, ObserveCancelRows, ReturnRows
  DEF EngineStep

-----------------------------------------------------------------------------
(* Steps of the scheduler and of the API: they write no rows, and a status  *)
(* that they write neither ends a run nor wakes a resting one.              *)

LEMMA OutsideRows ==
  ASSUME Inv, Inv', RowInv, phase \in {"serving", "stopping"}, phase' \in {"serving", "stopping"},
         UNCHANGED <<stages, attempts, recBlock, missed>>,
         \A v \in Workers :
           \/ /\ pc'[v] = pc[v] /\ on'[v] = on[v] /\ loc'[v] = loc[v]
              /\ ctx'[v] = ctx[v] \/ ctx'[v] # "live"
           \/ pc[v] \notin HeedlessPCs /\ pc'[v] \notin HeedlessPCs,
         \A r \in Runs :
           \/ status'[r] = status[r]
           \/ /\ status'[r] \notin Terminal \cup {"absent"}
              /\ status'[r] \in Resting \/ status[r] \notin Resting,
         \A r \in Runs : status'[r] = "absent" =>
           r \notin inflight' \cup tick'.todo \cup cancelling' /\ pending'[r] = 0
  PROVE  RowInv'
<1>1. RecoveryOK'
  BY DEF RowInv, RecoveryOK
<1>2. ASSUME NEW v \in Workers
      PROVE  WorkerRows(v)'
  <2>1. CASE pc'[v] \notin HeedlessPCs
    BY <2>1 DEF WorkerRows, OpenPCs, AttemptPCs, ClosedPCs, HeedlessPCs, EnginePCs
  <2>2. CASE pc'[v] \in HeedlessPCs
    <3>1. /\ pc'[v] = pc[v] /\ on'[v] = on[v] /\ loc'[v] = loc[v]
          /\ ctx'[v] = "live" => ctx[v] = "live"
      BY <2>2
    <3>2. on[v] \in Runs /\ WorkerRows(v)
      BY <2>2, <3>1, Places, EngineRun DEF RowInv
    <3>3. status[on[v]] \notin Terminal => status'[on[v]] \notin Terminal
      BY <3>2
    <3> QED
      BY <3>1, <3>2, <3>3 DEF WorkerRows, AllClosed
  <2> QED
    BY <2>1, <2>2
<1>3. ASSUME NEW r \in Runs
      PROVE  RunRows(r)'
  <2>1. RunRows(r)
    BY DEF RowInv
  <2>2. LastOpen(r)' /\ OpenInOpen(r)' /\ EndedClosed(r)'
    BY <2>1 DEF RunRows, LastOpen, OpenInOpen, EndedClosed, AllClosed
  <2>3. Unborn(r)'
    BY <2>1 DEF RunRows, Unborn, AllClosed
  <2>4. Attended(r) => Attended(r)'
    BY Places DEF Attended
  <2>5. OpenAttended(r)'
    BY <2>1, <2>4 DEF RunRows, OpenAttended, AllClosed
  <2> QED
    BY <2>2, <2>3, <2>5 DEF RunRows
<1> QED
  BY <1>1, <1>2, <1>3 DEF RowInv

(* A step that no row, worker or run of the invariant notices.              *)
LEMMA NothingMoves ==
  ASSUME RowInv, UNCHANGED <<status, stages, attempts, phase, recovery, scheduler, worker,
                             cancelling, missed>>
  PROVE  RowInv'
  BY DEF RowInv, RecoveryOK, WorkerRows, RunRows, LastOpen, OpenInOpen, EndedClosed, Unborn,
         OpenAttended, Attended, AllClosed, recovery, scheduler, worker

(* Only its claim makes an absent run known: it never happens.              *)
LEMMA Known ==
  ASSUME RowInv, NEW r \in Runs, status[r] = "absent"
  PROVE  r \notin inflight \cup tick.todo \cup cancelling /\ pending[r] = 0
  BY DEF RowInv, RunRows, Unborn

LEMMA Claimed ==
  ASSUME Inv, NEW w \in Workers, NEW r \in Runs, NEW from \in {"claimedTick", "claimedEnqueue"},
         Claim(w, r, from), UNCHANGED <<ctx, loc>>
  PROVE  /\ inflight' = inflight \cup {r}
         /\ \A v \in Workers :
              \/ /\ pc'[v] = pc[v] /\ on'[v] = on[v] /\ loc'[v] = loc[v]
                 /\ ctx'[v] = ctx[v] \/ ctx'[v] # "live"
              \/ pc[v] \notin HeedlessPCs /\ pc'[v] \notin HeedlessPCs
  BY Places DEF Claim, Inv, TypeOK, WorkerTypeOK

LEMMA RunOneRows ==
  ASSUME Inv, Inv', RowInv, NEW r \in Runs, RunOne(r)
  PROVE  RowInv'
<1>1. /\ phase \in {"serving", "stopping"} /\ phase' = phase /\ status' = status
      /\ UNCHANGED <<stages, attempts, recBlock, missed, tick, cancelling, ctx, loc>>
      /\ pending[r] > 0 /\ pending' = [pending EXCEPT ![r] = @ - 1]
  BY DEF RunOne, durable, recovery, history
<1>2. /\ inflight' \subseteq inflight \cup {r}
      /\ \A v \in Workers :
           \/ /\ pc'[v] = pc[v] /\ on'[v] = on[v] /\ loc'[v] = loc[v]
              /\ ctx'[v] = ctx[v] \/ ctx'[v] # "live"
           \/ pc[v] \notin HeedlessPCs /\ pc'[v] \notin HeedlessPCs
  <2>1. CASE \E w \in Workers : Claim(w, r, "claimedEnqueue")
    BY <1>1, <2>1, Claimed
  <2>2. CASE UNCHANGED <<inflight, pc, on>>
    BY <1>1, <2>2
  <2> QED
    BY <2>1, <2>2 DEF RunOne
<1>3. ASSUME NEW s \in Runs, status'[s] = "absent"
      PROVE  s \notin inflight' \cup tick'.todo \cup cancelling' /\ pending'[s] = 0
  <2>1. /\ s \notin inflight \cup tick.todo \cup cancelling /\ pending[s] = 0 /\ s # r
    BY <1>1, <1>3, Known
  <2> QED
    BY <1>1, <1>2, <2>1 DEF Inv, TypeOK, ServerTypeOK
<1> QED
  BY <1>1, <1>2, <1>3, OutsideRows

LEMMA TickVisitRows ==
  ASSUME Inv, Inv', RowInv, NEW r \in Runs, TickVisit(r)
  PROVE  RowInv'
<1>1. /\ phase \in {"serving", "stopping"} /\ phase' = phase
      /\ UNCHANGED <<stages, attempts, recBlock, missed, cancelling, ctx, loc, pending>>
      /\ r \in tick.todo /\ tick'.todo \subseteq tick.todo
  BY DEF TickVisit, recovery, history, NoTick, Inv, TypeOK, ServerTypeOK
<1>2. /\ inflight' \subseteq inflight \cup {r}
      /\ \A v \in Workers :
           \/ /\ pc'[v] = pc[v] /\ on'[v] = on[v] /\ loc'[v] = loc[v]
              /\ ctx'[v] = ctx[v] \/ ctx'[v] # "live"
           \/ pc[v] \notin HeedlessPCs /\ pc'[v] \notin HeedlessPCs
  <2>1. CASE \E w \in Workers : Claim(w, r, "claimedTick")
    BY <1>1, <2>1, Claimed
  <2>2. CASE UNCHANGED <<inflight, pc, on>>
    BY <1>1, <2>2
  <2> QED
    BY <2>1, <2>2 DEF TickVisit
<1>3. status' = status \/ status' = [status EXCEPT ![r] = "blocked"]
  BY DEF TickVisit
<1>4. \A s \in Runs :
        \/ status'[s] = status[s]
        \/ /\ status'[s] \notin Terminal \cup {"absent"}
           /\ status'[s] \in Resting \/ status[s] \notin Resting
  BY <1>3, Tables DEF Resting, Halted, Terminal
<1>5. ASSUME NEW s \in Runs, status'[s] = "absent"
      PROVE  s \notin inflight' \cup tick'.todo \cup cancelling' /\ pending'[s] = 0
  <2>1. status[s] = "absent"
    BY <1>3, <1>5, Tables
  <2>2. s \notin inflight \cup tick.todo \cup cancelling /\ pending[s] = 0 /\ s # r
    BY <1>1, <2>1, Known
  <2> QED
    BY <1>1, <1>2, <2>2
<1> QED
  BY <1>1, <1>2, <1>4, <1>5, OutsideRows

LEMMA SchedulerRows ==
  ASSUME Inv, Inv', RowInv, TickList \/ \E w \in Workers : Register(w) \/ Release(w)
  PROVE  RowInv'
<1>1. /\ phase \in {"serving", "stopping"} /\ phase' = phase /\ status' = status
      /\ UNCHANGED <<stages, attempts, recBlock, missed, cancelling, pending>>
      /\ inflight' \subseteq inflight
  BY DEF Register, Release, TickList, durable, recovery, history, scheduler
<1>2. \A v \in Workers :
        \/ /\ pc'[v] = pc[v] /\ on'[v] = on[v] /\ loc'[v] = loc[v]
           /\ ctx'[v] = ctx[v] \/ ctx'[v] # "live"
        \/ pc[v] \notin HeedlessPCs /\ pc'[v] \notin HeedlessPCs
  BY Places DEF Register, Release, TickList, worker, Inv, TypeOK, WorkerTypeOK
<1>3. \A s \in Runs : s \in tick'.todo => s \in tick.todo \/ status[s] # "absent"
  BY DEF Register, Release, TickList, Listed, scheduler
<1> QED
  BY <1>1, <1>2, <1>3, Known, OutsideRows

LEMMA EnqueueRows ==
  ASSUME Inv, Inv', RowInv, NEW r \in Runs, NEW to \in {"queued", "ready_to_integrate"},
         Enqueue(r, to), to = "queued" => status[r] = "absent", phase = "serving",
         UNCHANGED <<stages, attempts, phase, recovery, inflight, tick, worker, cancelling, missed>>
  PROVE  RowInv'
<1>1. /\ status'[r] \in {"blocked", to} /\ \A s \in Runs \ {r} : status'[s] = status[s]
      /\ \A s \in Runs \ {r} : pending'[s] = pending[s]
  BY Tables DEF Enqueue, Inv, TypeOK, ServerTypeOK
<1>2. \A s \in Runs :
        \/ status'[s] = status[s]
        \/ /\ status'[s] \notin Terminal \cup {"absent"}
           /\ status'[s] \in Resting \/ status[s] \notin Resting
  BY <1>1 DEF Resting, Halted, Terminal
<1>3. ASSUME NEW s \in Runs, status'[s] = "absent"
      PROVE  s \notin inflight' \cup tick'.todo \cup cancelling' /\ pending'[s] = 0
  <2>1. s # r
    BY <1>1, <1>3
  <2> QED
    BY <1>1, <1>3, <2>1, Known
<1> QED
  BY <1>2, <1>3, OutsideRows DEF recovery, worker

(* A cancellation that goes past a live execution leaves it without rows.   *)
LEMMA CancelCommitRows ==
  ASSUME Inv, Inv', RowInv, NEW r \in Runs, CancelCommit(r)
  PROVE  RowInv'
<1>1. /\ phase \in {"serving", "stopping"} /\ phase' = phase /\ r \in cancelling
      /\ UNCHANGED <<recBlock, recTodo, inflight, pending, tick, pc, on, ctx, loc>>
      /\ cancelling' = cancelling \ {r}
  BY DEF CancelCommit, recovery, scheduler, worker
<1>2. status[r] # "absent"
  BY <1>1, Known
<1>3. CASE UNCHANGED <<status, stages, attempts, missed>>
  BY <1>1, <1>3, Known, OutsideRows
<1>4. CASE /\ CancelRun(r)
           /\ missed' = IF status[r] \notin Terminal /\ Heedless(r) THEN missed \cup {r} ELSE missed
  <2>1. CASE status[r] \in Terminal
    <3>1. UNCHANGED <<status, stages, attempts, missed>>
      BY <1>4, <2>1 DEF CancelRun
    <3> QED
      BY <1>3, <3>1
  <2>2. CASE status[r] \notin Terminal
    <3>1. /\ \A s \in Runs \ {r} :
               /\ status'[s] = status[s] /\ stages'[s] = stages[s] /\ attempts'[s] = attempts[s]
               /\ s \in missed' <=> s \in missed
          /\ status'[r] = "cancelled" /\ AllClosed(r)'
          /\ Len(stages'[r]) = Len(stages[r])
          /\ Len(attempts'[r]) = Len(attempts[r]) /\ DOMAIN attempts'[r] = DOMAIN attempts[r]
          /\ \A i \in DOMAIN attempts[r] : attempts'[r][i].stage = attempts[r][i].stage
          /\ r \in missed => r \in missed'
          /\ Heedless(r) => r \in missed'
      BY <1>4, <2>2, CancelCloses
    <3>2. RecoveryOK'
      BY <1>1 DEF RowInv, RecoveryOK
    <3>3. ASSUME NEW v \in Workers
          PROVE  WorkerRows(v)'
      <4>1. CASE pc[v] \notin HeedlessPCs
        BY <1>1, <4>1 DEF WorkerRows, OpenPCs, AttemptPCs, ClosedPCs, HeedlessPCs, EnginePCs
      <4>2. CASE pc[v] \in HeedlessPCs
        <5>1. on[v] \in Runs /\ WorkerRows(v)
          BY <4>2, Places, EngineRun DEF RowInv
        <5>2. CASE on[v] # r
          BY <1>1, <3>1, <5>1, <5>2 DEF WorkerRows, AllClosed
        <5>3. CASE on[v] = r
          <6>1. ctx[v] = "live" => r \in missed'
            BY <3>1, <4>2, <5>3 DEF Heedless, HeedlessPCs
          <6> QED
            BY <1>1, <3>1, <5>1, <5>3, <6>1 DEF WorkerRows, AllClosed
        <5> QED
          BY <5>2, <5>3
      <4> QED
        BY <4>1, <4>2
    <3>4. ASSUME NEW s \in Runs
          PROVE  RunRows(s)'
      <4>1. RunRows(s)
        BY DEF RowInv
      <4>2. CASE s # r
        <5>1. Attended(s)' <=> Attended(s)
          BY <1>1 DEF Attended
        <5> QED
          BY <1>1, <3>1, <4>1, <4>2, <5>1
          DEF RunRows, LastOpen, OpenInOpen, EndedClosed, Unborn, OpenAttended, AllClosed
      <4>3. CASE s = r
        BY <3>1, <4>3
        DEF RunRows, LastOpen, OpenInOpen, EndedClosed, Unborn, OpenAttended, AllClosed
      <4> QED
        BY <4>2, <4>3
    <3> QED
      BY <3>2, <3>3, <3>4 DEF RowInv
  <2> QED
    BY <2>1, <2>2
<1> QED
  BY <1>3, <1>4 DEF CancelCommit

LEMMA ApiRows ==
  ASSUME Inv, Inv', RowInv, NEW r \in Runs, ApiStep(r)
  PROVE  RowInv'
<1>1. CASE Submit(r)
  BY <1>1, EnqueueRows DEF Submit, history
<1>2. CASE CancelSignal(r)
  <2>1. /\ phase \in {"serving", "stopping"} /\ phase' = phase /\ status' = status
        /\ UNCHANGED <<stages, attempts, recBlock, missed, inflight, tick, pending, pc, on, loc>>
        /\ cancelling' = cancelling \cup {r} /\ status[r] # "absent"
        /\ \A v \in Workers : ctx'[v] = ctx[v] \/ ctx'[v] # "live"
    BY <1>2 DEF CancelSignal, durable, recovery, scheduler
  <2> QED
    BY <2>1, Known, OutsideRows
<1>3. CASE CancelCommit(r)
  BY <1>3, CancelCommitRows
<1>4. CASE ManualIntegrate(r)
  BY <1>4, EnqueueRows DEF ManualIntegrate
<1> QED
  BY <1>1, <1>2, <1>3, <1>4 DEF ApiStep

-----------------------------------------------------------------------------
(* The process and its recovery.                                            *)

LEMMA ExitRows ==
  ASSUME RowInv, Exit
  PROVE  RowInv'
<1>1. /\ phase' = "down" /\ recTodo' = {} /\ recBlock' = NoRun
      /\ inflight' = {} /\ pending' = [r \in Runs |-> 0] /\ tick'.todo = {} /\ cancelling' = {}
      /\ pc' = [w \in Workers |-> "idle"]
      /\ UNCHANGED <<status, stages, attempts, missed>>
  BY DEF Exit, NoTick, history
<1>2. RecoveryOK'
  BY <1>1 DEF RecoveryOK
<1>3. \A w \in Workers : WorkerRows(w)'
  BY <1>1 DEF WorkerRows, OpenPCs, AttemptPCs, ClosedPCs, HeedlessPCs, EnginePCs
<1>4. \A r \in Runs : RunRows(r)'
  BY <1>1
  DEF RowInv, RunRows, LastOpen, OpenInOpen, EndedClosed, Unborn, OpenAttended, AllClosed
<1> QED
  BY <1>2, <1>3, <1>4 DEF RowInv

(* From one phase of recovery to the next: what the active phase is to      *)
(* visit is exactly what may still have open rows.                          *)
LEMMA PhaseRows ==
  ASSUME Inv, Inv', RowInv, Restart \/ NextPhase
  PROVE  RowInv'
<1>1. /\ phase \in {"down", "terminals", "active", "journals"}
      /\ UNCHANGED <<status, stages, attempts, missed, recBlock, inflight, pending, tick, pc, on,
                     ctx, loc, cancelling>>
  BY DEF Restart, NextPhase, durable, scheduler, worker, history
<1>2. /\ phase = "down" => phase' = "terminals"
      /\ phase = "terminals" => phase' = "active" /\ recTodo' = Recoverable
      /\ phase = "active" => phase' = "journals" /\ recTodo = {}
      /\ phase = "journals" => phase' = "serving" /\ recTodo = {}
  BY <1>1 DEF Restart, NextPhase
<1>3. \A w \in Workers : pc[w] = "idle"
  BY <1>1 DEF RowInv, RecoveryOK
<1>4. RecoveryOK'
  <2>1. phase = "down" => \A r \in recTodo' : status[r] \in Terminal
    BY <1>1 DEF Restart, NextPhase
  <2> QED
    BY <1>1, <1>2, <1>3, <2>1 DEF RowInv, RecoveryOK, Recoverable
<1>5. \A w \in Workers : WorkerRows(w)'
  BY <1>1, <1>3 DEF WorkerRows, OpenPCs, AttemptPCs, ClosedPCs, HeedlessPCs, EnginePCs
<1>6. ASSUME NEW r \in Runs
      PROVE  RunRows(r)'
  <2>1. RunRows(r)
    BY DEF RowInv
  <2>2. LastOpen(r)' /\ OpenInOpen(r)' /\ EndedClosed(r)' /\ Unborn(r)'
    BY <1>1, <2>1 DEF RunRows, LastOpen, OpenInOpen, EndedClosed, Unborn, AllClosed
  <2>3. CASE phase = "down"
    BY <1>2, <2>2, <2>3 DEF RunRows, OpenAttended
  <2>4. CASE phase = "terminals"
    <3>1. r \notin Recoverable => AllClosed(r) \/ (r \in missed /\ status[r] \in Resting)
      BY <2>1, RestingStatuses DEF Recoverable, RunRows, EndedClosed, Unborn
    <3> QED
      BY <1>1, <1>2, <2>2, <2>4, <3>1 DEF RunRows, OpenAttended, Attended, AllClosed
  <2>5. CASE phase \in {"active", "journals"}
    <3>1. ~Attended(r)
      BY <1>2, <1>3, <2>5 DEF Attended, OpenPCs
    <3>2. AllClosed(r) \/ (r \in missed /\ status[r] \in Resting)
      BY <2>1, <2>5, <3>1 DEF RunRows, OpenAttended
    <3> QED
      BY <1>1, <2>2, <3>2 DEF RunRows, OpenAttended, AllClosed
  <2> QED
    BY <1>1, <2>3, <2>4, <2>5
<1> QED
  BY <1>4, <1>5, <1>6 DEF RowInv

LEMMA ProcessRows ==
  ASSUME Inv, Inv', RowInv, Shutdown \/ StopDone \/ Crash \/ Restart \/ NextPhase \/ DiskChange
  PROVE  RowInv'
<1>1. CASE Shutdown
  <2>1. /\ phase \in {"serving", "stopping"} /\ phase' \in {"serving", "stopping"}
        /\ UNCHANGED <<status, stages, attempts, recBlock, missed, inflight, tick, pending, pc,
                       on, loc, cancelling>>
        /\ \A v \in Workers : ctx'[v] = ctx[v] \/ ctx'[v] # "live"
    BY <1>1 DEF Shutdown, durable, recovery, scheduler, history
  <2> QED
    BY <2>1, Known, OutsideRows
<1>2. CASE StopDone \/ Crash
  BY <1>2, ExitRows DEF StopDone, Crash
<1>3. CASE Restart \/ NextPhase
  BY <1>3, PhaseRows
<1>4. CASE DiskChange
  BY <1>4, NothingMoves DEF DiskChange, durable, history
<1> QED
  BY <1>1, <1>2, <1>3, <1>4

(* Recovery touches one run: the other runs keep what they had.             *)
LEMMA RecoveredRun ==
  ASSUME Inv, RowInv, NEW r \in Runs,
         phase \in {"terminals", "active", "journals"},
         UNCHANGED <<phase, scheduler, worker, cancelling, missed>>,
         \A s \in Runs \ {r} :
           /\ status'[s] = status[s] /\ stages'[s] = stages[s] /\ attempts'[s] = attempts[s]
           /\ s \in recTodo' <=> s \in recTodo,
         RecoveryOK',
         LastOpen(r)', OpenInOpen(r)', EndedClosed(r)', status'[r] # "absent", OpenAttended(r)'
  PROVE  RowInv'
<1>1. \A w \in Workers : pc[w] = "idle" /\ pc'[w] = "idle"
  BY DEF RowInv, RecoveryOK, worker
<1>2. \A w \in Workers : WorkerRows(w)'
  BY <1>1 DEF WorkerRows, OpenPCs, AttemptPCs, ClosedPCs, HeedlessPCs, EnginePCs
<1>3. ASSUME NEW s \in Runs \ {r}
      PROVE  RunRows(s)'
  <2>1. RunRows(s)
    BY DEF RowInv
  <2>2. Attended(s)' <=> Attended(s)
    BY DEF Attended, worker
  <2> QED
    BY <2>1, <2>2
    DEF RunRows, LastOpen, OpenInOpen, EndedClosed, Unborn, OpenAttended, AllClosed, scheduler
<1>4. RunRows(r)'
  BY DEF RunRows, Unborn
<1> QED
  BY <1>2, <1>3, <1>4 DEF RowInv

LEMMA RecoverTerminalRows ==
  ASSUME Inv, Inv', RowInv, NEW r \in Runs, RecoverTerminal(r)
  PROVE  RowInv'
<1>1. /\ phase = "terminals" /\ r \in recTodo /\ recTodo' = recTodo \ {r}
      /\ UNCHANGED <<status, phase, recBlock, scheduler, worker, cancelling, missed>>
  BY DEF RecoverTerminal, history
<1> DEFINE s == IF status[r] = "cancelled" THEN "cancelled" ELSE "interrupted"
<1>2. /\ attempts' = [attempts EXCEPT ![r] = CloseRunning(@, s)]
      /\ stages' = [stages EXCEPT ![r] = CloseRunning(@, "interrupted")]
      /\ s \in AttemptStatuses \ {"running"}
  BY DEF RecoverTerminal, AttemptStatuses
<1> HIDE DEF s
<1>3. /\ attempts'[r] = CloseRunning(attempts[r], s)
      /\ stages'[r] = CloseRunning(stages[r], "interrupted")
      /\ \A t \in Runs \ {r} : stages'[t] = stages[t] /\ attempts'[t] = attempts[t]
  BY <1>2, Tables
<1>4. Running(attempts'[r]) = {}
  BY <1>2, <1>3, Tables, ClosedRows
<1>5. Running(stages'[r]) = {}
  BY <1>3, Tables, ClosedRows DEF AttemptStatuses
<1>6. LastOpen(r)' /\ OpenInOpen(r)' /\ EndedClosed(r)' /\ OpenAttended(r)'
  BY <1>4, <1>5 DEF LastOpen, OpenInOpen, EndedClosed, OpenAttended, AllClosed
<1>7. RecoveryOK'
  BY <1>1 DEF RowInv, RecoveryOK, worker
<1>8. status[r] # "absent"
  BY <1>1 DEF RowInv, RecoveryOK, Terminal
<1> QED
  BY <1>1, <1>3, <1>6, <1>7, <1>8, RecoveredRun

LEMMA RecoverAttemptRows ==
  ASSUME Inv, Inv', RowInv, NEW r \in Runs, RecoverAttempt(r)
  PROVE  RowInv'
<1>1. /\ phase = "active" /\ r \in recTodo /\ recTodo' = recTodo /\ recBlock = NoRun
      /\ recBlock' \in {r, NoRun}
      /\ UNCHANGED <<status, stages, phase, scheduler, worker, cancelling, missed>>
  BY DEF RecoverAttempt, history
<1>2. PICK i \in Running(attempts[r]) : attempts' = [attempts EXCEPT ![r][i].status = "interrupted"]
  BY DEF RecoverAttempt
<1>3. PICK rows \in Seq(Attempt) : rows = attempts[r]
  BY Tables
<1>4. /\ attempts'[r] = Marked(rows, i, "interrupted")
      /\ \A t \in Runs \ {r} : attempts'[t] = attempts[t]
  BY <1>2, <1>3, Tables DEF Marked
<1>5. /\ Running(attempts'[r]) = Running(rows) \ {i} /\ Len(attempts'[r]) = Len(rows)
      /\ \A j \in DOMAIN rows \ {i} : attempts'[r][j] = rows[j]
  BY <1>4, MarkedRows DEF AttemptStatuses
<1>6. RunRows(r) /\ status[r] \notin Terminal \cup {"absent"}
  BY <1>1 DEF RowInv, RecoveryOK
<1>7. Running(rows) \subseteq DOMAIN rows
  BY DEF Running
<1>8. LastOpen(r)' /\ OpenInOpen(r)' /\ EndedClosed(r)'
  BY <1>1, <1>3, <1>5, <1>6, <1>7 DEF RunRows, LastOpen, OpenInOpen, EndedClosed
<1>9. OpenAttended(r)'
  BY <1>1 DEF OpenAttended, Attended
<1>10. RecoveryOK'
  BY <1>1 DEF RowInv, RecoveryOK, worker
<1> QED
  BY <1>1, <1>4, <1>6, <1>8, <1>9, <1>10, RecoveredRun

LEMMA RecoverBlockRows ==
  ASSUME Inv, Inv', RowInv, NEW r \in Runs, RecoverBlock(r)
  PROVE  RowInv'
<1>1. /\ phase = "active" /\ recBlock = r /\ recBlock' = NoRun /\ recTodo' = recTodo
      /\ status' = [status EXCEPT ![r] = "blocked"]
      /\ UNCHANGED <<stages, attempts, phase, scheduler, worker, cancelling, missed>>
  BY DEF RecoverBlock, history
<1>2. r \in recTodo /\ RunRows(r)
  BY <1>1, RunsAssumption DEF RowInv, RecoveryOK
<1>3. status'[r] = "blocked" /\ \A t \in Runs \ {r} : status'[t] = status[t]
  BY <1>1, Tables
<1>4. RecoveryOK'
  BY <1>1, <1>3 DEF RowInv, RecoveryOK, worker, Terminal
<1>5. LastOpen(r)' /\ OpenInOpen(r)' /\ EndedClosed(r)' /\ OpenAttended(r)'
  BY <1>1, <1>2, <1>3 DEF RunRows, LastOpen, OpenInOpen, EndedClosed, OpenAttended, Attended,
                          Terminal
<1> QED
  BY <1>1, <1>3, <1>4, <1>5, RecoveredRun

LEMMA RecoverStagesRows ==
  ASSUME Inv, Inv', RowInv, NEW r \in Runs, RecoverStages(r)
  PROVE  RowInv'
<1>1. /\ phase = "active" /\ r \in recTodo /\ recTodo' = recTodo \ {r} /\ recBlock = NoRun
      /\ Running(attempts[r]) = {} /\ recBlock' = NoRun
      /\ stages' = [stages EXCEPT ![r] = CloseRunning(@, "interrupted")]
      /\ UNCHANGED <<status, attempts, phase, scheduler, worker, cancelling, missed>>
  BY DEF RecoverStages, history
<1>2. /\ stages'[r] = CloseRunning(stages[r], "interrupted")
      /\ \A t \in Runs \ {r} : stages'[t] = stages[t]
  BY <1>1, Tables
<1>3. Running(stages'[r]) = {}
  BY <1>2, Tables, ClosedRows DEF AttemptStatuses
<1>4. status[r] # "absent" /\ RecoveryOK'
  BY <1>1 DEF RowInv, RecoveryOK, worker
<1>5. LastOpen(r)' /\ OpenInOpen(r)' /\ EndedClosed(r)' /\ OpenAttended(r)'
  BY <1>1, <1>3 DEF LastOpen, OpenInOpen, EndedClosed, OpenAttended, AllClosed
<1> QED
  BY <1>1, <1>2, <1>4, <1>5, RecoveredRun

LEMMA RecoverJournalRows ==
  ASSUME Inv, Inv', RowInv, NEW r \in Runs, RecoverJournal(r)
  PROVE  RowInv'
<1>1. /\ phase = "journals" /\ recTodo' = recTodo \ {r}
      /\ UNCHANGED <<stages, attempts, phase, recBlock, scheduler, worker, cancelling, missed>>
  BY DEF RecoverJournal, history
<1>2. /\ \/ status'[r] = status[r] /\ status[r] \in Terminal
         \/ status'[r] \in {"complete", "integration_blocked"}
      /\ \A t \in Runs \ {r} : status'[t] = status[t]
  BY Tables DEF RecoverJournal
<1>3. /\ RunRows(r) /\ RecoveryOK'
      /\ \A w \in Workers : pc[w] = "idle"
  BY <1>1 DEF RowInv, RecoveryOK, worker
<1>4. ~Attended(r)
  BY <1>1, <1>3 DEF Attended, OpenPCs
<1>5. AllClosed(r) \/ (r \in missed /\ status[r] \in Resting)
  BY <1>1, <1>3, <1>4 DEF RunRows, OpenAttended
<1>6. status'[r] \in Resting /\ status'[r] # "absent"
  BY <1>2 DEF Resting, Terminal, Halted
<1>7. LastOpen(r)' /\ OpenInOpen(r)' /\ EndedClosed(r)' /\ OpenAttended(r)'
  BY <1>1, <1>3, <1>5, <1>6 DEF RunRows, LastOpen, OpenInOpen, EndedClosed, OpenAttended, AllClosed
<1> QED
  BY <1>1, <1>2, <1>3, <1>6, <1>7, RecoveredRun

LEMMA RecoveryRows ==
  ASSUME Inv, Inv', RowInv, NEW r \in Runs, RecoveryStep(r)
  PROVE  RowInv'
  BY RecoverTerminalRows, RecoverAttemptRows, RecoverBlockRows, RecoverStagesRows,
     RecoverJournalRows
  DEF RecoveryStep

-----------------------------------------------------------------------------
LEMMA InitRows == Init => RowInv
  BY RunsAssumption
  DEF Init, RowInv, RecoveryOK, WorkerRows, RunRows, LastOpen, OpenInOpen, EndedClosed, Unborn,
      OpenAttended, Attended, AllClosed, Running, NoTick, OpenPCs, AttemptPCs, ClosedPCs,
      HeedlessPCs, EnginePCs, Terminal

LEMMA NextRows ==
  ASSUME Inv, Inv', RowInv, [Next]_vars
  PROVE  RowInv'
<1>1. CASE Next
  BY <1>1, EngineRows, RunOneRows, TickVisitRows, SchedulerRows, ApiRows, RecoveryRows, ProcessRows
  DEF Next, WorkerStep
<1>2. CASE UNCHANGED vars
  BY <1>2, NothingMoves DEF vars, durable, history
<1> QED
  BY <1>1, <1>2

LEMMA RowsHold == Spec => [](Inv /\ RowInv)
<1>1. Init => Inv /\ RowInv
  BY InitInv, InitRows
<1>2. Inv /\ RowInv /\ [Next]_vars => (Inv /\ RowInv)'
  BY NextInv, NextRows
<1> QED
  BY <1>1, <1>2, PTL DEF Spec

(* However many goroutines, clients, crashes and recoveries there are, only *)
(* the last stage and the last attempt of a run can be open, and an open    *)
(* attempt belongs to the open stage (runStage, Store.CancelRun,            *)
(* reconcileActive).                                                        *)
THEOREM OneOpen == Spec => []OneOpenAttempt
<1>1. RowInv => OneOpenAttempt
  BY DEF RowInv, RunRows, LastOpen, OpenInOpen, OneOpenAttempt
<1> QED
  BY <1>1, RowsHold, PTL

(* While the server serves, no early return, cancellation or restart leaves *)
(* a row "running" that nobody is running, unless a client cancelled the    *)
(* run behind the back of a live execution.                                 *)
THEOREM NothingOrphaned == Spec => []NoOrphanedWork
<1>1. Inv /\ RowInv => NoOrphanedWork
  <2> SUFFICES ASSUME Inv, RowInv, phase = "serving", NEW r \in Runs \ (inflight \cup missed)
               PROVE  AllClosed(r)
    BY DEF NoOrphanedWork, AllClosed
  <2>1. ~Attended(r)
    BY RunsAssumption DEF Attended, Inv, OneExecution
  <2> QED
    BY <2>1 DEF RowInv, RunRows, OpenAttended
<1> QED
  BY <1>1, RowsHold, PTL

-----------------------------------------------------------------------------
(* History.                                                                 *)

(* A step keeps r's history if it only adds rows and only writes open ones. *)
Kept(r) ==
  /\ \A i \in DOMAIN attempts[r] :
       /\ i \in DOMAIN attempts'[r]
       /\ i \notin Running(attempts[r]) => attempts'[r][i] = attempts[r][i]
  /\ \A i \in DOMAIN stages[r] :
       /\ i \in DOMAIN stages'[r] /\ stages'[r][i].kind = stages[r][i].kind
       /\ i \notin Running(stages[r]) => stages'[r][i] = stages[r][i]

LEMMA KeptSame ==
  ASSUME NEW r, stages'[r] = stages[r], attempts'[r] = attempts[r]
  PROVE  Kept(r)
  BY DEF Kept

LEMMA CancelKeeps ==
  ASSUME Inv, NEW r \in Runs, NEW s \in Runs, CancelRun(r)
  PROVE  Kept(s)
<1>1. CASE s # r \/ status[r] \in Terminal
  BY <1>1, CancelCloses, KeptSame
<1>2. CASE s = r /\ status[r] \notin Terminal
  <2>1. /\ stages'[r] = CloseRunning(stages[r], "interrupted")
        /\ attempts'[r] = CloseRunning(attempts[r], "cancelled")
        /\ DOMAIN stages'[r] = DOMAIN stages[r] /\ DOMAIN attempts'[r] = DOMAIN attempts[r]
        /\ \A i \in DOMAIN stages[r] : stages'[r][i].kind = stages[r][i].kind
    BY <1>2, CancelCloses
  <2>2. \A i \in DOMAIN stages[r] : i \notin Running(stages[r]) => stages'[r][i] = stages[r][i]
    BY <2>1, Tables, ClosedRows DEF AttemptStatuses
  <2>3. \A i \in DOMAIN attempts[r] :
          i \notin Running(attempts[r]) => attempts'[r][i] = attempts[r][i]
    BY <2>1, Tables, ClosedRows DEF AttemptStatuses
  <2> QED
    BY <1>2, <2>1, <2>2, <2>3 DEF Kept
<1> QED
  BY <1>1, <1>2

(* The writes of an execution nobody cancelled behind its back.             *)
LEMMA EngineKeeps ==
  ASSUME Inv, RowInv, NEW w \in Workers, EngineStep(w), NEW s \in Runs \ missed'
  PROVE  Kept(s)
<1> DEFINE r == on[w]
<1>1. /\ pc[w] \in EnginePCs /\ phase \in {"serving", "stopping"} /\ missed' = missed
      /\ ~ObserveCancel(w) => ctx[w] = "live"
  <2>1. CASE ObserveCancel(w)
    BY <2>1 DEF ObserveCancel, history
  <2>2. CASE ~ObserveCancel(w)
    <3>1. PICK p \in EnginePCs : \E q : Step(w, p, q)
      BY <2>2, EngineMoves
    <3> QED
      BY <3>1, StepFacts
  <2> QED
    BY <2>1, <2>2
<1>2. r \in Runs /\ WorkerRows(w) /\ RunRows(r)
  BY <1>1, Here
<1>3. CASE UNCHANGED <<stages, attempts>>
  BY <1>3, KeptSame
<1>4. CASE StopBlocked(w)
  <2>1. /\ stages' = [stages EXCEPT ![r] = CloseRunning(@, "interrupted")] /\ attempts' = attempts
        /\ pc[w] = "begin"
    BY <1>4 DEF StopBlocked, Step
  <2>2. AllClosed(r)
    BY <1>2, <2>1 DEF WorkerRows, ClosedPCs
  <2>3. \A t \in Runs : stages'[t] = IF t = r THEN CloseRunning(stages[r], "interrupted")
                                            ELSE stages[t]
    BY <1>2, <2>1, Tables
  <2>4. DOMAIN stages'[r] = DOMAIN stages[r] /\ \A i \in DOMAIN stages[r] : stages'[r][i] = stages[r][i]
    BY <1>2, <2>2, <2>3, Tables, ClosedRows DEF AllClosed, AttemptStatuses
  <2> QED
    BY <2>1, <2>3, <2>4 DEF Kept
<1>5. CASE BeginStage(w)
  <2> DEFINE x == [kind |-> Kind(w), status |-> "running"]
  <2>1. /\ stages' = [stages EXCEPT ![r] = Append(@, x)] /\ attempts' = attempts
        /\ pc[w] = "begin"
    BY <1>5 DEF BeginStage, Step
  <2>2. x \in Stage /\ x.status = "running"
    BY <2>1, StageKind DEF Stage, AttemptStatuses, StagePCs
  <2> HIDE DEF x
  <2>3. \A t \in Runs : stages'[t] = IF t = r THEN Append(stages[r], x) ELSE stages[t]
    BY <1>2, <2>1, Tables
  <2>4. \A i \in DOMAIN stages[r] : i \in DOMAIN stages'[r] /\ stages'[r][i] = stages[r][i]
    <3>1. PICK rows \in Seq(Stage) : rows = stages[r]
      BY <1>2, Tables
    <3>2. stages'[r] = Append(rows, x)
      BY <1>2, <2>3, <3>1
    <3> QED
      BY <2>2, <3>1, <3>2, AppendedRow
  <2> QED
    BY <2>1, <2>3, <2>4 DEF Kept
<1>6. CASE NextCandidate(w) \/ Correct(w)
  <2> DEFINE x == [stage |-> loc[w].stage, status |-> "running", cp |-> FALSE]
  <2>1. attempts' = [attempts EXCEPT ![r] = Append(@, x)] /\ stages' = stages
    BY <1>6 DEF NextCandidate, Correct, AppendAttempt
  <2>2. x \in Attempt /\ x.status = "running"
    BY DEF Attempt, AttemptStatuses, Inv, TypeOK, WorkerTypeOK, Locals
  <2> HIDE DEF x
  <2>3. \A t \in Runs : attempts'[t] = IF t = r THEN Append(attempts[r], x) ELSE attempts[t]
    BY <1>2, <2>1, Tables
  <2>4. \A i \in DOMAIN attempts[r] : i \in DOMAIN attempts'[r] /\ attempts'[r][i] = attempts[r][i]
    <3>1. PICK rows \in Seq(Attempt) : rows = attempts[r]
      BY <1>2, Tables
    <3>2. attempts'[r] = Append(rows, x)
      BY <1>2, <2>3, <3>1
    <3> QED
      BY <2>2, <3>1, <3>2, AppendedRow
  <2> QED
    BY <2>1, <2>3, <2>4 DEF Kept
<1>7. CASE Checkpoint(w) \/ SettleAttempt(w)
  <2>1. /\ stages' = stages /\ pc[w] \in AttemptPCs /\ ctx[w] = "live"
        /\ \/ attempts' = attempts
           \/ attempts' = [attempts EXCEPT ![r][loc[w].att].cp = TRUE]
           \/ attempts' = [attempts EXCEPT ![r][loc[w].att].status = loc[w].plan.att]
    BY <1>7 DEF Checkpoint, SettleAttempt, Step, durable, AttemptPCs
  <2>2. r \notin missed => loc[w].att \in Running(attempts[r])
    BY <1>2, <2>1, Places DEF WorkerRows
  <2>3. /\ \A t \in Runs \ {r} : attempts'[t] = attempts[t]
        /\ DOMAIN attempts'[r] = DOMAIN attempts[r]
        /\ \A i \in DOMAIN attempts[r] \ {loc[w].att} : attempts'[r][i] = attempts[r][i]
    BY <1>2, <2>1, Tables
  <2> QED
    BY <1>1, <2>1, <2>2, <2>3 DEF Kept
<1>8. CASE SettleStage(w)
  <2>1. /\ attempts' = attempts /\ pc[w] \in OpenPCs /\ ctx[w] = "live"
        /\ stages' = [stages EXCEPT ![r][loc[w].stage].status = loc[w].plan.stage]
    BY <1>8 DEF SettleStage, Step, OpenPCs
  <2>2. r \notin missed => loc[w].stage \in Running(stages[r])
    BY <1>2, <2>1 DEF WorkerRows
  <2>3. /\ \A t \in Runs \ {r} : stages'[t] = stages[t]
        /\ stages'[r] = [stages[r] EXCEPT ![loc[w].stage].status = loc[w].plan.stage]
    BY <1>2, <2>1, Tables
  <2>4. /\ DOMAIN stages'[r] = DOMAIN stages[r]
        /\ \A i \in DOMAIN stages[r] \ {loc[w].stage} : stages'[r][i] = stages[r][i]
        /\ \A i \in DOMAIN stages[r] : stages'[r][i].kind = stages[r][i].kind
    BY <1>2, <2>3, Tables, MarkedStage
  <2> QED
    BY <1>1, <2>1, <2>2, <2>3, <2>4 DEF Kept
<1>9. CASE ObserveCancel(w)
  BY <1>2, <1>9, CancelKeeps DEF ObserveCancel
<1>10. CASE Start(w) \/ Assess(w) \/ Read(w) \/ Route(w) \/ LadderExhausted(w) \/ SettleRun(w)
  BY <1>3, <1>10 DEF Start, Assess, Read, Route, LadderExhausted, SettleRun, durable
<1>11. CASE Exec(w)
  BY <1>3, <1>11, ExecFacts
<1>12. CASE Integrate(w) \/ Publish(w) \/ PublishEnd(w) \/ Return(w)
  BY <1>3, <1>12 DEF Integrate, Publish, PublishEnd, Return, durable
<1> QED
  BY <1>4, <1>5, <1>6, <1>7, <1>8, <1>9, <1>10, <1>11, <1>12 DEF EngineStep

LEMMA RecoveryKeeps ==
  ASSUME Inv, NEW r \in Runs, RecoveryStep(r), NEW s \in Runs
  PROVE  Kept(s)
<1>1. CASE UNCHANGED <<stages, attempts>>
  BY <1>1, KeptSame
<1>2. CASE RecoverTerminal(r) \/ RecoverStages(r)
  <2> DEFINE x == IF status[r] = "cancelled" THEN "cancelled" ELSE "interrupted"
  <2>1. /\ attempts' = attempts \/ attempts' = [attempts EXCEPT ![r] = CloseRunning(@, x)]
        /\ stages' = [stages EXCEPT ![r] = CloseRunning(@, "interrupted")]
        /\ x \in AttemptStatuses \ {"running"}
    BY <1>2 DEF RecoverTerminal, RecoverStages, AttemptStatuses
  <2> HIDE DEF x
  <2>2. /\ \A t \in Runs \ {r} : attempts'[t] = attempts[t] /\ stages'[t] = stages[t]
        /\ attempts'[r] = attempts[r] \/ attempts'[r] = CloseRunning(attempts[r], x)
        /\ stages'[r] = CloseRunning(stages[r], "interrupted")
    BY <2>1, Tables
  <2>3. /\ DOMAIN attempts'[r] = DOMAIN attempts[r]
        /\ \A i \in DOMAIN attempts[r] :
             i \notin Running(attempts[r]) => attempts'[r][i] = attempts[r][i]
    BY <2>1, <2>2, Tables, ClosedRows
  <2>4. /\ DOMAIN stages'[r] = DOMAIN stages[r]
        /\ \A i \in DOMAIN stages[r] :
             i \notin Running(stages[r]) => stages'[r][i] = stages[r][i]
    BY <2>2, Tables, ClosedRows DEF AttemptStatuses
  <2>5. \A i \in DOMAIN stages[r] : stages'[r][i].kind = stages[r][i].kind
    <3>1. stages[r] \in Seq(Stage)
      BY Tables
    <3> QED
      BY <2>2, <3>1, ClosedColumns
  <2> QED
    BY <2>2, <2>3, <2>4, <2>5 DEF Kept
<1>3. CASE RecoverAttempt(r)
  <2>1. PICK i \in Running(attempts[r]) :
          attempts' = [attempts EXCEPT ![r][i].status = "interrupted"]
    BY <1>3 DEF RecoverAttempt
  <2>2. stages' = stages
    BY <1>3 DEF RecoverAttempt
  <2>3. /\ \A t \in Runs \ {r} : attempts'[t] = attempts[t]
        /\ DOMAIN attempts'[r] = DOMAIN attempts[r]
        /\ \A j \in DOMAIN attempts[r] \ {i} : attempts'[r][j] = attempts[r][j]
    BY <2>1, Tables
  <2> QED
    BY <2>1, <2>2, <2>3 DEF Kept
<1> QED
  BY <1>1, <1>2, <1>3 DEF RecoveryStep, RecoverBlock, RecoverJournal

LEMMA NextKeeps ==
  ASSUME Inv, RowInv, [Next]_vars, NEW s \in Runs \ missed'
  PROVE  Kept(s)
<1>1. ASSUME NEW w \in Workers, WorkerStep(w)
      PROVE  Kept(s)
  BY <1>1, EngineKeeps, KeptSame DEF WorkerStep, Register, Release, durable
<1>2. ASSUME NEW r \in Runs, RunOne(r) \/ TickVisit(r)
      PROVE  Kept(s)
  BY <1>2, KeptSame DEF RunOne, TickVisit, durable
<1>3. ASSUME NEW r \in Runs, ApiStep(r)
      PROVE  Kept(s)
  BY <1>3, KeptSame, CancelKeeps
  DEF ApiStep, Submit, CancelSignal, CancelCommit, ManualIntegrate, durable
<1>4. ASSUME NEW r \in Runs, RecoveryStep(r)
      PROVE  Kept(s)
  BY <1>4, RecoveryKeeps
<1>5. CASE TickList \/ DiskChange \/ Shutdown \/ StopDone \/ Crash \/ Restart \/ NextPhase
  BY <1>5, KeptSame
  DEF TickList, DiskChange, Shutdown, StopDone, Crash, Exit, Restart, NextPhase, durable
<1>6. CASE UNCHANGED vars
  BY <1>6, KeptSame DEF vars, durable
<1> QED
  BY <1>1, <1>2, <1>3, <1>4, <1>5, <1>6 DEF Next

(* Stages and attempts are append-only: a row that was closed is never      *)
(* rewritten, whatever retries, cancellations and recoveries follow, unless *)
(* a client cancelled the run behind a live execution.                      *)
THEOREM HistoryKept == Spec => HistoryAppendOnly
<1>1. Inv /\ RowInv /\ [Next]_vars =>
        [\A r \in Runs \ missed' :
           /\ \A i \in DOMAIN attempts[r] :
                /\ i \in DOMAIN attempts'[r]
                /\ i \notin Running(attempts[r]) => attempts'[r][i] = attempts[r][i]
           /\ \A i \in DOMAIN stages[r] :
                /\ i \in DOMAIN stages'[r] /\ stages'[r][i].kind = stages[r][i].kind
                /\ i \notin Running(stages[r]) => stages'[r][i] = stages[r][i]]_vars
  BY NextKeeps DEF Kept
<1> QED
  BY <1>1, RowsHold, PTL DEF Spec, HistoryAppendOnly

-----------------------------------------------------------------------------
(* Finished runs.                                                           *)

(* A step that reopens a finished run is one of three.                      *)
Reopened(r) ==
  \/ used'.integrates > used.integrates
  \/ status'[r] = "blocked" /\ r \in tick.todo /\ ~tick.allowed
  \/ status'[r] = "integration_blocked" /\ phase = "journals" /\ SourceMoves

LEMMA EngineFinishes ==
  ASSUME Inv, RowInv, NEW w \in Workers, EngineStep(w), NEW s \in Runs \ missed',
         status[s] \in Terminal
  PROVE  status'[s] = status[s]
<1> DEFINE r == on[w]
<1>1. CASE ObserveCancel(w)
  <2>1. r \in Runs /\ CancelRun(r)
    BY <1>1, EngineRun DEF ObserveCancel
  <2> QED
    BY <2>1, CancelCloses
<1>2. CASE ~ObserveCancel(w)
  <2>1. PICK p \in EnginePCs : \E q : Step(w, p, q)
    BY <1>2, EngineMoves
  <2>2. /\ pc[w] = p /\ ctx[w] = "live" /\ phase \in {"serving", "stopping"} /\ missed' = missed
    BY <2>1, StepFacts
  <2>3. r \in Runs /\ WorkerRows(w)
    BY <2>1, <2>2, Here
  <2>4. CASE pc[w] \in HeedlessPCs
    <3>1. s # r
      BY <2>2, <2>3, <2>4 DEF WorkerRows
    <3>2. status' = status \/ \E x : status' = [status EXCEPT ![r] = x]
      BY <1>2, EngineWrites
    <3> QED
      BY <3>1, <3>2, Tables
  <2>5. CASE pc[w] \notin HeedlessPCs
    <3>1. Start(w) \/ Read(w) \/ Return(w)
      <4>1. ~(Assess(w) \/ StopBlocked(w) \/ BeginStage(w) \/ Route(w) \/ NextCandidate(w))
        <5>1. Assess(w) \/ StopBlocked(w) \/ BeginStage(w) => pc[w] \in {"assess", "begin"}
          BY DEF Assess, StopBlocked, BeginStage, Step
        <5>2. Route(w) \/ NextCandidate(w) => pc[w] \in {"route", "attempt"}
          BY DEF Route, NextCandidate, Step
        <5> QED
          BY <2>5, <5>1, <5>2 DEF HeedlessPCs, EnginePCs
      <4>2. ~(LadderExhausted(w) \/ Correct(w) \/ Checkpoint(w) \/ Exec(w))
        <5>1. ASSUME Exec(w) PROVE pc[w] = "exec"
          BY <5>1, ExecFacts, StepFacts
        <5>2. LadderExhausted(w) \/ Correct(w) \/ Checkpoint(w) =>
                pc[w] \in {"attempt", "correct", "checkpoint"}
          BY DEF LadderExhausted, Correct, Checkpoint, Step
        <5> QED
          BY <2>5, <5>1, <5>2 DEF HeedlessPCs, EnginePCs
      <4>3. ~(SettleAttempt(w) \/ SettleStage(w) \/ SettleRun(w))
        BY <2>5 DEF SettleAttempt, SettleStage, SettleRun, Step, HeedlessPCs, EnginePCs
      <4>4. ~(Integrate(w) \/ Publish(w) \/ PublishEnd(w))
        BY <2>5 DEF Integrate, Publish, PublishEnd, Step, HeedlessPCs, EnginePCs
      <4> QED
        BY <1>2, <4>1, <4>2, <4>3, <4>4 DEF EngineStep
    <3> QED
      BY <2>3, <3>1, Tables DEF Start, Read, Return, durable, Terminal
  <2> QED
    BY <2>4, <2>5
<1> QED
  BY <1>1, <1>2

LEMMA NextFinishes ==
  ASSUME Inv, RowInv, [Next]_vars, NEW s \in Runs \ missed',
         status[s] \in Terminal, status'[s] # status[s]
  PROVE  Reopened(s)
<1>1. ASSUME NEW w \in Workers, WorkerStep(w)
      PROVE  FALSE
  BY <1>1, EngineFinishes DEF WorkerStep, Register, Release, durable
<1>2. ASSUME NEW r \in Runs, RunOne(r)
      PROVE  FALSE
  BY <1>2 DEF RunOne, durable
<1>3. ASSUME NEW r \in Runs, TickVisit(r)
      PROVE  Reopened(s)
  BY <1>3, Tables DEF TickVisit, Reopened
<1>4. ASSUME NEW r \in Runs, ApiStep(r)
      PROVE  Reopened(s)
  <2>1. CASE Submit(r)
    BY <2>1, Tables DEF Submit, Enqueue, Terminal
  <2>2. CASE CancelSignal(r)
    BY <2>2 DEF CancelSignal, durable
  <2>3. CASE CancelCommit(r)
    BY <2>3, CancelCloses DEF CancelCommit
  <2>4. CASE ManualIntegrate(r)
    <3>1. used'.integrates > used.integrates
      BY <2>4 DEF ManualIntegrate, Inv, TypeOK, OutsideTypeOK
    <3> QED
      BY <3>1 DEF Reopened
  <2> QED
    BY <1>4, <2>1, <2>2, <2>3, <2>4 DEF ApiStep
<1>5. ASSUME NEW r \in Runs, RecoveryStep(r)
      PROVE  Reopened(s)
  <2>1. CASE RecoverBlock(r)
    <3>1. status[r] \notin Terminal
      BY <2>1, RunsAssumption DEF RecoverBlock, RowInv, RecoveryOK
    <3> QED
      BY <2>1, <3>1, Tables DEF RecoverBlock
  <2>2. CASE RecoverJournal(r)
    BY <2>2, Tables DEF RecoverJournal, Reopened
  <2>3. CASE RecoverTerminal(r) \/ RecoverAttempt(r) \/ RecoverStages(r)
    BY <2>3 DEF RecoverTerminal, RecoverAttempt, RecoverStages
  <2> QED
    BY <1>5, <2>1, <2>2, <2>3 DEF RecoveryStep
<1>6. CASE TickList \/ DiskChange \/ Shutdown \/ StopDone \/ Crash \/ Restart \/ NextPhase
  BY <1>6
  DEF TickList, DiskChange, Shutdown, StopDone, Crash, Exit, Restart, NextPhase, durable
<1>7. CASE UNCHANGED vars
  BY <1>7 DEF vars, durable
<1> QED
  BY <1>1, <1>2, <1>3, <1>4, <1>5, <1>6, <1>7 DEF Next

(* A finished run stays finished: no late write of an execution, of the     *)
(* scheduler or of recovery reopens it, other than the three the code means *)
(* to (UpdateRunStatus against CancelRun, integrateRun, tick's storage      *)
(* gate, reconcilePublication).                                             *)
THEOREM FinishedStays == Spec => TerminalStays
<1>1. Inv /\ RowInv /\ [Next]_vars =>
        [\A r \in Runs \ missed' :
           status[r] \in Terminal /\ status'[r] # status[r] =>
             \/ used'.integrates > used.integrates
             \/ status'[r] = "blocked" /\ r \in tick.todo /\ ~tick.allowed
             \/ status'[r] = "integration_blocked" /\ phase = "journals" /\ SourceMoves]_vars
  BY NextFinishes DEF Reopened
<1> QED
  BY <1>1, RowsHold, PTL DEF Spec, TerminalStays

=============================================================================
