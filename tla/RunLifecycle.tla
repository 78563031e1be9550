---------------------------- MODULE RunLifecycle ----------------------------
(***************************************************************************)
(* The life of a run: the orchestrator's state machine                     *)
(* (orchestrator/machine.go), the scheduler that starts it                 *)
(* (scheduler/scheduler.go), the API handlers that race with it            *)
(* (api/server.go), the durable tables they share (storage/) and the       *)
(* startup reconciliation after a crash (recovery/recovery.go).            *)
(*                                                                         *)
(* A worker is one goroutine of Scheduler.runOne.  Every durable write is  *)
(* a step of its own, so that cancellation, the storage gate, an operator  *)
(* and a crash can fall between any two of them.  Writes of the engine use *)
(* the run's context and fail once it is cancelled: every engine action    *)
(* below therefore requires a live context, and a worker whose context is  *)
(* cancelled can only take ObserveCancel.                                  *)
(***************************************************************************)
EXTENDS Naturals, Sequences, FiniteSets

CONSTANTS
  Runs,              \* runs that clients may submit
  Workers,           \* identities of runOne goroutines
  NoRun,             \* the run of an idle worker
  ArtifactOnlyRuns,  \* runs whose task was posted with artifactOnly
  MaxStages,         \* Budgets.MaxStages
  MaxRepair,         \* Budgets.MaxRepair
  MaxReplan,         \* Budgets.MaxReplan
  MaxStageAttempts,  \* Budgets.MaxStageAttempts
  MaxCandidates,     \* bound: routes a stage can have (primary and fallbacks)
  MaxCrashes,        \* bound: crashes of the server process
  MaxShutdowns,      \* bound: graceful shutdowns
  MaxCancels,        \* bound: cancel requests
  MaxIntegrates,     \* bound: manual integrate requests
  DiskPressure,      \* whether free space may cross the write-heavy threshold
  SourceMoves        \* whether a project may be relocated while the server is down

ASSUME RunsAssumption    == NoRun \notin Runs /\ ArtifactOnlyRuns \subseteq Runs
ASSUME BudgetAssumption  == /\ MaxStages \in Nat \ {0} /\ MaxRepair \in Nat \ {0}
                            /\ MaxReplan \in Nat \ {0} /\ MaxStageAttempts \in Nat \ {0}
ASSUME BoundsAssumption  == /\ MaxCandidates \in Nat \ {0} /\ MaxCrashes \in Nat
                            /\ MaxShutdowns \in Nat /\ MaxCancels \in Nat
                            /\ MaxIntegrates \in Nat
ASSUME SwitchAssumption  == DiskPressure \in BOOLEAN /\ SourceMoves \in BOOLEAN

VARIABLES
  (* durable: the SQLite rows and what lies beside them *)
  status,      \* runs.status, "absent" before the run is created
  stages,      \* the stages of a run, in ordinal order
  attempts,    \* the stage_attempts of a run, in creation order
  val,         \* gate of the latest non-baseline validation artifact
  journal,     \* runs with a publication journal on disk
  torn,        \* runs whose workspace holds the writes of a crashed attempt
  (* volatile: the server process *)
  phase,       \* serving, stopping, down, or a step of recovery
  recTodo,     \* what the current recovery step has still to visit
  recBlock,    \* run whose failed restore is not yet recorded on the run
  inflight,    \* Scheduler.inflight
  pending,     \* goroutines spawned by Enqueue that have not entered runOne
  tick,        \* Scheduler.tick: what it listed and has still to visit
  pc, on, ctx, loc,  \* per worker: control, run, run context, local variables
  cancelling,  \* cancelRun handlers between Sched.Cancel and Store.CancelRun
  (* environment *)
  lowDisk,     \* WriteHeavyAllowed is false
  used,        \* how much of each bound is used
  (* history, read by properties only *)
  cancelReq,   \* runs a client asked to cancel
  missed,      \* runs cancelled while an execution went on with a live context
  forced       \* runs an operator sent to integration by hand

durable   == <<status, stages, attempts, val, journal, torn>>
recovery  == <<recTodo, recBlock>>
scheduler == <<inflight, pending, tick>>
worker    == <<pc, on, ctx, loc>>
history   == <<cancelReq, missed, forced>>
vars == <<durable, phase, recovery, scheduler, worker, cancelling, lowDisk, used, history>>

-----------------------------------------------------------------------------
(* Statuses, stages, attempts (domain/status.go)                           *)

Terminal == {"complete", "failed", "cancelled"}
Halted   == {"blocked", "integration_blocked"}   \* the scheduler leaves these alone
StageStatuses ==
  {"planning", "exploring", "executing", "validating", "reviewing", "repairing", "replanning"}
RunStatuses ==
  {"absent", "queued", "assessing", "ready_to_integrate", "integrating"}
    \cup StageStatuses \cup Halted \cup Terminal

StageForStatus == [planning |-> "plan", exploring |-> "explore", executing |-> "execute",
                   validating |-> "validate", reviewing |-> "review",
                   repairing |-> "repair", replanning |-> "replan"]
Kinds == {"plan", "explore", "execute", "validate", "review", "repair", "replan"}
WriteKinds == {"execute", "repair"}

AttemptStatuses ==
  {"running", "succeeded", "failed", "invalid_output", "cancelled", "interrupted"}
Stage   == [kind : Kinds, status : AttemptStatuses]
Attempt == [stage : Nat, status : AttemptStatuses, cp : BOOLEAN]

(* Mutant: the WHERE status = 'running' of the closing statements is lost.  *)
CloseEverything(rows, as) == [i \in DOMAIN rows |-> [rows[i] EXCEPT !.status = as]]

(* The rows of a table that are running, closed with a given status.       *)
CloseRunning(rows, as) ==
  [i \in DOMAIN rows |-> IF rows[i].status = "running" THEN [rows[i] EXCEPT !.status = as]
                                                       ELSE rows[i]]
Running(rows) == {i \in DOMAIN rows : rows[i].status = "running"}
OfKind(r, k)  == {i \in DOMAIN stages[r] : stages[r][i].kind = k}

-----------------------------------------------------------------------------
(* Local variables of runStage.  "seen" is the status the loop read; the   *)
(* plan is what remains to be written once an attempt has ended: the       *)
(* attempt's status, the stage's status and the run's status, either set   *)
(* unconditionally (UpdateRunStatus) or compared with "seen" first         *)
(* (CompareAndSetRunStatus).                                               *)

NoPlan == [att |-> "keep", stage |-> "keep", how |-> "none", to |-> "absent"]
Plans  == [att : AttemptStatuses \cup {"keep"}, stage : AttemptStatuses \cup {"keep"},
           how : {"none", "set", "cas"}, to : RunStatuses]
Plan(a, s, h, t) == [att |-> a, stage |-> s, how |-> h, to |-> t]

NoLocals == [seen |-> "absent", ao |-> FALSE, stage |-> 0, att |-> 0,
             left |-> 0, made |-> 0, corr |-> FALSE, plan |-> NoPlan]
Locals == [seen : RunStatuses, ao : BOOLEAN, stage : Nat, att : Nat,
           left : Nat, made : Nat, corr : BOOLEAN, plan : Plans]

EnginePCs == {"start", "assess", "read", "begin", "route", "attempt", "correct", "checkpoint",
              "exec", "settleAttempt", "settleStage", "settleRun", "integrate", "publish",
              "publishing", "return"}
PCs == {"idle", "claimedTick", "claimedEnqueue", "release"} \cup EnginePCs

NoTick == [allowed |-> TRUE, todo |-> {}]
Kind(w) == StageForStatus[loc[w].seen]

(* An engine step of worker w: it is at p with a live context.             *)
Step(w, p, q) ==
  /\ phase \in {"serving", "stopping"}
  /\ pc[w] = p
  /\ ctx[w] = "live"
  /\ pc' = [pc EXCEPT ![w] = q]
  /\ UNCHANGED <<phase, recovery, scheduler, on, ctx, cancelling, lowDisk, used, history>>

-----------------------------------------------------------------------------
(* Mutants: a cancellation that forgets the stages; one that does not look  *)
(* at the status.                                                           *)
CancelRunNotStages(r) ==
  IF status[r] \in Terminal THEN UNCHANGED <<status, stages, attempts>>
  ELSE /\ status'   = [status EXCEPT ![r] = "cancelled"]
       /\ attempts' = [attempts EXCEPT ![r] = CloseRunning(@, "cancelled")]
       /\ UNCHANGED stages

CancelRunAnyStatus(r) ==
  /\ status'   = [status EXCEPT ![r] = "cancelled"]
  /\ attempts' = [attempts EXCEPT ![r] = CloseRunning(@, "cancelled")]
  /\ stages'   = [stages EXCEPT ![r] = CloseRunning(@, "interrupted")]

-----------------------------------------------------------------------------
(* Store.CancelRun: run, running attempts and running stages in one        *)
(* transaction, and nothing if the run is already terminal.                *)
CancelRun(r) ==
  IF status[r] \in Terminal THEN UNCHANGED <<status, stages, attempts>>
  ELSE /\ status'   = [status EXCEPT ![r] = "cancelled"]
       /\ attempts' = [attempts EXCEPT ![r] = CloseRunning(@, "cancelled")]
       /\ stages'   = [stages EXCEPT ![r] = CloseRunning(@, "interrupted")]

(* Mutant: the reviewer's verdict decides before the validation gate.       *)
CompletionPolicyVerdictFirst(artifactOnly, gate, verdict, pendingApproval) ==
  CASE pendingApproval                                  -> "blocked"
    [] ~pendingApproval /\ verdict = "pass"             ->
         IF artifactOnly THEN "complete" ELSE "ready_to_integrate"
    [] ~pendingApproval /\ verdict = "fail_blocking"    -> "repairing"
    [] ~pendingApproval /\ verdict = "fail_minor"       -> "replanning"
    [] ~pendingApproval /\ verdict = "insufficient"     -> "exploring"

(* CompletionPolicy: hard gates before the reviewer's verdict.             *)
CompletionPolicy(artifactOnly, gate, verdict, pendingApproval) ==
  CASE pendingApproval                                   -> "blocked"
    [] ~pendingApproval /\ gate = "fail"                 -> "repairing"
    [] ~pendingApproval /\ gate # "fail" /\ verdict = "fail_blocking" -> "repairing"
    [] ~pendingApproval /\ gate # "fail" /\ verdict = "fail_minor"    -> "replanning"
    [] ~pendingApproval /\ gate # "fail" /\ verdict = "insufficient"  -> "exploring"
    [] ~pendingApproval /\ gate # "fail" /\ verdict = "pass"          ->
         IF artifactOnly THEN "complete" ELSE "ready_to_integrate"
Verdicts == {"pass", "fail_blocking", "fail_minor", "insufficient"}

(* advance: the statuses a finished stage may hand the run over to.        *)
Advance(w, verdict, pendingApproval) ==
  CASE Kind(w) = "explore"               -> "planning"
    [] Kind(w) \in {"plan", "replan"}    -> "executing"
    [] Kind(w) \in {"execute", "repair"} -> "validating"
    [] Kind(w) = "validate"              -> "reviewing"
    [] Kind(w) = "review"                ->
         CompletionPolicy(loc[w].ao, val[on[w]], verdict, pendingApproval)

(* Mutant: one stage more than the budget.                                  *)
OverBudgetByOne(r, k) ==
  \/ Len(stages[r]) > MaxStages
  \/ k = "repair" /\ Cardinality(OfKind(r, "repair")) > MaxRepair
  \/ k = "replan" /\ Cardinality(OfKind(r, "replan")) > MaxReplan

(* Engine.budget: total, repair and replan stages are capped.              *)
OverBudget(r, k) ==
  \/ Len(stages[r]) >= MaxStages
  \/ k = "repair" /\ Cardinality(OfKind(r, "repair")) >= MaxRepair
  \/ k = "replan" /\ Cardinality(OfKind(r, "replan")) >= MaxReplan

-----------------------------------------------------------------------------
(* ProcessRun, one worker                                                   *)

(* processRun's first read.  The queued -> assessing write may lose, and    *)
(* the run is then assessed all the same: its error is ignored.             *)
Start(w) ==
  LET r == on[w] IN
  /\ Step(w, "start", CASE status[r] \in Terminal              -> "return"
                        [] status[r] \in {"queued","assessing"} -> "assess"
                        [] OTHER                                -> "read")
  /\ status' = IF status[r] = "queued" THEN [status EXCEPT ![r] = "assessing"] ELSE status
  /\ loc' = [loc EXCEPT ![w] = [NoLocals EXCEPT !.ao = r \in ArtifactOnlyRuns]]
  /\ UNCHANGED <<stages, attempts, val, journal, torn>>

(* assess: the judgment picks the next status and may declare the task      *)
(* artifact-only, which only this execution remembers.                      *)
Assess(w) ==
  LET r == on[w] IN
  \E next \in {"planning", "exploring"}, ao \in BOOLEAN :
    /\ Step(w, "assess", IF status[r] = "assessing" THEN "read" ELSE "return")
    /\ status' = IF status[r] = "assessing" THEN [status EXCEPT ![r] = next] ELSE status
    /\ loc' = [loc EXCEPT ![w].ao = @ \/ ao]
    /\ UNCHANGED <<stages, attempts, val, journal, torn>>

(* The head of processRun's loop.                                           *)
Read(w) ==
  LET r == on[w] IN
  /\ Step(w, "read",
          CASE status[r] \in StageStatuses                        -> "begin"
            [] status[r] \in {"ready_to_integrate", "integrating"} -> "integrate"
            [] OTHER                                              -> "return")
  /\ loc' = [loc EXCEPT ![w] = [NoLocals EXCEPT !.ao = loc[w].ao, !.seen = status[r]]]
  /\ UNCHANGED durable

(* runStage: the budget, then the stage row.                                *)
StopBlocked(w) ==
  LET r == on[w] IN
  /\ Step(w, "begin", "read")
  /\ OverBudget(r, Kind(w))
  /\ stages' = [stages EXCEPT ![r] = CloseRunning(@, "interrupted")]
  /\ status' = [status EXCEPT ![r] = "blocked"]
  /\ UNCHANGED <<attempts, val, journal, torn, loc>>

BeginStage(w) ==
  LET r == on[w] IN
  /\ Step(w, "begin", IF Kind(w) = "validate" THEN "attempt" ELSE "route")
  /\ ~OverBudget(r, Kind(w))
  /\ stages' = [stages EXCEPT ![r] = Append(@, [kind |-> Kind(w), status |-> "running"])]
  /\ loc' = [loc EXCEPT ![w].stage = Len(stages[r]) + 1, ![w].left = 1]
  /\ UNCHANGED <<status, attempts, val, journal, torn>>

(* Routing and workspace preparation: candidates, no viable route, or a     *)
(* workspace that cannot be prepared.                                       *)
Route(w) ==
  \/ \E n \in 1..MaxCandidates :
       /\ Step(w, "route", "attempt")
       /\ loc' = [loc EXCEPT ![w].left = n]
       /\ UNCHANGED durable
  \/ \E to \in {"blocked", "failed"} :
       /\ Step(w, "route", "settleStage")
       /\ loc' = [loc EXCEPT ![w].plan = Plan("keep", "failed", "set", to)]
       /\ UNCHANGED durable

AppendAttempt(w) ==
  /\ attempts' = [attempts EXCEPT ![on[w]] =
       Append(@, [stage |-> loc[w].stage, status |-> "running", cp |-> FALSE])]
  /\ UNCHANGED <<status, stages, val, journal, torn>>

AfterAppend(w) == IF Kind(w) \in WriteKinds THEN "checkpoint" ELSE "exec"

(* The head of the attempt ladder.                                          *)
NextCandidate(w) ==
  /\ Step(w, "attempt", AfterAppend(w))
  /\ loc[w].left > 0 /\ loc[w].made < MaxStageAttempts
  /\ loc' = [loc EXCEPT ![w].left = @ - 1, ![w].att = Len(attempts[on[w]]) + 1]
  /\ AppendAttempt(w)

(* Mutant: an exhausted ladder closes an attempt that is not its own.       *)
LadderExhaustedRewrites(w) ==
  /\ Step(w, "attempt", "settleAttempt")
  /\ ~(loc[w].left > 0 /\ loc[w].made < MaxStageAttempts)
  /\ loc' = [loc EXCEPT ![w].plan = Plan("keep", "failed", "set", "failed")]
  /\ UNCHANGED durable

LadderExhausted(w) ==
  /\ Step(w, "attempt", "settleStage")
  /\ ~(loc[w].left > 0 /\ loc[w].made < MaxStageAttempts)
  /\ loc' = [loc EXCEPT ![w].plan = Plan("keep", "failed", "set", "failed")]
  /\ UNCHANGED durable

(* One correction attempt on the same route after an invalid output.        *)
Correct(w) ==
  /\ Step(w, "correct", AfterAppend(w))
  /\ loc' = [loc EXCEPT ![w].corr = TRUE, ![w].att = Len(attempts[on[w]]) + 1]
  /\ AppendAttempt(w)

(* checkpointBeforeWrite.                                                   *)
Checkpoint(w) ==
  \/ /\ Step(w, "checkpoint", "exec")
     /\ attempts' = [attempts EXCEPT ![on[w]][loc[w].att].cp = TRUE]
     /\ UNCHANGED <<status, stages, val, journal, torn, loc>>
  \/ /\ Step(w, "checkpoint", "settleAttempt")
     /\ loc' = [loc EXCEPT ![w].plan = Plan("failed", "failed", "set", "failed")]
     /\ UNCHANGED durable

(* How an attempt ends: persistArtifact's success, an invalid output, or a  *)
(* failure of one of the classes failStage tells apart.                     *)
Outcomes == {"ok", "invalid", "infrastructure", "task", "policy", "other"}

MayRetry(w) == loc[w].made + 1 < MaxStageAttempts

FailStage(w, class) ==
  Plan("failed", "failed", "set",
       CASE class = "task" /\ Kind(w) = "execute" -> "repairing"
         [] class = "policy"                      -> "blocked"
         [] OTHER                                 -> "failed")

(* <<where the worker goes, what it has to write>> once the attempt ended.  *)
AfterExec(w, o, to) ==
  CASE o = "ok"                -> <<"settleStage", Plan("succeeded", "succeeded", "cas", to)>>
    [] o # "ok" /\ loc[w].corr -> <<"settleStage", Plan("invalid_output", "failed", "set", "failed")>>
    [] o = "invalid" /\ ~loc[w].corr ->
         IF Kind(w) # "validate" /\ MayRetry(w)
         THEN <<"correct", Plan("invalid_output", "keep", "none", "absent")>>
         ELSE <<"settleStage", Plan("invalid_output", "failed", "set", "failed")>>
    [] o = "infrastructure" /\ ~loc[w].corr /\ Kind(w) # "validate" /\ MayRetry(w) ->
         <<"attempt", Plan("failed", "keep", "none", "absent")>>
    [] OTHER -> <<"settleStage", FailStage(w, o)>>

(* execAttempt and persistArtifact; runValidate's attempt can only succeed, *)
(* be refused a copy of the workspace, or produce an invalid artifact.      *)
Exec(w) ==
  LET r == on[w] IN
  \E o \in Outcomes, verdict \in Verdicts, pendingApproval \in BOOLEAN, gate \in {"pass", "fail"},
     ao \in BOOLEAN :
    /\ Step(w, "exec", "settleAttempt")
    /\ Kind(w) = "validate" => o \in {"ok", "invalid", "infrastructure"}
    /\ (o = "ok" /\ Kind(w) = "review") \/ (verdict = "pass" /\ ~pendingApproval)
    /\ (o = "ok" /\ Kind(w) = "validate") \/ gate = "pass"
    /\ ao => o = "ok" /\ Kind(w) \in {"plan", "replan"}
    /\ LET done == AfterExec(w, o, Advance(w, verdict, pendingApproval))
       IN loc' = [loc EXCEPT ![w].made = @ + 1, ![w].ao = @ \/ ao, ![w].plan = done[2],
                             ![w].left = IF done[1] = "settleStage" THEN 0 ELSE @]
    /\ val' = IF o = "ok" /\ Kind(w) = "validate" THEN [val EXCEPT ![r] = gate] ELSE val
    /\ UNCHANGED <<status, stages, attempts, journal, torn>>

(* The three writes that close an attempt, its stage and its turn.          *)
SettleAttempt(w) ==
  LET p == loc[w].plan IN
  /\ Step(w, "settleAttempt", IF p.stage # "keep" THEN "settleStage"
                              ELSE IF p.att = "invalid_output" THEN "correct" ELSE "attempt")
  /\ attempts' = [attempts EXCEPT ![on[w]][loc[w].att].status = p.att]
  /\ UNCHANGED <<status, stages, val, journal, torn, loc>>

SettleStage(w) ==
  /\ Step(w, "settleStage", "settleRun")
  /\ stages' = [stages EXCEPT ![on[w]][loc[w].stage].status = loc[w].plan.stage]
  /\ UNCHANGED <<status, attempts, val, journal, torn, loc>>

(* UpdateRunStatus overwrites; CompareAndSetRunStatus may answer            *)
(* ErrConflict, which ends ProcessRun.                                      *)
SettleRun(w) ==
  LET r == on[w]
      wins == loc[w].plan.how = "set" \/ status[r] = loc[w].seen
  IN /\ Step(w, "settleRun", IF wins THEN "read" ELSE "return")
     /\ status' = IF wins THEN [status EXCEPT ![r] = loc[w].plan.to] ELSE status
     /\ UNCHANGED <<stages, attempts, val, journal, torn, loc>>

-----------------------------------------------------------------------------
(* integrate                                                                *)

(* A task that became artifact-only has nothing to publish.  The            *)
(* ready_to_integrate -> integrating write may lose; nobody looks.          *)
Integrate(w) ==
  LET r == on[w] IN
  /\ Step(w, "integrate", IF loc[w].ao THEN "read" ELSE "publish")
  /\ status' = [status EXCEPT ![r] = IF loc[w].ao THEN "complete"
                                     ELSE IF @ = "ready_to_integrate" THEN "integrating" ELSE @]
  /\ UNCHANGED <<stages, attempts, val, journal, torn, loc>>

(* Conflicts, a moved branch or an unreadable workspace stop the            *)
(* integration before anything is journalled.                               *)
Publish(w) ==
  LET r == on[w] IN
  \/ /\ Step(w, "publish", "publishing")
     /\ journal' = journal \cup {r}
     /\ UNCHANGED <<status, stages, attempts, val, torn, loc>>
  \/ /\ Step(w, "publish", "read")
     /\ status' = [status EXCEPT ![r] = "integration_blocked"]
     /\ UNCHANGED <<stages, attempts, val, journal, torn, loc>>

(* The journal outlives the publication it describes.                       *)
PublishEnd(w) ==
  \E to \in {"complete", "integration_blocked"} :
    /\ Step(w, "publishing", "read")
    /\ status' = [status EXCEPT ![on[w]] = to]
    /\ UNCHANGED <<stages, attempts, val, journal, torn, loc>>

(* Mutant: a cancelled context ends ProcessRun without markCancelled.       *)
ObserveCancelSilently(w) ==
  /\ phase \in {"serving", "stopping"}
  /\ pc[w] \in EnginePCs /\ ctx[w] = "cancelled"
  /\ pc' = [pc EXCEPT ![w] = "release"]
  /\ UNCHANGED <<durable, phase, recovery, scheduler, on, ctx, loc,
                 cancelling, lowDisk, used, history>>

(* ProcessRun's epilogue: whatever call first sees the cancelled context    *)
(* ends in markCancelled, which ignores that cancellation.                  *)
ObserveCancel(w) ==
  /\ phase \in {"serving", "stopping"}
  /\ pc[w] \in EnginePCs /\ ctx[w] = "cancelled"
  /\ CancelRun(on[w])
  /\ pc' = [pc EXCEPT ![w] = "release"]
  /\ UNCHANGED <<val, journal, torn, phase, recovery, scheduler, on, ctx, loc,
                 cancelling, lowDisk, used, history>>

Return(w) ==
  /\ Step(w, "return", "release")
  /\ UNCHANGED <<durable, loc>>

-----------------------------------------------------------------------------
(* Scheduler.runOne                                                         *)

(* Mutant: the claim does not look whether the run is in flight.            *)
ClaimUnchecked(w, r, from) ==
  /\ pc[w] = "idle"
  /\ inflight' = inflight \cup {r}
  /\ pc' = [pc EXCEPT ![w] = from]
  /\ on' = [on EXCEPT ![w] = r]

(* The run is claimed under the lock, or left alone if somebody has it.     *)
Claim(w, r, from) ==
  /\ r \notin inflight
  /\ pc[w] = "idle"
  /\ inflight' = inflight \cup {r}
  /\ pc' = [pc EXCEPT ![w] = from]
  /\ on' = [on EXCEPT ![w] = r]

(* The goroutine an Enqueue spawned enters runOne.                          *)
RunOne(r) ==
  /\ phase \in {"serving", "stopping"}
  /\ pending[r] > 0
  /\ pending' = [pending EXCEPT ![r] = @ - 1]
  /\ \/ \E w \in Workers : Claim(w, r, "claimedEnqueue")
     \/ r \in inflight /\ UNCHANGED <<inflight, pc, on>>
  /\ UNCHANGED <<durable, phase, recovery, tick, ctx, loc, cancelling, lowDisk, used, history>>

(* The cancel function is published after the claim, under a second         *)
(* acquisition of the lock.  A tick's contexts descend from the server's.   *)
Register(w) ==
  /\ phase \in {"serving", "stopping"}
  /\ pc[w] \in {"claimedTick", "claimedEnqueue"}
  /\ ctx' = [ctx EXCEPT ![w] = IF phase = "stopping" /\ pc[w] = "claimedTick"
                               THEN "cancelled" ELSE "live"]
  /\ pc' = [pc EXCEPT ![w] = "start"]
  /\ UNCHANGED <<durable, phase, recovery, scheduler, on, loc, cancelling, lowDisk, used, history>>

Release(w) ==
  /\ phase \in {"serving", "stopping"}
  /\ pc[w] = "release"
  /\ inflight' = inflight \ {on[w]}
  /\ pc' = [pc EXCEPT ![w] = "idle"]
  /\ on' = [on EXCEPT ![w] = NoRun]
  /\ ctx' = [ctx EXCEPT ![w] = "none"]
  /\ loc' = [loc EXCEPT ![w] = NoLocals]
  /\ UNCHANGED <<durable, phase, recovery, pending, tick, cancelling, lowDisk, used, history>>

(* Mutant: a run that was being assessed is not taken for an active one.    *)
ListedStarted ==
  {r \in Runs : status[r] \notin {"absent", "assessing"} \cup Terminal \cup Halted}

(* One pass of the poll loop: the storage gate and the active runs are read *)
(* once, and each run is judged by the status it had then.                  *)
Listed == {r \in Runs : status[r] \notin {"absent"} \cup Terminal \cup Halted}

TickList ==
  /\ phase = "serving"
  /\ tick.todo = {} /\ Listed # {}
  /\ \A w \in Workers : pc[w] # "claimedTick"
  /\ tick' = [allowed |-> ~lowDisk, todo |-> Listed]
  /\ UNCHANGED <<durable, phase, recovery, inflight, pending, worker, cancelling, lowDisk, used, history>>

TickVisit(r) ==
  /\ phase \in {"serving", "stopping"}
  /\ r \in tick.todo
  /\ \A w \in Workers : pc[w] # "claimedTick"
  /\ tick' = IF tick.todo = {r} THEN NoTick ELSE [tick EXCEPT !.todo = @ \ {r}]
  /\ \/ /\ ~tick.allowed
        /\ status' = IF phase = "serving" THEN [status EXCEPT ![r] = "blocked"] ELSE status
        /\ UNCHANGED <<inflight, pc, on>>
     \/ /\ tick.allowed
        /\ \E w \in Workers : Claim(w, r, "claimedTick")
        /\ UNCHANGED status
     \/ /\ tick.allowed /\ r \in inflight
        /\ UNCHANGED <<status, inflight, pc, on>>
  /\ UNCHANGED <<stages, attempts, val, journal, torn, phase, recovery, pending, ctx, loc,
                 cancelling, lowDisk, used, history>>

-----------------------------------------------------------------------------
(* The API (api/server.go)                                                  *)

(* Enqueue: the storage gate, or a goroutine that will run the run.         *)
Enqueue(r, to) ==
  /\ status' = [status EXCEPT ![r] = IF lowDisk THEN "blocked" ELSE to]
  /\ pending' = IF lowDisk THEN pending ELSE [pending EXCEPT ![r] = @ + 1]

(* postMessage: CreateTaskRun, then Enqueue.                                *)
Submit(r) ==
  /\ phase = "serving"
  /\ status[r] = "absent"
  /\ Enqueue(r, "queued")
  /\ UNCHANGED <<stages, attempts, val, journal, torn, phase, recovery, inflight, tick, worker,
                 cancelling, lowDisk, used, history>>

(* cancelRun, first half: Scheduler.Cancel finds a context or it does not.  *)
CancelSignal(r) ==
  /\ phase = "serving"
  /\ status[r] # "absent" /\ r \notin cancelling
  /\ used.cancels < MaxCancels
  /\ used' = [used EXCEPT !.cancels = @ + 1]
  /\ ctx' = [w \in Workers |-> IF on[w] = r /\ ctx[w] = "live" THEN "cancelled" ELSE ctx[w]]
  /\ cancelling' = cancelling \cup {r}
  /\ cancelReq' = cancelReq \cup {r}
  /\ UNCHANGED <<durable, phase, recovery, scheduler, pc, on, loc, lowDisk, missed, forced>>

(* An execution of r that will still write without reading the status.      *)
Heedless(r) ==
  \E w \in Workers : /\ on[w] = r /\ ctx[w] = "live"
                     /\ pc[w] \in EnginePCs \ {"start", "read", "return"}

(* cancelRun, second half: the transaction, or the client hung up first.    *)
CancelCommit(r) ==
  /\ phase \in {"serving", "stopping"}
  /\ r \in cancelling
  /\ cancelling' = cancelling \ {r}
  /\ \/ /\ CancelRun(r)
        /\ missed' = IF status[r] \notin Terminal /\ Heedless(r) THEN missed \cup {r} ELSE missed
     \/ UNCHANGED <<status, stages, attempts, missed>>
  /\ UNCHANGED <<val, journal, torn, phase, recovery, scheduler, worker, lowDisk, used,
                 cancelReq, forced>>

(* integrateRun: whatever the run's status was.                             *)
ManualIntegrate(r) ==
  /\ phase = "serving"
  /\ status[r] # "absent"
  /\ used.integrates < MaxIntegrates
  /\ used' = [used EXCEPT !.integrates = @ + 1]
  /\ Enqueue(r, "ready_to_integrate")
  /\ forced' = forced \cup {r}
  /\ UNCHANGED <<stages, attempts, val, journal, torn, phase, recovery, inflight, tick, worker,
                 cancelling, lowDisk, cancelReq, missed>>

DiskChange ==
  /\ DiskPressure
  /\ lowDisk' = ~lowDisk
  /\ UNCHANGED <<durable, phase, recovery, scheduler, worker, cancelling, used, history>>

-----------------------------------------------------------------------------
(* The process: shutdown, crash, startup                                    *)

(* The server's context ends and Scheduler.Stop cancels what it knows of.   *)
Shutdown ==
  /\ phase = "serving"
  /\ used.shutdowns < MaxShutdowns
  /\ used' = [used EXCEPT !.shutdowns = @ + 1]
  /\ phase' = "stopping"
  /\ ctx' = [w \in Workers |-> IF ctx[w] = "live" THEN "cancelled" ELSE ctx[w]]
  /\ UNCHANGED <<durable, recovery, scheduler, pc, on, loc, cancelling, lowDisk, history>>

Exit ==
  /\ phase' = "down"
  /\ recTodo' = {} /\ recBlock' = NoRun
  /\ inflight' = {} /\ pending' = [r \in Runs |-> 0] /\ tick' = NoTick
  /\ pc' = [w \in Workers |-> "idle"] /\ on' = [w \in Workers |-> NoRun]
  /\ ctx' = [w \in Workers |-> "none"] /\ loc' = [w \in Workers |-> NoLocals]
  /\ cancelling' = {}
  /\ UNCHANGED <<status, stages, attempts, val, journal, lowDisk, history>>

(* wg.Wait: it does not know of a goroutine that has not called wg.Add.     *)
StopDone ==
  /\ phase = "stopping"
  /\ \A w \in Workers : pc[w] \in {"idle", "claimedEnqueue"}
  /\ Exit
  /\ UNCHANGED <<torn, used>>

(* A crash leaves what a write attempt did so far in the workspace.         *)
Writing(r) ==
  \E w \in Workers : /\ on[w] = r /\ pc[w] \in {"exec", "settleAttempt"}
                     /\ Kind(w) \in WriteKinds /\ attempts[r][loc[w].att].cp

Crash ==
  /\ phase # "down"
  /\ used.crashes < MaxCrashes
  /\ used' = [used EXCEPT !.crashes = @ + 1]
  /\ torn' = torn \cup {r \in Runs : Writing(r)}
  /\ Exit

-----------------------------------------------------------------------------
(* recovery.Reconcile: terminal runs, active runs, publication journals     *)

Recoverable == {r \in Runs : status[r] \notin {"absent"} \cup Terminal}

Restart ==
  /\ phase = "down"
  /\ phase' = "terminals"
  /\ recTodo' = {r \in Runs : status[r] \in Terminal /\ Running(attempts[r]) # {}}
  /\ UNCHANGED <<durable, recBlock, scheduler, worker, cancelling, lowDisk, used, history>>

NextPhase ==
  /\ recTodo = {}
  /\ phase \in {"terminals", "active", "journals"}
  /\ phase' = CASE phase = "terminals" -> "active"
                [] phase = "active"    -> "journals"
                [] phase = "journals"  -> "serving"
  /\ recTodo' = CASE phase = "terminals" -> Recoverable
                  [] phase = "active"    -> journal
                  [] phase = "journals"  -> {}
  /\ UNCHANGED <<durable, recBlock, scheduler, worker, cancelling, lowDisk, used, history>>

(* reconcileTerminalRuns.                                                   *)
RecoverTerminal(r) ==
  /\ phase = "terminals" /\ r \in recTodo
  /\ recTodo' = recTodo \ {r}
  /\ attempts' = [attempts EXCEPT ![r] =
       CloseRunning(@, IF status[r] = "cancelled" THEN "cancelled" ELSE "interrupted")]
  /\ stages' = [stages EXCEPT ![r] = CloseRunning(@, "interrupted")]
  /\ UNCHANGED <<status, val, journal, torn, phase, recBlock, scheduler, worker, cancelling,
                 lowDisk, used, history>>

(* Mutant: the attempt is marked and the workspace left as it is.           *)
RecoverAttemptMarkOnly(r) ==
  /\ phase = "active" /\ r \in recTodo /\ recBlock = NoRun
  /\ Running(attempts[r]) # {}
  /\ attempts' = [attempts EXCEPT ![r] = CloseRunning(@, "interrupted")]
  /\ UNCHANGED <<status, stages, val, journal, torn, phase, recovery, scheduler, worker,
                 cancelling, lowDisk, used, history>>

(* An interrupted attempt of an active run.  A write attempt is restored    *)
(* from its own checkpoint before it is marked; when that fails it is       *)
(* marked first, and the run only in the next step (RecoverBlock).          *)
RecoverAttempt(r) ==
  /\ phase = "active" /\ r \in recTodo /\ recBlock = NoRun
  /\ \E i \in Running(attempts[r]), restored \in BOOLEAN :
       LET write == stages[r][attempts[r][i].stage].kind \in WriteKinds IN
       /\ \A j \in Running(attempts[r]) : i <= j
       /\ restored => write /\ attempts[r][i].cp
       /\ attempts' = [attempts EXCEPT ![r][i].status = "interrupted"]
       /\ torn' = IF restored THEN torn \ {r} ELSE torn
       /\ recBlock' = IF write /\ ~restored THEN r ELSE NoRun
  /\ UNCHANGED <<status, stages, val, journal, phase, recTodo, scheduler, worker, cancelling,
                 lowDisk, used, history>>

RecoverBlock(r) ==
  /\ phase = "active" /\ recBlock = r
  /\ recBlock' = NoRun
  /\ status' = [status EXCEPT ![r] = "blocked"]
  /\ UNCHANGED <<stages, attempts, val, journal, torn, phase, recTodo, scheduler, worker,
                 cancelling, lowDisk, used, history>>

(* Mutant: recovery closes the attempts and forgets their stage.            *)
RecoverStagesNot(r) ==
  /\ phase = "active" /\ r \in recTodo /\ recBlock = NoRun
  /\ Running(attempts[r]) = {}
  /\ recTodo' = recTodo \ {r}
  /\ UNCHANGED <<durable, phase, recBlock, scheduler, worker, cancelling, lowDisk, used, history>>

RecoverStages(r) ==
  /\ phase = "active" /\ r \in recTodo /\ recBlock = NoRun
  /\ Running(attempts[r]) = {}
  /\ recTodo' = recTodo \ {r}
  /\ stages' = [stages EXCEPT ![r] = CloseRunning(@, "interrupted")]
  /\ UNCHANGED <<status, attempts, val, journal, torn, phase, recBlock, scheduler, worker,
                 cancelling, lowDisk, used, history>>

(* reconcilePublication: a moved source blocks even a finished run, and     *)
(* keeps its journal.                                                       *)
RecoverJournal(r) ==
  /\ phase = "journals" /\ r \in recTodo
  /\ recTodo' = recTodo \ {r}
  /\ \/ /\ SourceMoves
        /\ status' = [status EXCEPT ![r] = "integration_blocked"]
        /\ UNCHANGED journal
     \/ /\ status[r] \in Terminal
        /\ journal' = journal \ {r}
        /\ UNCHANGED status
     \/ /\ status[r] \notin Terminal
        /\ status' = [status EXCEPT ![r] = "complete"]
        /\ journal' = journal \ {r}
     \/ /\ status[r] \notin Terminal
        /\ status' = [status EXCEPT ![r] = "integration_blocked"]
        /\ UNCHANGED journal
  /\ UNCHANGED <<stages, attempts, val, torn, phase, recBlock, scheduler, worker, cancelling,
                 lowDisk, used, history>>

-----------------------------------------------------------------------------
Init ==
  /\ status = [r \in Runs |-> "absent"]
  /\ stages = [r \in Runs |-> <<>>] /\ attempts = [r \in Runs |-> <<>>]
  /\ val = [r \in Runs |-> "none"]
  /\ journal = {} /\ torn = {}
  /\ phase = "serving" /\ recTodo = {} /\ recBlock = NoRun
  /\ inflight = {} /\ pending = [r \in Runs |-> 0] /\ tick = NoTick
  /\ pc = [w \in Workers |-> "idle"] /\ on = [w \in Workers |-> NoRun]
  /\ ctx = [w \in Workers |-> "none"] /\ loc = [w \in Workers |-> NoLocals]
  /\ cancelling = {} /\ lowDisk = FALSE
  /\ used = [crashes |-> 0, shutdowns |-> 0, cancels |-> 0, integrates |-> 0]
  /\ cancelReq = {} /\ missed = {} /\ forced = {}

EngineStep(w) ==
  \/ Start(w) \/ Assess(w) \/ Read(w)
  \/ StopBlocked(w) \/ BeginStage(w) \/ Route(w)
  \/ NextCandidate(w) \/ LadderExhausted(w) \/ Correct(w) \/ Checkpoint(w)
  \/ Exec(w) \/ SettleAttempt(w) \/ SettleStage(w) \/ SettleRun(w)
  \/ Integrate(w) \/ Publish(w) \/ PublishEnd(w)
  \/ ObserveCancel(w) \/ Return(w)

WorkerStep(w) == EngineStep(w) \/ Register(w) \/ Release(w)

ApiStep(r) == Submit(r) \/ CancelSignal(r) \/ CancelCommit(r) \/ ManualIntegrate(r)

RecoveryStep(r) ==
  RecoverTerminal(r) \/ RecoverAttempt(r) \/ RecoverBlock(r) \/ RecoverStages(r) \/ RecoverJournal(r)

Next ==
  \/ \E w \in Workers : WorkerStep(w)
  \/ \E r \in Runs : RunOne(r) \/ TickVisit(r) \/ ApiStep(r) \/ RecoveryStep(r)
  \/ TickList \/ DiskChange
  \/ Shutdown \/ StopDone \/ Crash \/ Restart \/ NextPhase

Spec == Init /\ [][Next]_vars

(* Goroutines run, harness sessions end (each has a deadline), the poll     *)
(* loop ticks, and a server that is down is started again.                  *)
Fairness ==
  /\ \A w \in Workers : WF_vars(WorkerStep(w))
  /\ \A r \in Runs : /\ WF_vars(RunOne(r)) /\ WF_vars(TickVisit(r))
                     /\ WF_vars(CancelCommit(r)) /\ WF_vars(RecoveryStep(r))
  /\ WF_vars(TickList) /\ WF_vars(StopDone) /\ WF_vars(Restart) /\ WF_vars(NextPhase)

FairSpec == Spec /\ Fairness

-----------------------------------------------------------------------------
(* Properties                                                               *)

DurableTypeOK ==
  /\ status \in [Runs -> RunStatuses]
  /\ stages \in [Runs -> Seq(Stage)] /\ attempts \in [Runs -> Seq(Attempt)]
  /\ val \in [Runs -> {"none", "pass", "fail"}]
  /\ journal \subseteq Runs /\ torn \subseteq Runs

ServerTypeOK ==
  /\ phase \in {"serving", "stopping", "down", "terminals", "active", "journals"}
  /\ recTodo \subseteq Runs /\ recBlock \in Runs \cup {NoRun}
  /\ inflight \subseteq Runs /\ pending \in [Runs -> Nat]
  /\ tick \in [allowed : BOOLEAN, todo : SUBSET Runs]
  /\ cancelling \subseteq Runs

WorkerTypeOK ==
  /\ pc \in [Workers -> PCs] /\ on \in [Workers -> Runs \cup {NoRun}]
  /\ ctx \in [Workers -> {"none", "live", "cancelled"}] /\ loc \in [Workers -> Locals]

OutsideTypeOK ==
  /\ lowDisk \in BOOLEAN
  /\ used \in [crashes : Nat, shutdowns : Nat, cancels : Nat, integrates : Nat]
  /\ cancelReq \subseteq Runs /\ missed \subseteq Runs /\ forced \subseteq Runs

(* Every variable has its type: statuses and rows are ones the schema and   *)
(* domain/status.go know, and a worker's locals are well formed.            *)
TypeOK == DurableTypeOK /\ ServerTypeOK /\ WorkerTypeOK /\ OutsideTypeOK

(* A run is executed by at most one goroutine, and inflight is exactly the  *)
(* set of runs being executed, although ticks, enqueues and operators       *)
(* start runs independently (Scheduler.runOne).                             *)
OneExecution ==
  /\ \A w \in Workers : (on[w] = NoRun) <=> (pc[w] = "idle")
  /\ \A v, w \in Workers : on[v] = on[w] /\ on[v] # NoRun => v = w
  /\ inflight = {on[w] : w \in Workers} \ {NoRun}

(* While the server serves, a row is "running" only if somebody is running  *)
(* it: neither an early return of runStage, a cancellation nor a restart    *)
(* leaves a stage or an attempt open for ever.  The exception is a run      *)
(* cancelled behind the back of a live execution.                           *)
NoOrphanedWork ==
  phase = "serving" =>
    \A r \in Runs \ (inflight \cup missed) :
      Running(stages[r]) = {} /\ Running(attempts[r]) = {}

(* Only the last stage and the last attempt can be open, and an open        *)
(* attempt belongs to the open stage.                                       *)
OneOpenAttempt ==
  \A r \in Runs :
    /\ Running(stages[r]) \subseteq {Len(stages[r])}
    /\ Running(attempts[r]) \subseteq {Len(attempts[r])}
    /\ r \notin missed =>
         \A i \in Running(attempts[r]) : attempts[r][i].stage \in Running(stages[r])

(* The budgets hold over the whole life of a run: crashes, restarts and     *)
(* resumed executions never start them anew, because they are counted from  *)
(* the durable rows (budget.go).                                            *)
BudgetRespected ==
  \A r \in Runs :
    /\ Len(stages[r]) <= MaxStages
    /\ Cardinality(OfKind(r, "repair")) <= MaxRepair
    /\ Cardinality(OfKind(r, "replan")) <= MaxReplan
    /\ \A i \in 1..Len(stages[r]) :
         Cardinality({j \in DOMAIN attempts[r] : attempts[r][j].stage = i}) <= MaxStageAttempts

Succeeded(r, kinds) ==
  {i \in DOMAIN stages[r] : stages[r][i].kind \in kinds /\ stages[r][i].status = "succeeded"}

(* "Model prose cannot override hard gates" (completion.go:10): a run that  *)
(* is being integrated, or complete, without an operator's intervention has *)
(* validated its workspace after the last write, with no blocking failure,  *)
(* and was reviewed after that.                                             *)
HardGate ==
  \A r \in Runs \ (forced \cup missed) :
    status[r] \in {"ready_to_integrate", "integrating", "complete"} =>
      /\ val[r] = "pass"
      /\ \E v \in Succeeded(r, {"validate"}), s \in Succeeded(r, {"review"}) :
           /\ v < s
           /\ \A i \in OfKind(r, "execute") \cup OfKind(r, "repair") : i < v

(* "Stages and attempts are append-only.  Recovery or retry creates a new   *)
(* attempt rather than mutating historical outcome" (ARCHITECTURE.md:195).  *)
(* The exception is again a run cancelled behind a live execution.          *)
HistoryAppendOnly ==
  [][\A r \in Runs \ missed' :
       /\ \A i \in DOMAIN attempts[r] :
            /\ i \in DOMAIN attempts'[r]
            /\ i \notin Running(attempts[r]) => attempts'[r][i] = attempts[r][i]
       /\ \A i \in DOMAIN stages[r] :
            /\ i \in DOMAIN stages'[r] /\ stages'[r][i].kind = stages[r][i].kind
            /\ i \notin Running(stages[r]) => stages'[r][i] = stages[r][i]]_vars

(* A finished run stays finished.  Besides a run cancelled behind a live    *)
(* execution, only three writes can reopen one: an operator's integrate,    *)
(* the storage gate acting on a stale list, and a journal found under a     *)
(* project that has moved.                                                  *)
TerminalStays ==
  [][\A r \in Runs \ missed' :
       status[r] \in Terminal /\ status'[r] # status[r] =>
         \/ used'.integrates > used.integrates
         \/ status'[r] = "blocked" /\ r \in tick.todo /\ ~tick.allowed
         \/ status'[r] = "integration_blocked" /\ phase = "journals" /\ SourceMoves]_vars

(* A stage never starts, and nothing is published, on a workspace that      *)
(* still holds the partial writes of an interrupted attempt                 *)
(* (recovery.go:181-185, ARCHITECTURE.md section 29).                       *)
NoTornResume ==
  \A w \in Workers :
    pc[w] \in {"attempt", "checkpoint", "exec", "publish"} =>
      on[w] \notin torn \ forced

(* Scheduling, recovery and the budgets bring every run to rest: it         *)
(* finishes, or it waits for a person.                                      *)
EventuallyParked ==
  \A r \in Runs : status[r] # "absent" ~> status[r] \in Terminal \cup Halted

(* "A canceled run therefore always converges to a terminal CANCELLED       *)
(* state" (ARCHITECTURE.md:596): once the context of an execution that is   *)
(* still inside ProcessRun is cancelled its run becomes terminal, unless    *)
(* the server crashes first.                                                *)
CancelConverges ==
  \A w \in Workers, r \in Runs :
    on[w] = r /\ ctx[w] = "cancelled" /\ pc[w] \in EnginePCs
      ~> status[r] \in Terminal \/ phase = "down"

(* Cancelled is final, for a client that was told so.                       *)
CancelledIsFinal ==
  [][\A r \in Runs \ forced' : status[r] = "cancelled" => status'[r] = "cancelled"]_vars

(* A run becomes cancelled because a client cancelled it.                   *)
OnlyClientsCancel == \A r \in Runs : status[r] = "cancelled" => r \in cancelReq

=============================================================================
