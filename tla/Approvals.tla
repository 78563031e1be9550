------------------------------ MODULE Approvals ------------------------------
(***************************************************************************)
(* Permission requests of a harness: the hook that turns one into a        *)
(* durable approval and polls it (harness/exec.go, permissionHook), the    *)
(* clients that resolve it (api/server.go, storage/misc.go), and the ways  *)
(* an approval is invalidated: the hook's deadline, the end of its stage,  *)
(* the cancellation of its run (storage/cancel.go) and the next start      *)
(* after a crash (recovery/recovery.go).  One run, whose harness asks      *)
(* several times, maybe at once.                                           *)
(***************************************************************************)
EXTENDS Naturals, FiniteSets

CONSTANTS
  Requests,        \* permission requests a harness may make
  MaxStoreErrors,  \* bound: writes of an approval that fail
  MaxServerDeaths  \* bound: crashes of the server

ASSUME ApBoundsAssumption == MaxStoreErrors \in Nat /\ MaxServerDeaths \in Nat

VARIABLES
  row,        \* per request: the status of its approvals row
  hook,       \* per request: what its hook is doing, or what it answered
  performed,  \* requests whose protected operation the harness executed
  runStatus,  \* runs.status
  stage,      \* the stage's context: "live", "done", or "none" without a server
  cancelling, \* a client asked for cancellation; CancelRun has not committed
  apUsed      \* how much of each bound is used

apVars == <<row, hook, performed, runStatus, stage, cancelling, apUsed>>

Answers     == {"allowed", "denied"}
Rows        == {"none", "pending", "cancelled"} \cup Answers
RunEnded    == {"complete", "failed", "cancelled"}
RunStatuses == {"executing", "reviewing", "blocked"} \cup RunEnded

ApSpend(what, max) == apUsed[what] < max /\ apUsed' = [apUsed EXCEPT ![what] = @ + 1]

Pending == {q \in Requests : row[q] = "pending"}

-----------------------------------------------------------------------------
(* The store. *)

\* Mutant: the UPDATE does not ask for a pending row.
ResolveAnyRow(q, to) ==
  row' = [row EXCEPT ![q] = IF @ = "none" THEN @ ELSE to]

\* ResolveApproval: only a pending row changes; the caller is told when it
\* did not (ErrConflict).
ResolveApproval(q, to) ==
  row' = [row EXCEPT ![q] = IF @ = "pending" THEN to ELSE @]

\* Mutant: the status and the reason are swapped.
CancelSwapped == row' = [q \in Requests |-> IF q \in Pending THEN "cancellation" ELSE row[q]]

\* What CancelRun and CancelPendingApprovalsForRun do to the approvals.
CancelPendingApprovals == row' = [q \in Requests |-> IF q \in Pending THEN "cancelled" ELSE row[q]]

-----------------------------------------------------------------------------
(* The hook and its harness. *)

\* InsertApproval commits only while the context lives.
RequestPermission(q) ==
  /\ stage = "live" /\ hook[q] = "idle"
  /\ row' = [row EXCEPT ![q] = "pending"]
  /\ hook' = [hook EXCEPT ![q] = "waiting"]
  /\ UNCHANGED <<performed, runStatus, stage, cancelling, apUsed>>

\* Mutant: whatever is not a denial lets the operation proceed.
PollUnlessDenied(q) ==
  /\ hook[q] = "waiting" /\ row[q] # "pending"
  /\ hook' = [hook EXCEPT ![q] = IF row[q] = "denied" THEN "refused" ELSE "selected"]
  /\ UNCHANGED <<row, performed, runStatus, stage, cancelling, apUsed>>

\* The ticker: an answer ends the wait, a cancelled row does not.
Poll(q) ==
  /\ hook[q] = "waiting" /\ row[q] \in Answers
  /\ hook' = [hook EXCEPT ![q] = IF row[q] = "allowed" THEN "selected" ELSE "refused"]
  /\ UNCHANGED <<row, performed, runStatus, stage, cancelling, apUsed>>

\* Mutant: the hook returns without closing its approval.
GiveUpQuietly(q) ==
  /\ hook[q] = "waiting"
  /\ hook' = [hook EXCEPT ![q] = "refused"]
  /\ UNCHANGED <<row, performed, runStatus, stage, cancelling, apUsed>>

\* The context ended or thirty minutes passed: the approval is closed, an
\* error of the store being ignored, and the harness is refused.  Go picks
\* any ready case of the select, so this may win over an answer.
GiveUp(q) ==
  /\ hook[q] = "waiting"
  /\ hook' = [hook EXCEPT ![q] = "refused"]
  /\ \/ ResolveApproval(q, "cancelled") /\ UNCHANGED apUsed
     \/ ApSpend("errors", MaxStoreErrors) /\ UNCHANGED row
  /\ UNCHANGED <<performed, runStatus, stage, cancelling>>

\* The harness, told that its option is selected, does what it asked for;
\* it may outlive its context for a moment.
Perform(q) ==
  /\ hook[q] = "selected"
  /\ hook' = [hook EXCEPT ![q] = "used"]
  /\ performed' = performed \cup {q}
  /\ UNCHANGED <<row, runStatus, stage, cancelling, apUsed>>

-----------------------------------------------------------------------------
(* Clients. *)

\* A client answers an approval it has on its screen, however old.
ClientResolves(q) ==
  /\ stage # "none" /\ row[q] # "none"
  /\ \E to \in Answers : ResolveApproval(q, to)
  /\ UNCHANGED <<hook, performed, runStatus, stage, cancelling, apUsed>>

\* cancelRun: the stage's context first ...
AskCancel ==
  /\ stage # "none" /\ ~cancelling /\ runStatus \notin RunEnded
  /\ cancelling' = TRUE
  /\ stage' = "done"
  /\ UNCHANGED <<row, hook, performed, runStatus, apUsed>>

\* ... then CancelRun, in one transaction.
CancelRunTx ==
  /\ cancelling /\ stage # "none"
  /\ cancelling' = FALSE
  /\ IF runStatus \in RunEnded THEN UNCHANGED <<row, runStatus>>
     ELSE CancelPendingApprovals /\ runStatus' = "cancelled"
  /\ UNCHANGED <<hook, performed, stage, apUsed>>

-----------------------------------------------------------------------------
(* The engine. *)

\* Execute returns: the driver is closed, which ends the hooks' context; the
\* run goes on or fails.
StageEnds ==
  /\ stage = "live" /\ runStatus = "executing"
  /\ stage' = "done"
  /\ runStatus' \in {"reviewing", "failed"}
  /\ UNCHANGED <<row, hook, performed, cancelling, apUsed>>

\* CompletionPolicy blocks a run that has pending approvals.
Review ==
  /\ stage = "done" /\ runStatus = "reviewing"
  /\ runStatus' = IF Pending = {} THEN "complete" ELSE "blocked"
  /\ UNCHANGED <<row, hook, performed, stage, cancelling, apUsed>>

-----------------------------------------------------------------------------
(* Crash and recovery. *)

ServerDies ==
  /\ stage # "none" /\ ApSpend("deaths", MaxServerDeaths)
  /\ stage' = "none" /\ cancelling' = FALSE
  /\ hook' = [q \in Requests |-> IF hook[q] \in {"waiting", "selected"} THEN "lost" ELSE hook[q]]
  /\ UNCHANGED <<row, performed, runStatus>>

\* Mutant: recovery leaves approvals alone.
ReconcileRunOnly ==
  /\ stage = "none"
  /\ IF runStatus \in {"executing", "reviewing"}
     THEN runStatus' = "executing" /\ stage' = "live"
     ELSE UNCHANGED runStatus /\ stage' = "done"
  /\ UNCHANGED <<row, hook, performed, cancelling, apUsed>>

\* Reconcile: the approvals of active runs are invalidated, those of terminal
\* runs are not looked at.  A run that was at work gets a new attempt.
Reconcile ==
  /\ stage = "none"
  /\ IF runStatus \in RunEnded THEN UNCHANGED row ELSE CancelPendingApprovals
  /\ IF runStatus \in {"executing", "reviewing"}
     THEN runStatus' = "executing" /\ stage' = "live"
     ELSE UNCHANGED runStatus /\ stage' = "done"
  /\ UNCHANGED <<hook, performed, cancelling, apUsed>>

-----------------------------------------------------------------------------
ApInit ==
  /\ row = [q \in Requests |-> "none"] /\ hook = [q \in Requests |-> "idle"]
  /\ performed = {} /\ runStatus = "executing" /\ stage = "live" /\ cancelling = FALSE
  /\ apUsed = [errors |-> 0, deaths |-> 0]

ApNext ==
  \/ \E q \in Requests : RequestPermission(q) \/ Poll(q) \/ GiveUp(q) \/ Perform(q) \/ ClientResolves(q)
  \/ AskCancel \/ CancelRunTx \/ StageEnds \/ Review
  \/ ServerDies \/ Reconcile

\* The deadline and the context see to it that a hook gives up, and a server
\* that died is started again.
ApFairness ==
  /\ \A q \in Requests : WF_apVars(GiveUp(q))
  /\ WF_apVars(Reconcile)

ApSpec == ApInit /\ [][ApNext]_apVars /\ ApFairness

-----------------------------------------------------------------------------
(* Properties. *)

\* Every variable has its type.
ApTypeOK ==
  /\ row \in [Requests -> Rows]
  /\ hook \in [Requests -> {"idle", "waiting", "selected", "refused", "used", "lost"}]
  /\ performed \subseteq Requests /\ runStatus \in RunStatuses
  /\ stage \in {"live", "done", "none"} /\ cancelling \in BOOLEAN
  /\ apUsed \in [errors : 0..MaxStoreErrors, deaths : 0..MaxServerDeaths]

\* A protected operation executes only when a client allowed it: neither a
\* denial, nor a cancellation, nor a deadline, nor a restart lets it through
\* (DESIGN.md:204).
OnlyAllowedExecutes == \A q \in performed : row[q] = "allowed"

\* "Only the first resolution of an approval takes effect" (DESIGN.md:204):
\* clients, hooks, cancellation and recovery race, and none undoes another.
FirstResolutionStands ==
  [][\A q \in Requests : row[q] \notin {"none", "pending"} => row'[q] = row[q]]_apVars

\* "Cancelling a run, or losing the server while an approval is pending,
\* invalidates the approval" (DESIGN.md:204): every approval is closed in the
\* end, unless the store failed, or the run had failed when the server died.
EveryApprovalCloses ==
  \A q \in Requests :
    row[q] = "pending" ~> row[q] # "pending" \/ apUsed.errors > 0 \/ runStatus = "failed"

\* "a terminal run's leftover pending approvals are invalidated" at startup
\* (ARCHITECTURE.md:581).
TerminalLeavesNoneOpen ==
  stage # "none" /\ runStatus \in RunEnded =>
    \A q \in Pending : hook[q] = "waiting"
=============================================================================
