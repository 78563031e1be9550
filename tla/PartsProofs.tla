---------------------------- MODULE PartsProofs ----------------------------
(***************************************************************************)
(* Approvals and the reclamation of checkpoints, for any number of         *)
(* requests, runs and attempts, crashes and store errors.                  *)
(***************************************************************************)
EXTENDS Approvals, Reclamation, TLAPS

-----------------------------------------------------------------------------
(* Approvals.  A protected operation executes only when a client allowed   *)
(* it, and only the first resolution of an approval takes effect.  Both    *)
(* rest on one strengthening of the type invariant: a request has a row    *)
(* from the moment its hook waits, and a hook lets its operation proceed   *)
(* only with a row that says allowed -- which nothing changes any more.    *)

RowFromRequest == \A q \in Requests : hook[q] = "idle" <=> row[q] = "none"

ProceedsAllowed == \A q \in Requests : hook[q] \in {"selected", "used"} => row[q] = "allowed"

PerformedUsed == \A q \in performed : hook[q] = "used"

ApInv == ApTypeOK /\ RowFromRequest /\ ProceedsAllowed /\ PerformedUsed

\* The operators that resolve rows leave resolved rows alone.
LEMMA ResolveApprovalSafe ==
  ASSUME ApTypeOK, NEW q \in Requests, NEW to \in Rows \ {"none", "pending"},
         ResolveApproval(q, to)
  PROVE  /\ row' \in [Requests -> Rows]
         /\ \A p \in Requests : row[p] # "pending" => row'[p] = row[p]
         /\ \A p \in Requests : row[p] = "pending" => row'[p] \notin {"none"}
  BY DEF ApTypeOK, ResolveApproval

LEMMA CancelPendingSafe ==
  ASSUME ApTypeOK, CancelPendingApprovals
  PROVE  /\ row' \in [Requests -> Rows]
         /\ \A p \in Requests : row[p] # "pending" => row'[p] = row[p]
         /\ \A p \in Requests : row[p] = "pending" => row'[p] \notin {"none"}
  BY DEF ApTypeOK, CancelPendingApprovals, Pending, Rows

LEMMA ApSpendTyped ==
  ASSUME ApTypeOK,
         \/ ApSpend("errors", MaxStoreErrors)
         \/ ApSpend("deaths", MaxServerDeaths)
  PROVE  apUsed' \in [errors : 0..MaxStoreErrors, deaths : 0..MaxServerDeaths]
  BY ApBoundsAssumption DEF ApTypeOK, ApSpend

\* What every step does to the rows: one that is resolved stays, one that is
\* pending does not go back, and a hook that is not idle keeps its row.
RowsStep ==
  /\ row' \in [Requests -> Rows]
  /\ \A p \in Requests : row[p] \notin {"none", "pending"} => row'[p] = row[p]
  /\ \A p \in Requests : row[p] # "none" => row'[p] # "none"

LEMMA ApStepInv ==
  ASSUME ApInv, [ApNext]_apVars
  PROVE  ApInv' /\ RowsStep
<1> USE DEF ApInv, RowsStep
<1>1. ASSUME NEW q \in Requests, RequestPermission(q) PROVE ApInv' /\ RowsStep
  BY <1>1 DEF RequestPermission, ApTypeOK, RowFromRequest, ProceedsAllowed, PerformedUsed, Rows
<1>2. ASSUME NEW q \in Requests, Poll(q) PROVE ApInv' /\ RowsStep
  BY <1>2 DEF Poll, ApTypeOK, RowFromRequest, ProceedsAllowed, PerformedUsed, Answers
<1>3. ASSUME NEW q \in Requests, GiveUp(q) PROVE ApInv' /\ RowsStep
  <2>1. hook[q] = "waiting" /\ hook' = [hook EXCEPT ![q] = "refused"]
        /\ UNCHANGED <<performed, runStatus, stage, cancelling>>
    BY <1>3 DEF GiveUp
  <2>2. CASE ResolveApproval(q, "cancelled") /\ UNCHANGED apUsed
    <3>1. "cancelled" \in Rows \ {"none", "pending"}
      BY DEF Rows
    <3>2. /\ row' \in [Requests -> Rows]
          /\ \A p \in Requests : row[p] # "pending" => row'[p] = row[p]
          /\ \A p \in Requests : row[p] = "pending" => row'[p] \notin {"none"}
      BY <2>2, <3>1, ResolveApprovalSafe
    <3> QED
      BY <2>1, <2>2, <3>2 DEF ApTypeOK, RowFromRequest, ProceedsAllowed, PerformedUsed
  <2>3. CASE ApSpend("errors", MaxStoreErrors) /\ UNCHANGED row
    BY <2>1, <2>3, ApSpendTyped DEF ApTypeOK, RowFromRequest, ProceedsAllowed, PerformedUsed
  <2> QED
    BY <1>3, <2>2, <2>3 DEF GiveUp
<1>4. ASSUME NEW q \in Requests, Perform(q) PROVE ApInv' /\ RowsStep
  BY <1>4 DEF Perform, ApTypeOK, RowFromRequest, ProceedsAllowed, PerformedUsed
<1>5. ASSUME NEW q \in Requests, ClientResolves(q) PROVE ApInv' /\ RowsStep
  <2>1. PICK to \in Answers : ResolveApproval(q, to)
    BY <1>5 DEF ClientResolves
  <2>2. to \in Rows \ {"none", "pending"}
    BY DEF Rows, Answers
  <2>3. /\ row' \in [Requests -> Rows]
        /\ \A p \in Requests : row[p] # "pending" => row'[p] = row[p]
        /\ \A p \in Requests : row[p] = "pending" => row'[p] \notin {"none"}
    BY <2>1, <2>2, ResolveApprovalSafe
  <2> QED
    BY <1>5, <2>3 DEF ClientResolves, ApTypeOK, RowFromRequest, ProceedsAllowed, PerformedUsed
<1>6. CASE AskCancel
  BY <1>6 DEF AskCancel, ApTypeOK, RowFromRequest, ProceedsAllowed, PerformedUsed
<1>7. CASE CancelRunTx
  <2>1. CASE runStatus \in RunEnded
    BY <1>7, <2>1 DEF CancelRunTx, ApTypeOK, RowFromRequest, ProceedsAllowed, PerformedUsed
  <2>2. CASE runStatus \notin RunEnded
    <3>1. CancelPendingApprovals /\ runStatus' = "cancelled"
      BY <1>7, <2>2 DEF CancelRunTx
    <3> QED
      BY <1>7, <3>1, CancelPendingSafe
      DEF CancelRunTx, ApTypeOK, RowFromRequest, ProceedsAllowed, PerformedUsed, RunStatuses, RunEnded
  <2> QED
    BY <2>1, <2>2
<1>8. CASE StageEnds
  BY <1>8 DEF StageEnds, ApTypeOK, RowFromRequest, ProceedsAllowed, PerformedUsed, RunStatuses, RunEnded
<1>9. CASE Review
  BY <1>9 DEF Review, ApTypeOK, RowFromRequest, ProceedsAllowed, PerformedUsed, RunStatuses, RunEnded
<1>10. CASE ServerDies
  BY <1>10, ApSpendTyped
  DEF ServerDies, ApTypeOK, RowFromRequest, ProceedsAllowed, PerformedUsed
<1>11. CASE Reconcile
  <2>1. UNCHANGED row \/ CancelPendingApprovals
    BY <1>11 DEF Reconcile
  <2>2. /\ row' \in [Requests -> Rows]
        /\ \A p \in Requests : row[p] # "pending" => row'[p] = row[p]
        /\ \A p \in Requests : row[p] = "pending" => row'[p] \notin {"none"}
    BY <2>1, CancelPendingSafe DEF ApTypeOK
  <2>3. runStatus' \in RunStatuses /\ stage' \in {"live", "done", "none"}
    BY <1>11 DEF Reconcile, ApTypeOK, RunStatuses
  <2> QED
    BY <1>11, <2>2, <2>3 DEF Reconcile, ApTypeOK, RowFromRequest, ProceedsAllowed, PerformedUsed
<1>12. CASE UNCHANGED apVars
  BY <1>12 DEF apVars, ApTypeOK, RowFromRequest, ProceedsAllowed, PerformedUsed
<1> QED
  BY <1>1, <1>2, <1>3, <1>4, <1>5, <1>6, <1>7, <1>8, <1>9, <1>10, <1>11, <1>12 DEF ApNext

LEMMA ApInitInv == ApInit => ApInv
<1> SUFFICES ASSUME ApInit PROVE ApInv
  OBVIOUS
<1>1. apUsed \in [errors : 0..MaxStoreErrors, deaths : 0..MaxServerDeaths]
  BY ApBoundsAssumption DEF ApInit
<1>2. ApTypeOK
  BY <1>1 DEF ApInit, ApTypeOK, Rows, RunStatuses
<1>3. RowFromRequest /\ ProceedsAllowed /\ PerformedUsed
  BY DEF ApInit, RowFromRequest, ProceedsAllowed, PerformedUsed
<1> QED
  BY <1>2, <1>3 DEF ApInv

LEMMA ApInvHolds == ApSpec => []ApInv
<1>1. ApInv /\ [ApNext]_apVars => ApInv'
  BY ApStepInv
<1> QED
  BY ApInitInv, <1>1, PTL DEF ApSpec

\* Every variable has its type.
THEOREM ApTypeCorrect == ApSpec => []ApTypeOK
<1>1. ApInv => ApTypeOK
  BY DEF ApInv
<1> QED
  BY ApInvHolds, <1>1, PTL

\* A harness never executes a protected operation that a client did not
\* allow, whatever deadlines, cancellations, store errors and crashes race.
THEOREM ProtectedOperations == ApSpec => []OnlyAllowedExecutes
<1>1. ApInv => OnlyAllowedExecutes
  BY DEF ApInv, ApTypeOK, ProceedsAllowed, PerformedUsed, OnlyAllowedExecutes
<1> QED
  BY ApInvHolds, <1>1, PTL

\* A resolved approval never changes again.
THEOREM FirstResolutionWins == ApSpec => FirstResolutionStands
<1>1. ApInv /\ [ApNext]_apVars =>
        [\A q \in Requests : row[q] \notin {"none", "pending"} => row'[q] = row[q]]_apVars
  BY ApStepInv DEF RowsStep
<1> QED
  BY ApInvHolds, <1>1, PTL DEF ApSpec, FirstResolutionStands

-----------------------------------------------------------------------------
(* Reclamation.  A row that says its material is reclaimed is right, and   *)
(* -- as long as every run row can be read, MaxUnread = 0 -- the material  *)
(* of an unfinished run is never taken away and recovery blocks a run only *)
(* over an attempt whose checkpoint was never recorded.  The strengthening *)
(* is that whatever a collection lists, removes or marks belongs to a run  *)
(* that is over, which it stays.                                           *)

CollectsOver ==
  /\ \A c \in listed : phase[Owner(c)] = "over"
  /\ removing # NoCheckpoint => phase[Owner(removing)] = "over"
  /\ \A c \in Checkpoints : checkpoint[c] = "reclaimed" => phase[Owner(c)] = "over"

RcInv == RcTypeOK /\ CollectsOver /\ ReclaimedIsGone

LEMMA OwnerTyped == \A c \in Checkpoints : Owner(c) \in OwnedRuns
  BY DEF Checkpoints, Owner

LEMMA NoCheckpointApart == NoCheckpoint \notin Checkpoints
  BY RcBoundsAssumption DEF Checkpoints

LEMMA RcSpendTyped ==
  ASSUME RcTypeOK,
         \/ RcSpend("unread", MaxUnread)
         \/ RcSpend("outages", MaxOutages)
  PROVE  rcUsed' \in [unread : 0..MaxUnread, outages : 0..MaxOutages]
  BY RcBoundsAssumption DEF RcTypeOK, RcSpend

LEMMA RcInitInv == RcInit => RcInv
<1> SUFFICES ASSUME RcInit PROVE RcInv
  OBVIOUS
<1>1. rcUsed \in [unread : 0..MaxUnread, outages : 0..MaxOutages]
  BY RcBoundsAssumption DEF RcInit
<1>2. RcTypeOK
  BY <1>1 DEF RcInit, RcTypeOK
<1>3. CollectsOver /\ ReclaimedIsGone
  BY DEF RcInit, CollectsOver, ReclaimedIsGone
<1> QED
  BY <1>2, <1>3 DEF RcInv

\* What every step does to phases: a run that is over stays over.
OverStays == \A r \in OwnedRuns : phase[r] = "over" => phase'[r] = "over"

LEMMA RcStepInv ==
  ASSUME RcInv, [RcNext]_rcVars
  PROVE  RcInv' /\ OverStays
<1> USE OwnerTyped, NoCheckpointApart DEF RcInv, OverStays
<1>1. ASSUME NEW c \in Checkpoints, BeginAttempt(c) PROVE RcInv' /\ OverStays
  BY <1>1 DEF BeginAttempt, RcTypeOK, CollectsOver, ReclaimedIsGone
<1>2. ASSUME NEW c \in Checkpoints, WriteTree(c) PROVE RcInv' /\ OverStays
  BY <1>2 DEF WriteTree, RcTypeOK, CollectsOver, ReclaimedIsGone
<1>3. ASSUME NEW c \in Checkpoints, InsertCheckpoint(c) PROVE RcInv' /\ OverStays
  BY <1>3 DEF InsertCheckpoint, RcTypeOK, CollectsOver, ReclaimedIsGone
<1>4. ASSUME NEW c \in Checkpoints, CloseAttempt(c) PROVE RcInv' /\ OverStays
  BY <1>4 DEF CloseAttempt, RcTypeOK, CollectsOver, ReclaimedIsGone
<1>5. ASSUME NEW c \in Checkpoints, Reclaim(c) PROVE RcInv' /\ OverStays
  BY <1>5 DEF Reclaim, DropTree, RcTypeOK, CollectsOver, ReclaimedIsGone
<1>6. ASSUME NEW r \in OwnedRuns, EndRun(r) PROVE RcInv' /\ OverStays
  <2>1. RcTypeOK'
    BY <1>6 DEF EndRun, RcTypeOK
  <2>2. OverStays /\ \A c \in Checkpoints : phase[Owner(c)] = "over" => phase'[Owner(c)] = "over"
    BY <1>6 DEF EndRun, RcTypeOK
  <2>3. CollectsOver' /\ ReclaimedIsGone'
    BY <1>6, <2>2 DEF EndRun, RcTypeOK, CollectsOver, ReclaimedIsGone
  <2> QED
    BY <2>1, <2>2, <2>3
<1>7. ASSUME NEW r \in OwnedRuns, PutLog(r) \/ RecordEvidence(r) \/ GrowOld(r)
      PROVE  RcInv' /\ OverStays
  BY <1>7 DEF PutLog, RecordEvidence, GrowOld, RcTypeOK, CollectsOver, ReclaimedIsGone
<1>8. ASSUME NEW r \in OwnedRuns, CleanupWorkspace(r) PROVE RcInv' /\ OverStays
  BY <1>8, RcSpendTyped DEF CleanupWorkspace, RcTypeOK, CollectsOver, ReclaimedIsGone
<1>9. CASE ListReclaimable
  BY <1>9 DEF ListReclaimable, ReclaimableCheckpoints, RcTypeOK, CollectsOver, ReclaimedIsGone
<1>10. CASE MarkReclaimed
  BY <1>10 DEF MarkReclaimed, RcTypeOK, CollectsOver, ReclaimedIsGone
<1>11. CASE GCObjects
  BY <1>11 DEF GCObjects, RcTypeOK, CollectsOver, ReclaimedIsGone
<1>12. CASE Outage
  BY <1>12, RcSpendTyped DEF Outage, RcTypeOK, CollectsOver, ReclaimedIsGone
<1>13. CASE Recover
  <2>1. phase' \in [OwnedRuns -> {"active", "stuck", "over"}] /\ OverStays
    BY <1>13 DEF Recover, RcTypeOK
  <2>2. RcTypeOK'
    BY <1>13, <2>1 DEF Recover, RcTypeOK, Debris
  <2>3. CollectsOver'
    BY <1>13, <2>1 DEF Recover, RcTypeOK, CollectsOver
  <2>4. ReclaimedIsGone'
    BY <1>13 DEF Recover, ReclaimedIsGone
  <2> QED
    BY <2>1, <2>2, <2>3, <2>4
<1>14. CASE UNCHANGED rcVars
  BY <1>14 DEF rcVars, RcTypeOK, CollectsOver, ReclaimedIsGone
<1> QED
  BY <1>1, <1>2, <1>3, <1>4, <1>5, <1>6, <1>7, <1>8, <1>9, <1>10, <1>11, <1>12, <1>13, <1>14
  DEF RcNext

LEMMA RcInvHolds == RcSpec => []RcInv
<1>1. RcInv /\ [RcNext]_rcVars => RcInv'
  BY RcStepInv
<1> QED
  BY RcInitInv, <1>1, PTL DEF RcSpec

\* Every variable has its type.
THEOREM RcTypeCorrect == RcSpec => []RcTypeOK
<1>1. RcInv => RcTypeOK
  BY DEF RcInv
<1> QED
  BY RcInvHolds, <1>1, PTL

\* A row that calls its material reclaimed is right, wherever a crash falls.
THEOREM ReclaimedMaterialIsGone == RcSpec => []ReclaimedIsGone
<1>1. RcInv => ReclaimedIsGone
  BY DEF RcInv
<1> QED
  BY RcInvHolds, <1>1, PTL

-----------------------------------------------------------------------------
(* With every run row readable. *)

LEMMA PinnedStep ==
  ASSUME MaxUnread = 0, RcInv, MaterialPinned, [RcNext]_rcVars
  PROVE  MaterialPinned'
<1> USE OwnerTyped, NoCheckpointApart DEF RcInv, MaterialPinned
<1>1. ASSUME NEW c \in Checkpoints,
             BeginAttempt(c) \/ WriteTree(c) \/ InsertCheckpoint(c) \/ CloseAttempt(c)
      PROVE  MaterialPinned'
  BY <1>1 DEF BeginAttempt, WriteTree, InsertCheckpoint, CloseAttempt, RcTypeOK
<1>2. ASSUME NEW c \in Checkpoints, Reclaim(c) PROVE MaterialPinned'
  BY <1>2 DEF Reclaim, DropTree, RcTypeOK, CollectsOver
<1>3. ASSUME NEW r \in OwnedRuns,
             EndRun(r) \/ PutLog(r) \/ RecordEvidence(r) \/ GrowOld(r)
      PROVE  MaterialPinned'
  BY <1>3 DEF EndRun, PutLog, RecordEvidence, GrowOld, RcTypeOK
<1>4. ASSUME NEW r \in OwnedRuns, CleanupWorkspace(r) PROVE MaterialPinned'
  <2>1. ~ RcSpend("unread", MaxUnread)
    BY DEF RcSpend, RcTypeOK
  <2>2. phase[r] = "over"
    BY <1>4, <2>1 DEF CleanupWorkspace
  <2> QED
    BY <1>4, <2>2 DEF CleanupWorkspace, RcTypeOK
<1>5. CASE ListReclaimable \/ GCObjects \/ Outage
  BY <1>5 DEF ListReclaimable, GCObjects, Outage
<1>6. CASE MarkReclaimed
  BY <1>6 DEF MarkReclaimed, RcTypeOK, CollectsOver
<1>7. CASE Recover
  <2>1. \A r \in OwnedRuns : phase'[r] # "over" => phase[r] # "over"
    BY <1>7, RcStepInv DEF OverStays
  <2>2. trees' = trees \ Debris /\ checkpoint' = checkpoint
    BY <1>7 DEF Recover
  <2> QED
    BY <2>1, <2>2 DEF Debris
<1>8. CASE UNCHANGED rcVars
  BY <1>8 DEF rcVars
<1> QED
  BY <1>1, <1>2, <1>3, <1>4, <1>5, <1>6, <1>7, <1>8 DEF RcNext

LEMMA PinnedInit == RcInit => MaterialPinned
  BY DEF RcInit, MaterialPinned

\* "Checkpoint material for a non-terminal run is pinned" (SPEC.md:324), if
\* no run row is ever unreadable.
THEOREM PinnedUnlessUnread == MaxUnread = 0 => (RcSpec => []MaterialPinned)
<1> SUFFICES ASSUME MaxUnread = 0 PROVE RcSpec => []MaterialPinned
  OBVIOUS
<1>1. RcInv /\ MaterialPinned /\ [RcNext]_rcVars => MaterialPinned'
  BY PinnedStep
<1> QED
  BY PinnedInit, RcInvHolds, <1>1, PTL DEF RcSpec

\* Recovery blocks a run only over an attempt without a recorded checkpoint.
LEMMA BlockedStep ==
  ASSUME RcInv, MaterialPinned, [RcNext]_rcVars,
         NEW r \in OwnedRuns, phase[r] = "active", phase'[r] = "stuck"
  PROVE  \E c \in Checkpoints : Owner(c) = r /\ attempt[c] = "running" /\ checkpoint[c] = "none"
<1>1. Recover
  <2>1. \A s \in OwnedRuns : EndRun(s) => phase'[r] # "stuck"
    BY DEF EndRun, RcInv, RcTypeOK
  <2> QED
    BY <2>1 DEF RcNext, rcVars, BeginAttempt, WriteTree, InsertCheckpoint, CloseAttempt, Reclaim,
         PutLog, RecordEvidence, GrowOld, CleanupWorkspace, ListReclaimable, MarkReclaimed,
         GCObjects, Outage
<1>2. PICK c \in Checkpoints : Owner(c) = r /\ attempt[c] = "running" /\ ~Restorable(c)
  BY <1>1 DEF Recover
<1>3. checkpoint[c] # "reclaimed"
  BY <1>2 DEF RcInv, CollectsOver
<1>4. checkpoint[c] # "present"
  BY <1>2 DEF MaterialPinned, Restorable, Debris
<1> QED
  BY <1>2, <1>3, <1>4 DEF RcInv, RcTypeOK

THEOREM BlockedUnlessUnread == MaxUnread = 0 => (RcSpec => BlockedOnlyUnrecorded)
<1> SUFFICES ASSUME MaxUnread = 0 PROVE RcSpec => BlockedOnlyUnrecorded
  OBVIOUS
<1> DEFINE Blocked ==
      \A r \in OwnedRuns :
        phase[r] = "active" /\ phase'[r] = "stuck" =>
          \E c \in Checkpoints : Owner(c) = r /\ attempt[c] = "running" /\ checkpoint[c] = "none"
<1>1. RcInv /\ MaterialPinned /\ [RcNext]_rcVars => [Blocked]_rcVars
  BY BlockedStep
<1>2. RcSpec => []MaterialPinned
  BY PinnedUnlessUnread
<1> QED
  BY RcInvHolds, <1>1, <1>2, PTL DEF RcSpec, BlockedOnlyUnrecorded

=============================================================================
