----------------------------- MODULE Reclamation -----------------------------
(***************************************************************************)
(* What the server deletes of its own: checkpoint material of finished     *)
(* runs (storage/checkpoint_lifecycle.go), debris of interrupted           *)
(* checkpoints, whole run directories and content-addressed objects        *)
(* (storage/gc.go), while runs take checkpoints                            *)
(* (orchestrator/checkpoint.go) and recovery restores from them            *)
(* (recovery/recovery.go).  A checkpoint belongs to one write attempt;     *)
(* files and rows are written in separate steps.                           *)
(***************************************************************************)
EXTENDS Naturals, FiniteSets

CONSTANTS
  OwnedRuns,    \* runs that keep material on disk
  NAttempts,    \* bound: write attempts of a run
  NoCheckpoint, \* ReclaimCheckpoints is between two checkpoints
  MaxUnread,    \* bound: run rows that cannot be read during a collection
  MaxOutages    \* bound: crashes of the server

ASSUME RcBoundsAssumption ==
  /\ NAttempts \in Nat \ {0} /\ MaxUnread \in Nat /\ MaxOutages \in Nat
  /\ NoCheckpoint \notin OwnedRuns \X (1..NAttempts)

VARIABLES
  phase,      \* per run: "active", "stuck" (blocked by recovery), "over" (terminal)
  attempt,    \* per attempt: its status
  checkpoint, \* per attempt: material_state of its row, if it has one
  trees,      \* checkpoints whose tree is on disk
  aged,       \* runs whose files and rows are older than every retention
  logs,       \* runs with a validation log in the object store
  evidence,   \* runs with a validation artifact that names the log
  listed,     \* checkpoints ReclaimCheckpoints has still to visit
  removing,   \* the one whose tree it has removed, its row not yet marked
  serving,    \* the server is up
  rcUsed      \* how much of each bound is used

rcVars == <<phase, attempt, checkpoint, trees, aged, logs, evidence, listed, removing,
            serving, rcUsed>>

Checkpoints == OwnedRuns \X (1..NAttempts)
Owner(c)    == c[1]
RcSpend(what, max) == rcUsed[what] < max /\ rcUsed' = [rcUsed EXCEPT ![what] = @ + 1]

-----------------------------------------------------------------------------
(* Runs. *)

\* appendAttempt: the attempt is running before it has a checkpoint.
BeginAttempt(c) ==
  /\ serving /\ phase[Owner(c)] = "active" /\ attempt[c] = "none"
  /\ \A d \in Checkpoints : Owner(d) = Owner(c) /\ d[2] < c[2] => attempt[d] = "closed"
  /\ attempt' = [attempt EXCEPT ![c] = "running"]
  /\ UNCHANGED <<phase, checkpoint, trees, aged, logs, evidence, listed, removing, serving, rcUsed>>

\* checkpointBeforeWrite: the tree, then its row.
WriteTree(c) ==
  /\ serving /\ attempt[c] = "running" /\ checkpoint[c] = "none"
  /\ trees' = trees \cup {c}
  /\ UNCHANGED <<phase, attempt, checkpoint, aged, logs, evidence, listed, removing, serving, rcUsed>>

\* Mutant: the row is inserted with the zero value of its material state.
InsertCheckpointZero(c) ==
  /\ serving /\ attempt[c] = "running" /\ checkpoint[c] = "none" /\ c \in trees
  /\ checkpoint' = [checkpoint EXCEPT ![c] = ""]
  /\ UNCHANGED <<phase, attempt, trees, aged, logs, evidence, listed, removing, serving, rcUsed>>

InsertCheckpoint(c) ==
  /\ serving /\ attempt[c] = "running" /\ checkpoint[c] = "none" /\ c \in trees
  /\ checkpoint' = [checkpoint EXCEPT ![c] = "present"]
  /\ UNCHANGED <<phase, attempt, trees, aged, logs, evidence, listed, removing, serving, rcUsed>>

CloseAttempt(c) ==
  /\ serving /\ attempt[c] = "running" /\ checkpoint[c] = "present"
  /\ attempt' = [attempt EXCEPT ![c] = "closed"]
  /\ UNCHANGED <<phase, checkpoint, trees, aged, logs, evidence, listed, removing, serving, rcUsed>>

\* A run that is active, or blocked, completes, fails or is cancelled.
EndRun(r) ==
  /\ serving /\ phase[r] # "over"
  /\ phase' = [phase EXCEPT ![r] = "over"]
  /\ attempt' = [c \in Checkpoints |-> IF Owner(c) = r /\ attempt[c] = "running"
                                       THEN "closed" ELSE attempt[c]]
  /\ UNCHANGED <<checkpoint, trees, aged, logs, evidence, listed, removing, serving, rcUsed>>

\* A validation check stores its log; the artifact that names it follows.
PutLog(r) ==
  /\ serving /\ phase[r] = "active"
  /\ logs' = logs \cup {r}
  /\ UNCHANGED <<phase, attempt, checkpoint, trees, aged, evidence, listed, removing, serving, rcUsed>>

RecordEvidence(r) ==
  /\ serving /\ phase[r] = "active" /\ r \in logs
  /\ evidence' = evidence \cup {r}
  /\ UNCHANGED <<phase, attempt, checkpoint, trees, aged, logs, listed, removing, serving, rcUsed>>

\* Days pass; a run may wait for its user that long.
GrowOld(r) ==
  /\ aged' = aged \cup {r}
  /\ UNCHANGED <<phase, attempt, checkpoint, trees, logs, evidence, listed, removing, serving, rcUsed>>

-----------------------------------------------------------------------------
(* Collection: at startup and when a client asks for it. *)

\* Mutant: only running attempts pin a checkpoint.
ReclaimableIdle == {c \in Checkpoints : checkpoint[c] = "present" /\ attempt[c] = "closed"}

\* ReclaimableCheckpoints: present ones of terminal runs.
ReclaimableCheckpoints ==
  {c \in Checkpoints : checkpoint[c] = "present" /\ phase[Owner(c)] = "over"}

ListReclaimable ==
  /\ serving /\ listed = {} /\ removing = NoCheckpoint
  /\ listed' = {c \in ReclaimableCheckpoints : Owner(c) \in aged}
  /\ UNCHANGED <<phase, attempt, checkpoint, trees, aged, logs, evidence, removing, serving, rcUsed>>

\* Mutant: the row is marked before the tree is removed.
MarkFirst(c) ==
  /\ checkpoint' = [checkpoint EXCEPT ![c] = "reclaimed"]
  /\ UNCHANGED trees

\* The tree first ...
DropTree(c) ==
  /\ trees' = trees \ {c}
  /\ UNCHANGED checkpoint

Reclaim(c) ==
  /\ serving /\ removing = NoCheckpoint /\ c \in listed
  /\ DropTree(c)
  /\ removing' = c /\ listed' = listed \ {c}
  /\ UNCHANGED <<phase, attempt, aged, logs, evidence, serving, rcUsed>>

\* ... then the row, in a transaction of its own.
MarkReclaimed ==
  /\ serving /\ removing # NoCheckpoint
  /\ checkpoint' = [checkpoint EXCEPT ![removing] = IF @ = "present" THEN "reclaimed" ELSE @]
  /\ trees' = trees \ {removing}
  /\ removing' = NoCheckpoint
  /\ UNCHANGED <<phase, attempt, aged, logs, evidence, listed, serving, rcUsed>>

\* CleanupWorkspaces: an old directory stays only if its run is read and is
\* not terminal.
CleanupWorkspace(r) ==
  /\ serving /\ r \in aged
  /\ \/ phase[r] = "over" /\ UNCHANGED rcUsed
     \/ RcSpend("unread", MaxUnread)
  /\ trees' = {c \in trees : Owner(c) # r}
  /\ UNCHANGED <<phase, attempt, checkpoint, aged, logs, evidence, listed, removing, serving>>

\* GCObjects: no column it marks from names a validation log.
GCObjects ==
  /\ serving
  /\ logs' = logs \ aged
  /\ UNCHANGED <<phase, attempt, checkpoint, trees, aged, evidence, listed, removing, serving, rcUsed>>

-----------------------------------------------------------------------------
(* Crash and recovery. *)

Outage ==
  /\ serving /\ RcSpend("outages", MaxOutages)
  /\ serving' = FALSE
  /\ listed' = {} /\ removing' = NoCheckpoint
  /\ UNCHANGED <<phase, attempt, checkpoint, trees, aged, logs, evidence>>

\* Mutant: only the rows of closed attempts count.
DebrisUnlessClosed == {c \in trees : attempt[c] # "closed"}

\* CleanupCheckpointDebris: trees that no row names.
Debris == {c \in trees : checkpoint[c] = "none"}

Restorable(c) == checkpoint[c] = "present" /\ c \in trees \ Debris

\* Reconcile: debris goes, then every running attempt of an active run is
\* restored, or its run blocked.
Recover ==
  /\ ~serving /\ serving' = TRUE
  /\ trees' = trees \ Debris
  /\ phase' = [r \in OwnedRuns |->
                 IF phase[r] = "active"
                    /\ \E c \in Checkpoints : Owner(c) = r /\ attempt[c] = "running" /\ ~Restorable(c)
                 THEN "stuck" ELSE phase[r]]
  /\ attempt' = [c \in Checkpoints |-> IF attempt[c] = "running" THEN "closed" ELSE attempt[c]]
  /\ UNCHANGED <<checkpoint, aged, logs, evidence, listed, removing, rcUsed>>

-----------------------------------------------------------------------------
RcInit ==
  /\ phase = [r \in OwnedRuns |-> "active"]
  /\ attempt = [c \in Checkpoints |-> "none"] /\ checkpoint = [c \in Checkpoints |-> "none"]
  /\ trees = {} /\ aged = {} /\ logs = {} /\ evidence = {} /\ listed = {}
  /\ removing = NoCheckpoint /\ serving = TRUE
  /\ rcUsed = [unread |-> 0, outages |-> 0]

RcNext ==
  \/ \E c \in Checkpoints :
       BeginAttempt(c) \/ WriteTree(c) \/ InsertCheckpoint(c) \/ CloseAttempt(c) \/ Reclaim(c)
  \/ \E r \in OwnedRuns :
       EndRun(r) \/ PutLog(r) \/ RecordEvidence(r) \/ GrowOld(r) \/ CleanupWorkspace(r)
  \/ ListReclaimable \/ MarkReclaimed \/ GCObjects
  \/ Outage \/ Recover

RcSpec == RcInit /\ [][RcNext]_rcVars

-----------------------------------------------------------------------------
(* Properties. *)

\* Every variable has its type.
RcTypeOK ==
  /\ phase \in [OwnedRuns -> {"active", "stuck", "over"}]
  /\ attempt \in [Checkpoints -> {"none", "running", "closed"}]
  /\ checkpoint \in [Checkpoints -> {"none", "present", "reclaimed"}]
  /\ trees \subseteq Checkpoints /\ listed \subseteq Checkpoints
  /\ aged \subseteq OwnedRuns /\ logs \subseteq OwnedRuns /\ evidence \subseteq OwnedRuns
  /\ removing \in Checkpoints \cup {NoCheckpoint} /\ serving \in BOOLEAN
  /\ rcUsed \in [unread : 0..MaxUnread, outages : 0..MaxOutages]

\* "Checkpoint material for a non-terminal run is pinned" (SPEC.md:324): no
\* collection, at startup or under a run that is at work, takes it away.
MaterialPinned ==
  \A c \in Checkpoints : phase[Owner(c)] # "over" /\ checkpoint[c] = "present" => c \in trees

\* A row that says its material is reclaimed is right, whatever crash came
\* between the two writes: nothing would look for the tree again.
ReclaimedIsGone == \A c \in Checkpoints : checkpoint[c] = "reclaimed" => c \notin trees

\* Recovery blocks a run only over an attempt that died before its
\* checkpoint was recorded.
BlockedOnlyUnrecorded ==
  [][\A r \in OwnedRuns :
       phase[r] = "active" /\ phase'[r] = "stuck" =>
         \E c \in Checkpoints : Owner(c) = r /\ attempt[c] = "running" /\ checkpoint[c] = "none"]_rcVars

\* "Object GC is mark-and-sweep based on durable references"
\* (ARCHITECTURE.md:633): a log that a validation artifact names is kept.
EvidenceKept == evidence \subseteq logs
=============================================================================
