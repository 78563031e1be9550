---------------------------- MODULE Publication -----------------------------
(***************************************************************************)
(* Publishing finished runs into the user's source tree                    *)
(* (integration/integrate.go) and reconciling publications a crash         *)
(* interrupted (recovery/publication.go).  Several runs share one source,  *)
(* the user edits it at any time, and every access to a file is a step of  *)
(* its own.  A file's state is what FileMeta records of it: the hash of    *)
(* its content (of its target, for a symbolic link) and its mode.          *)
(***************************************************************************)
EXTENDS Naturals, FiniteSets

CONSTANTS
  Runs,        \* runs of projects with the same source
  NoRun,       \* nobody holds the source lock
  NFiles,      \* paths of the tree, numbered in the order of slices.Sort
  Metas,       \* the states a file can have
  Missing,     \* the state of a path where there is no file
  StartMetas,  \* bound: states of files before the first run
  AgentMetas,  \* bound: states an agent may leave a file in, besides as it was
  UserMetas,   \* bound: states a user's edit may leave a file in
  UserInterferes, \* whether users edit while files are being written
  MaxEdits,    \* bound: user edits
  MaxCancels,  \* bound: cancelled runs
  MaxCrashes   \* bound: crashes of the server

ASSUME PubRunsAssumption   == NoRun \notin Runs
ASSUME PubFilesAssumption  == NFiles \in Nat \ {0}
ASSUME PubMetasAssumption  ==
  /\ Missing \in Metas /\ \A m \in Metas : {"hash", "mode"} \subseteq DOMAIN m
  /\ StartMetas \subseteq Metas /\ AgentMetas \subseteq Metas /\ UserMetas \subseteq Metas
ASSUME PubBoundsAssumption ==
  /\ UserInterferes \in BOOLEAN
  /\ MaxEdits \in Nat /\ MaxCancels \in Nat /\ MaxCrashes \in Nat

VARIABLES
  source,     \* the live source tree
  base,       \* per run: its immutable starting snapshot
  final,      \* per run: the files of its workspace
  status,     \* per run: runs.status, as far as publication tells it apart
  journalled, \* runs whose journal.json is on disk
  entry,      \* per run and file: the status of its journal entry, if any
  pc,         \* per run: where its integration is
  todo,       \* per run: journal entries the current pass has still to visit
  lock,       \* the mutex of the source identity (sourceLocks)
  up,         \* "serving", "down", or "recovering"
  recTodo,    \* journals reconcileJournals has still to visit
  cancelled,  \* runs whose context is cancelled
  used        \* how much of each bound is used

journal == <<journalled, entry>>
runVars == <<base, final, status, journal, pc, todo>>
env     == <<up, recTodo, cancelled, used>>
vars    == <<source, runVars, lock, env>>

Files == 1..NFiles
Trees == [Files -> Metas]
EntryStatuses == {"none", "pending", "verified", "failed"}
Statuses == {"new", "active", "complete", "integration_blocked", "cancelled"}
Finished == {"complete", "cancelled"}
PCs == {"new", "ready", "prepared", "loop", "apply", "install", "verify", "done"}

(* Whether r's integration, or recovery on its behalf, is at work.          *)
Busy(r) == pc[r] \in {"prepared", "loop", "apply", "install", "verify"}

-----------------------------------------------------------------------------
(* threeWay: what the run changed is published where the user left the file *)
(* alone; where both changed it differently there is a conflict.            *)
Changed(r)   == {f \in Files : final[r][f] # base[r][f]}
Conflicts(r) == {f \in Changed(r) : source[f] # base[r][f] /\ source[f] # final[r][f]}
Plan(r)      == {f \in Changed(r) : source[f] = base[r][f]}

(* entryFor records the state before, which is the snapshot's, and the      *)
(* state after, which is the run's.                                         *)
Before(r, f) == base[r][f]
After(r, f)  == final[r][f]

(* classifyEntry compares hashes only.                                      *)
Classify(r, f) ==
  LET now == source[f]
      at(m) == IF m = Missing THEN now = Missing ELSE now # Missing /\ now.hash = m.hash
  IN IF at(After(r, f)) THEN "completed" ELSE IF at(Before(r, f)) THEN "incomplete" ELSE "diverged"

Entries(r) == {f \in Files : entry[r][f] # "none"}

First(S) == CHOOSE f \in S : \A g \in S : f <= g

(* The engine writes the outcome with the run's context: once that is       *)
(* cancelled the write fails and markCancelled has the last word.           *)
Settle(r, to) == status' = [status EXCEPT ![r] = IF r \in cancelled THEN "cancelled" ELSE to]

-----------------------------------------------------------------------------
(* A run captures its snapshot and works on a copy of it.                   *)
Capture(r) ==
  /\ up = "serving" /\ pc[r] = "new"
  /\ base' = [base EXCEPT ![r] = source]
  /\ \E t \in Trees :
       /\ \A f \in Files : t[f] \in AgentMetas \cup {source[f]}
       /\ final' = [final EXCEPT ![r] = t]
  /\ pc' = [pc EXCEPT ![r] = "ready"]
  /\ status' = [status EXCEPT ![r] = "active"]
  /\ UNCHANGED <<source, journal, todo, lock, env>>

(* Mutant: the entries are saved with the zero value of their status.       *)
WriteJournalZero(r) ==
  /\ journalled' = journalled \cup {r}
  /\ entry' = [entry EXCEPT ![r] = [f \in Files |-> IF f \in Plan(r) THEN "" ELSE "none"]]

(* journal.Save, for the first time.                                        *)
WriteJournal(r) ==
  /\ journalled' = journalled \cup {r}
  /\ entry' = [entry EXCEPT ![r] = [f \in Files |-> IF f \in Plan(r) THEN "pending" ELSE "none"]]

(* cleanupJournal.                                                          *)
DropJournal(r) ==
  /\ journalled' = journalled \ {r}
  /\ entry' = [entry EXCEPT ![r] = [f \in Files |-> "none"]]

(* Mutant: the source is not locked.                                        *)
PrepareUnlocked(r) ==
  /\ up = "serving" /\ pc[r] = "ready" /\ r \notin cancelled
  /\ Conflicts(r) = {}
  /\ lock' = r
  /\ WriteJournal(r)
  /\ pc' = [pc EXCEPT ![r] = "prepared"]
  /\ UNCHANGED <<source, base, final, status, todo, env>>

(* Integrate, up to the first save of the journal.                          *)
Prepare(r) ==
  /\ up = "serving" /\ pc[r] = "ready" /\ r \notin cancelled
  /\ lock = NoRun
  /\ \/ /\ Conflicts(r) # {}
        /\ Settle(r, "integration_blocked")
        /\ pc' = [pc EXCEPT ![r] = "done"]
        /\ UNCHANGED <<journal, lock>>
     \/ /\ Conflicts(r) = {}
        /\ lock' = r
        /\ WriteJournal(r)
        /\ pc' = [pc EXCEPT ![r] = "prepared"]
        /\ UNCHANGED status
  /\ UNCHANGED <<source, base, final, todo, env>>

(* The integration ends: the lock is released, the journal stays.           *)
End(r, to) ==
  /\ Settle(r, to)
  /\ pc' = [pc EXCEPT ![r] = "done"]
  /\ lock' = NoRun

(* recheckSource: every entry's hash once more, before the first write.     *)
Unchanged(r, f) ==
  IF Before(r, f) = Missing THEN source[f] = Missing
                            ELSE source[f] # Missing /\ source[f].hash = Before(r, f).hash

Recheck(r) ==
  /\ up = "serving" /\ pc[r] = "prepared"
  /\ IF \A f \in Entries(r) : Unchanged(r, f)
     THEN /\ pc' = [pc EXCEPT ![r] = "loop"]
          /\ todo' = [todo EXCEPT ![r] = Entries(r)]
          /\ UNCHANGED <<status, lock>>
     ELSE End(r, "integration_blocked") /\ UNCHANGED todo
  /\ UNCHANGED <<source, base, final, journal, env>>

(* publish: the head of its loop looks at the context, and only there.      *)
NextEntry(r) ==
  /\ up = "serving" /\ pc[r] = "loop" /\ todo[r] # {}
  /\ IF r \in cancelled THEN End(r, "integration_blocked")
                        ELSE pc' = [pc EXCEPT ![r] = "apply"] /\ UNCHANGED <<status, lock>>
  /\ UNCHANGED <<source, base, final, journal, todo, env>>

(* applyEntry removes the file first ...                                    *)
Remove(r) ==
  /\ up # "down" /\ pc[r] = "apply"
  /\ LET f == First(todo[r]) IN
       /\ source' = [source EXCEPT ![f] = Missing]
       /\ pc' = [pc EXCEPT ![r] = IF After(r, f) = Missing THEN "verify" ELSE "install"]
  /\ UNCHANGED <<base, final, status, journal, todo, lock, env>>

(* ... and then renames the new content into place.                         *)
Install(r) ==
  /\ up # "down" /\ pc[r] = "install"
  /\ LET f == First(todo[r]) IN source' = [source EXCEPT ![f] = After(r, f)]
  /\ pc' = [pc EXCEPT ![r] = "verify"]
  /\ UNCHANGED <<base, final, status, journal, todo, lock, env>>

(* verifyEntry, and the journal is saved.                                   *)
Verify(r) ==
  /\ up # "down" /\ pc[r] = "verify"
  /\ LET f  == First(todo[r])
         ok == Classify(r, f) = "completed"
     IN /\ entry' = [entry EXCEPT ![r][f] = IF ok THEN "verified" ELSE "failed"]
        /\ IF ok THEN /\ pc' = [pc EXCEPT ![r] = "loop"]
                      /\ todo' = [todo EXCEPT ![r] = @ \ {f}]
                      /\ UNCHANGED <<status, lock>>
                 ELSE End(r, "integration_blocked") /\ UNCHANGED todo
  /\ UNCHANGED <<source, base, final, journalled, env>>

Finish(r) ==
  /\ up = "serving" /\ pc[r] = "loop" /\ todo[r] = {}
  /\ End(r, "complete")
  /\ UNCHANGED <<source, base, final, journal, todo, env>>

(* A client cancels the run: its context, and its row unless it is finished.*)
Cancel(r) ==
  /\ up = "serving" /\ status[r] \in {"active", "integration_blocked"}
  /\ r \notin cancelled /\ used.cancels < MaxCancels
  /\ used' = [used EXCEPT !.cancels = @ + 1]
  /\ cancelled' = cancelled \cup {r}
  /\ status' = [status EXCEPT ![r] = "cancelled"]
  /\ pc' = [pc EXCEPT ![r] = IF @ = "ready" THEN "done" ELSE @]
  /\ UNCHANGED <<source, base, final, journal, todo, lock, up, recTodo>>

(* The user, an editor or another tool.                                     *)
Edit(f) ==
  /\ used.edits < MaxEdits
  /\ UserInterferes \/ \A r \in Runs : Busy(r) => pc[r] = "prepared"
  /\ \E m \in UserMetas \ {source[f]} : source' = [source EXCEPT ![f] = m]
  /\ used' = [used EXCEPT !.edits = @ + 1]
  /\ UNCHANGED <<runVars, lock, up, recTodo, cancelled>>

-----------------------------------------------------------------------------
(* Crash and recovery                                                       *)

(* An integration that had not saved its journal starts over.               *)
Crash ==
  /\ up # "down" /\ used.crashes < MaxCrashes
  /\ used' = [used EXCEPT !.crashes = @ + 1]
  /\ up' = "down" /\ lock' = NoRun /\ cancelled' = {} /\ recTodo' = {}
  /\ pc' = [r \in Runs |-> IF Busy(r) THEN "done" ELSE pc[r]]
  /\ todo' = [r \in Runs |-> {}]
  /\ UNCHANGED <<source, base, final, status, journal>>

(* Mutant: the server starts without looking for journals.                  *)
RestartForgets ==
  /\ up = "down"
  /\ up' = "recovering"
  /\ UNCHANGED <<source, runVars, lock, recTodo, cancelled, used>>

Restart ==
  /\ up = "down"
  /\ up' = "recovering"
  /\ recTodo' = journalled
  /\ UNCHANGED <<source, runVars, lock, cancelled, used>>

(* The journal of a finished run is removed; a completed publication is     *)
(* finalized; a diverged one blocks the run and keeps its journal; the rest *)
(* is resumed, entries that the journal calls verified left out.            *)
ReconcileFinished(r) ==
  /\ status[r] \in Finished
  /\ DropJournal(r)
  /\ UNCHANGED <<status, pc, todo, lock>>

(* Mutant: one completed entry is taken for all of them.                    *)
ReconcileCompletedSome(r) ==
  /\ \E f \in Entries(r) : Classify(r, f) = "completed"
  /\ status' = [status EXCEPT ![r] = "complete"]
  /\ DropJournal(r)
  /\ UNCHANGED <<pc, todo, lock>>

ReconcileCompleted(r) ==
  /\ \A f \in Entries(r) : Classify(r, f) = "completed"
  /\ status' = [status EXCEPT ![r] = "complete"]
  /\ DropJournal(r)
  /\ UNCHANGED <<pc, todo, lock>>

ReconcileDiverged(r) ==
  /\ \E f \in Entries(r) : Classify(r, f) = "diverged"
  /\ status' = [status EXCEPT ![r] = "integration_blocked"]
  /\ UNCHANGED <<journal, pc, todo, lock>>

(* Mutant: entries the journal calls verified are visited again.            *)
ResumeAll(r) ==
  /\ \E f \in Entries(r) : Classify(r, f) = "incomplete"
  /\ \A f \in Entries(r) : Classify(r, f) # "diverged"
  /\ pc' = [pc EXCEPT ![r] = "loop"]
  /\ todo' = [todo EXCEPT ![r] = Entries(r)]
  /\ lock' = r
  /\ UNCHANGED <<status, journal>>

Resume(r) ==
  /\ \E f \in Entries(r) : Classify(r, f) = "incomplete"
  /\ \A f \in Entries(r) : Classify(r, f) # "diverged"
  /\ pc' = [pc EXCEPT ![r] = "loop"]
  /\ todo' = [todo EXCEPT ![r] = {f \in Entries(r) : entry[r][f] # "verified"}]
  /\ lock' = r
  /\ UNCHANGED <<status, journal>>

Reconcile(r) ==
  /\ up = "recovering" /\ r \in recTodo
  /\ \A s \in Runs : ~Busy(s)
  /\ recTodo' = recTodo \ {r}
  /\ \/ ReconcileFinished(r)
     \/ status[r] \notin Finished
        /\ (ReconcileCompleted(r) \/ ReconcileDiverged(r) \/ Resume(r))
  /\ UNCHANGED <<source, base, final, up, cancelled, used>>

(* RecoverPublication's loop looks at each file again.                      *)
ResumeEntry(r) ==
  /\ up = "recovering" /\ pc[r] = "loop" /\ todo[r] # {}
  /\ LET f == First(todo[r]) IN
     \/ /\ Classify(r, f) = "completed"
        /\ todo' = [todo EXCEPT ![r] = @ \ {f}]
        /\ UNCHANGED <<status, pc, lock>>
     \/ /\ Classify(r, f) = "diverged"
        /\ End(r, "integration_blocked")
        /\ UNCHANGED todo
     \/ /\ Classify(r, f) = "incomplete"
        /\ pc' = [pc EXCEPT ![r] = "apply"]
        /\ UNCHANGED <<status, todo, lock>>
  /\ UNCHANGED <<source, base, final, journal, env>>

(* finalizePublication.                                                     *)
ResumeFinish(r) ==
  /\ up = "recovering" /\ pc[r] = "loop" /\ todo[r] = {}
  /\ End(r, "complete")
  /\ DropJournal(r)
  /\ UNCHANGED <<source, base, final, todo, env>>

Serve ==
  /\ up = "recovering" /\ recTodo = {} /\ \A r \in Runs : ~Busy(r)
  /\ up' = "serving"
  /\ UNCHANGED <<source, runVars, lock, recTodo, cancelled, used>>

-----------------------------------------------------------------------------
Init ==
  /\ source \in [Files -> StartMetas]
  /\ base = [r \in Runs |-> source] /\ final = [r \in Runs |-> source]
  /\ status = [r \in Runs |-> "new"] /\ journalled = {}
  /\ entry = [r \in Runs |-> [f \in Files |-> "none"]]
  /\ pc = [r \in Runs |-> "new"] /\ todo = [r \in Runs |-> {}]
  /\ lock = NoRun /\ up = "serving" /\ recTodo = {} /\ cancelled = {}
  /\ used = [edits |-> 0, cancels |-> 0, crashes |-> 0]

IntegrationStep(r) ==
  \/ Prepare(r) \/ Recheck(r) \/ NextEntry(r) \/ Remove(r) \/ Install(r) \/ Verify(r) \/ Finish(r)
  \/ Reconcile(r) \/ ResumeEntry(r) \/ ResumeFinish(r)

Next ==
  \/ \E r \in Runs : Capture(r) \/ Cancel(r) \/ IntegrationStep(r)
  \/ \E f \in Files : Edit(f)
  \/ Crash \/ Restart \/ Serve

Fairness == /\ \A r \in Runs : WF_vars(IntegrationStep(r))
            /\ WF_vars(Restart) /\ WF_vars(Serve)

Spec == Init /\ [][Next]_vars

FairSpec == Spec /\ Fairness

-----------------------------------------------------------------------------
(* Properties                                                               *)

(* Every variable has its type.                                             *)
TypeOK ==
  /\ source \in Trees /\ base \in [Runs -> Trees] /\ final \in [Runs -> Trees]
  /\ status \in [Runs -> Statuses] /\ journalled \subseteq Runs
  /\ entry \in [Runs -> [Files -> EntryStatuses]]
  /\ pc \in [Runs -> PCs] /\ todo \in [Runs -> SUBSET Files]
  /\ lock \in Runs \cup {NoRun} /\ up \in {"serving", "down", "recovering"}
  /\ recTodo \subseteq Runs /\ cancelled \subseteq Runs
  /\ used \in [edits : Nat, cancels : Nat, crashes : Nat]

(* "It does promise to avoid silent overwrite of divergent source"          *)
(* (SPEC.md:338): the server only ever replaces a file in the state the     *)
(* run started from, or one it put there itself.                            *)
NoSilentOverwrite ==
  [][\A f \in Files :
       source'[f] # source[f] /\ used' = used =>
         \E r \in Runs : /\ pc[r] \in {"apply", "install"}
                         /\ source[f] \in {Before(r, f), After(r, f), Missing}]_vars

(* "After publication, Wayshard verifies resulting hashes and marks the     *)
(* integration published" (SPEC.md:334): when a run becomes complete every  *)
(* file it changed is in the tree as the run left it, mode included,        *)
(* whether one pass published it or recovery finished the work; a file that *)
(* is not was verified, and somebody else changed it after that.            *)
CompleteIsPublished ==
  [][\A r \in Runs :
       status[r] # "complete" /\ status'[r] = "complete" =>
         \A f \in Entries(r) : source[f] = final[r][f] \/ entry[r][f] = "verified"]_vars

(* A publication that has been prepared is decided: it completes, it is     *)
(* blocked, or its run is cancelled.                                        *)
EventuallyDecided == \A r \in Runs : pc[r] = "prepared" ~> status[r] # "active"

(* SPEC.md:338 promises "to detect/reconcile partial publication after      *)
(* interruption": when a run's journal is dropped, its files are all in     *)
(* the tree, or none is.                                                    *)
NoPartialForgotten ==
  [][\A r \in Runs :
       r \in journalled \ journalled' =>
         \/ \A f \in Entries(r) : Classify(r, f) = "completed"
         \/ \A f \in Entries(r) : Classify(r, f) # "completed"]_vars

(***************************************************************************)
(* What all this implements: the lock names the one run that writes, and a *)
(* run owes what its pass has still to visit or, between passes, what its  *)
(* journal does not call verified.                                         *)
(***************************************************************************)
InPass(r) == pc[r] \in {"loop", "apply", "install", "verify"}

Unverified(r) == {f \in Entries(r) : entry[r][f] # "verified"}

Owed == [r \in Runs |-> IF InPass(r) THEN todo[r] ELSE Unverified(r)]

OutcomeOf(s) ==
  IF s = "complete" THEN "published"
  ELSE IF s = "integration_blocked" THEN "blocked"
  ELSE IF s = "cancelled" THEN "cancelled" ELSE "open"

Outcome == [r \in Runs |-> OutcomeOf(status[r])]

Serial == INSTANCE SerialPublication
            WITH tree <- source, publisher <- lock, owed <- Owed, outcome <- Outcome,
                 edits <- used.edits

(* Publications are serial and resumed without rewriting what was verified, *)
(* through cancellations, edits and crashes (SPEC.md:334-338).              *)
ImplementsSerialPublication == Serial!SpSpec

=============================================================================
