-------------------------- MODULE PublicationProofs --------------------------
(***************************************************************************)
(* Publication implements SerialPublication, for any number of runs,       *)
(* files, edits, cancellations and crashes.  The inductive invariant says  *)
(* who holds the lock (the run whose integration is at work), that a run   *)
(* which has not been prepared has left no trace, and what a pass has      *)
(* still to visit: entries the journal does not call verified -- all of    *)
(* them, unless recovery is resuming.                                      *)
(***************************************************************************)
EXTENDS Publication, WellFoundedInduction, TLAPS

LockHolder == \A r \in Runs : Busy(r) <=> lock = r

FreshRuns ==
  \A r \in Runs :
    pc[r] \in {"new", "ready"} =>
      /\ r \notin journalled /\ r \notin recTodo
      /\ entry[r] = [f \in Files |-> "none"]
      /\ status[r] = IF pc[r] = "new" THEN "new" ELSE "active"

PassOf(r) ==
  /\ pc[r] = "prepared" => Unverified(r) = Entries(r)
  /\ InPass(r) => todo[r] \subseteq Unverified(r)
  /\ InPass(r) /\ up = "serving" => todo[r] = Unverified(r)
  /\ pc[r] \in {"apply", "install", "verify"} => todo[r] # {}
  /\ Busy(r) => /\ up # "down" /\ status[r] # "complete"
                /\ status[r] = "cancelled" => r \in cancelled

Passes == \A r \in Runs : PassOf(r)

PubInv == TypeOK /\ LockHolder /\ FreshRuns /\ Passes

-----------------------------------------------------------------------------
(* Lemmas about the operators. *)

\* The first of some files is one of them.
LEMMA FirstIn ==
  ASSUME NEW S \in SUBSET Files, S # {}
  PROVE  First(S) \in S
<1> DEFINE R == OpToRel(<, Nat)
<1>1. IsWellFoundedOn(R, Nat)
  BY NatLessThanWellFounded
<1>2. R = {ss \in Nat \X Nat : ss[1] < ss[2]}
  BY DEF OpToRel
<1>3. S \in SUBSET Nat
  BY PubFilesAssumption DEF Files
<1> HIDE DEF R
<1>4. PICK n \in S : \A y \in S : ~ (<<y, n>> \in R)
  <2>1. \E x \in S : \A y \in S : ~ (<<y, x>> \in R)
    BY <1>1, <1>3, WFMin
  <2> QED
    BY <2>1
<1>5. \A m \in S : n <= m
  <2> TAKE m \in S
  <2>1. <<m, n>> \notin R
    BY <1>4
  <2>2. m \in Nat /\ n \in Nat
    BY <1>3
  <2>3. ~ (m < n)
    BY <2>1, <2>2, <1>2
  <2> QED
    BY <2>2, <2>3
<1> QED
  BY <1>5 DEF First

LEMMA EntriesIn == \A r \in Runs : Entries(r) \in SUBSET Files
  BY DEF Entries

LEMMA FirstTodo ==
  ASSUME PubInv, NEW r \in Runs, InPass(r), todo[r] # {}
  PROVE  First(todo[r]) \in todo[r] /\ First(todo[r]) \in Files
  BY FirstIn DEF PubInv, TypeOK

LEMMA SettleTyped ==
  ASSUME TypeOK, NEW r \in Runs, NEW to \in Statuses, Settle(r, to)
  PROVE  /\ status' \in [Runs -> Statuses]
         /\ \A s \in Runs : s # r => status'[s] = status[s]
  BY DEF TypeOK, Settle, Statuses

LEMMA JournalTyped ==
  ASSUME TypeOK, NEW r \in Runs, WriteJournal(r) \/ DropJournal(r)
  PROVE  journalled' \subseteq Runs /\ entry' \in [Runs -> [Files -> EntryStatuses]]
<1>1. [f \in Files |-> IF f \in Plan(r) THEN "pending" ELSE "none"] \in [Files -> EntryStatuses]
  BY DEF EntryStatuses
<1>2. [f \in Files |-> "none"] \in [Files -> EntryStatuses]
  BY DEF EntryStatuses
<1> QED
  BY <1>1, <1>2 DEF TypeOK, WriteJournal, DropJournal

-----------------------------------------------------------------------------
(* The invariant. *)

LEMMA PubInitInv == Init => PubInv
<1> SUFFICES ASSUME Init PROVE PubInv
  OBVIOUS
<1>1. [f \in Files |-> "none"] \in [Files -> EntryStatuses]
  BY DEF EntryStatuses
<1>2. source \in Trees
  BY PubMetasAssumption DEF Init, Trees
<1>3. TypeOK
  BY <1>1, <1>2 DEF Init, TypeOK, Statuses, PCs
<1>4. LockHolder
  BY PubRunsAssumption DEF Init, LockHolder, Busy
<1>5. FreshRuns /\ Passes
  BY DEF Init, FreshRuns, Passes, PassOf, Busy, InPass
<1> QED
  BY <1>3, <1>4, <1>5 DEF PubInv

LEMMA TypeStep ==
  ASSUME PubInv, [Next]_vars
  PROVE  TypeOK'
<1> USE DEF PubInv
<1>1. ASSUME NEW r \in Runs, Capture(r) PROVE TypeOK'
  <2>1. PICK t \in Trees : final' = [final EXCEPT ![r] = t]
    BY <1>1 DEF Capture
  <2>2. base' \in [Runs -> Trees] /\ final' \in [Runs -> Trees]
    BY <1>1, <2>1 DEF Capture, TypeOK
  <2>3. status' \in [Runs -> Statuses] /\ pc' \in [Runs -> PCs]
    BY <1>1 DEF Capture, TypeOK, Statuses, PCs
  <2>4. UNCHANGED <<source, journal, lock, todo, env>>
    BY <1>1 DEF Capture
  <2> QED
    BY <2>2, <2>3, <2>4 DEF TypeOK, journal, env
<1>2. ASSUME NEW r \in Runs, Cancel(r) PROVE TypeOK'
  <2>1. status' \in [Runs -> Statuses] /\ pc' \in [Runs -> PCs]
    BY <1>2 DEF Cancel, TypeOK, Statuses, PCs
  <2>2. used' \in [edits : Nat, cancels : Nat, crashes : Nat] /\ cancelled' \subseteq Runs
    BY <1>2 DEF Cancel, TypeOK
  <2>3. UNCHANGED <<source, base, final, journal, todo, lock, up, recTodo>>
    BY <1>2 DEF Cancel
  <2> QED
    BY <2>1, <2>2, <2>3 DEF TypeOK, journal
<1>3. ASSUME NEW r \in Runs, Prepare(r) PROVE TypeOK'
  <2>1. status' \in [Runs -> Statuses]
    BY <1>3, SettleTyped DEF Prepare, TypeOK, Statuses
  <2>2. journalled' \subseteq Runs /\ entry' \in [Runs -> [Files -> EntryStatuses]]
    BY <1>3, JournalTyped DEF Prepare, TypeOK, journal
  <2> QED
    BY <1>3, <2>1, <2>2 DEF Prepare, TypeOK, env, PCs
<1>4. ASSUME NEW r \in Runs, Recheck(r) PROVE TypeOK'
  <2>1. status' \in [Runs -> Statuses]
    BY <1>4, SettleTyped DEF Recheck, End, TypeOK, Statuses
  <2>2. todo' \in [Runs -> SUBSET Files]
    BY <1>4, EntriesIn DEF Recheck, TypeOK
  <2> QED
    BY <1>4, <2>1, <2>2 DEF Recheck, End, TypeOK, journal, env, PCs
<1>5. ASSUME NEW r \in Runs, NextEntry(r) PROVE TypeOK'
  <2>1. status' \in [Runs -> Statuses]
    BY <1>5, SettleTyped DEF NextEntry, End, TypeOK, Statuses
  <2> QED
    BY <1>5, <2>1 DEF NextEntry, End, TypeOK, journal, env, PCs
<1>6. ASSUME NEW r \in Runs, Remove(r) PROVE TypeOK'
  BY <1>6, PubMetasAssumption DEF Remove, TypeOK, Trees, journal, env, PCs
<1>7. ASSUME NEW r \in Runs, Install(r) PROVE TypeOK'
  <2>1. First(todo[r]) \in Files
    BY <1>7, FirstTodo DEF Install, Passes, PassOf, InPass
  <2>2. source' \in Trees
    BY <1>7, <2>1 DEF Install, TypeOK, Trees, After
  <2> QED
    BY <1>7, <2>2 DEF Install, TypeOK, journal, env, PCs
<1>8. ASSUME NEW r \in Runs, Verify(r) PROVE TypeOK'
  <2>1. status' \in [Runs -> Statuses]
    BY <1>8, SettleTyped DEF Verify, End, TypeOK, Statuses
  <2>2. entry' \in [Runs -> [Files -> EntryStatuses]]
    BY <1>8 DEF Verify, TypeOK, EntryStatuses
  <2> QED
    BY <1>8, <2>1, <2>2 DEF Verify, End, TypeOK, env, PCs
<1>9. ASSUME NEW r \in Runs, Finish(r) PROVE TypeOK'
  <2>1. status' \in [Runs -> Statuses]
    BY <1>9, SettleTyped DEF Finish, End, TypeOK, Statuses
  <2> QED
    BY <1>9, <2>1 DEF Finish, End, TypeOK, journal, env, PCs
<1>10. ASSUME NEW r \in Runs, Reconcile(r) PROVE TypeOK'
  <2>1. status' \in [Runs -> Statuses]
    BY <1>10 DEF Reconcile, ReconcileFinished, ReconcileCompleted, ReconcileDiverged, Resume,
                 TypeOK, Statuses
  <2>2. journalled' \subseteq Runs /\ entry' \in [Runs -> [Files -> EntryStatuses]]
    BY <1>10, JournalTyped
    DEF Reconcile, ReconcileFinished, ReconcileCompleted, ReconcileDiverged, Resume,
        TypeOK, journal
  <2>3. /\ pc' \in [Runs -> PCs] /\ todo' \in [Runs -> SUBSET Files]
        /\ lock' \in Runs \cup {NoRun}
    <3>1. {f \in Entries(r) : entry[r][f] # "verified"} \in SUBSET Files
      BY EntriesIn
    <3>2. CASE UNCHANGED <<pc, todo, lock>>
      BY <3>2 DEF TypeOK
    <3>3. CASE Resume(r)
      BY <3>1, <3>3 DEF Resume, TypeOK, PCs
    <3> QED
      BY <1>10, <3>2, <3>3
      DEF Reconcile, ReconcileFinished, ReconcileCompleted, ReconcileDiverged
  <2> QED
    BY <1>10, <2>1, <2>2, <2>3 DEF Reconcile, TypeOK
<1>11. ASSUME NEW r \in Runs, ResumeEntry(r) PROVE TypeOK'
  <2>1. status' \in [Runs -> Statuses]
    BY <1>11, SettleTyped DEF ResumeEntry, End, TypeOK, Statuses
  <2>2. UNCHANGED <<source, base, final, journal, env>>
    BY <1>11 DEF ResumeEntry
  <2>3. pc' \in [Runs -> PCs] /\ lock' \in Runs \cup {NoRun}
    BY <1>11 DEF ResumeEntry, End, TypeOK, PCs
  <2>4. todo' \in [Runs -> SUBSET Files]
    BY <1>11 DEF ResumeEntry, TypeOK
  <2> QED
    BY <2>1, <2>2, <2>3, <2>4 DEF TypeOK, journal, env
<1>12. ASSUME NEW r \in Runs, ResumeFinish(r) PROVE TypeOK'
  <2>1. status' \in [Runs -> Statuses]
    BY <1>12, SettleTyped DEF ResumeFinish, End, TypeOK, Statuses
  <2>2. journalled' \subseteq Runs /\ entry' \in [Runs -> [Files -> EntryStatuses]]
    BY <1>12, JournalTyped DEF ResumeFinish
  <2> QED
    BY <1>12, <2>1, <2>2 DEF ResumeFinish, End, TypeOK, env, PCs
<1>13. ASSUME NEW f \in Files, Edit(f) PROVE TypeOK'
  <2>1. PICK m \in UserMetas : source' = [source EXCEPT ![f] = m]
    BY <1>13 DEF Edit
  <2>2. source' \in Trees
    BY <2>1, PubMetasAssumption DEF TypeOK, Trees
  <2>3. used' \in [edits : Nat, cancels : Nat, crashes : Nat]
    BY <1>13 DEF Edit, TypeOK
  <2> QED
    BY <1>13, <2>2, <2>3 DEF Edit, TypeOK, runVars, journal
<1>14. CASE Crash
  BY <1>14 DEF Crash, TypeOK, journal, PCs
<1>15. CASE Restart \/ Serve
  BY <1>15 DEF Restart, Serve, TypeOK, runVars, journal
<1>16. CASE UNCHANGED vars
  BY <1>16 DEF vars, runVars, env, journal, TypeOK
<1> QED
  BY <1>1, <1>2, <1>3, <1>4, <1>5, <1>6, <1>7, <1>8, <1>9, <1>10, <1>11, <1>12, <1>13, <1>14,
     <1>15, <1>16 DEF Next, IntegrationStep
LEMMA LockStep ==
  ASSUME PubInv, [Next]_vars
  PROVE  LockHolder'
<1> USE PubRunsAssumption DEF PubInv, LockHolder, Busy
<1>1. ASSUME NEW r \in Runs, Capture(r) \/ Cancel(r) PROVE LockHolder'
  BY <1>1 DEF Capture, Cancel, TypeOK
<1>2. ASSUME NEW r \in Runs, Prepare(r) PROVE LockHolder'
  BY <1>2 DEF Prepare, TypeOK
<1>3. ASSUME NEW r \in Runs, Recheck(r) \/ NextEntry(r) \/ Finish(r) PROVE LockHolder'
  BY <1>3 DEF Recheck, NextEntry, Finish, End, TypeOK
<1>4. ASSUME NEW r \in Runs, Remove(r) \/ Install(r) PROVE LockHolder'
  BY <1>4 DEF Remove, Install, TypeOK
<1>5. ASSUME NEW r \in Runs, Verify(r) PROVE LockHolder'
  BY <1>5 DEF Verify, End, TypeOK
<1>6. ASSUME NEW r \in Runs, Reconcile(r) PROVE LockHolder'
  <2>1. CASE UNCHANGED <<pc, lock>>
    BY <2>1
  <2>2. CASE Resume(r)
    BY <1>6, <2>2 DEF Reconcile, Resume, TypeOK
  <2> QED
    BY <1>6, <2>1, <2>2
    DEF Reconcile, ReconcileFinished, ReconcileCompleted, ReconcileDiverged
<1>7. ASSUME NEW r \in Runs, ResumeEntry(r) \/ ResumeFinish(r) PROVE LockHolder'
  BY <1>7 DEF ResumeEntry, ResumeFinish, End, TypeOK
<1>8. CASE Crash
  BY <1>8 DEF Crash, TypeOK
<1>9. ASSUME UNCHANGED <<pc, lock>> PROVE LockHolder'
  BY <1>9
<1> QED
  BY <1>1, <1>2, <1>3, <1>4, <1>5, <1>6, <1>7, <1>8, <1>9
  DEF Next, IntegrationStep, Edit, Restart, Serve, vars, runVars

LEMMA FreshStep ==
  ASSUME PubInv, [Next]_vars
  PROVE  FreshRuns'
<1> USE DEF PubInv, FreshRuns
<1>1. ASSUME NEW r \in Runs, Capture(r) PROVE FreshRuns'
  <2>1. /\ pc[r] = "new" /\ pc' = [pc EXCEPT ![r] = "ready"]
        /\ status' = [status EXCEPT ![r] = "active"]
        /\ UNCHANGED <<journal, recTodo>>
    BY <1>1 DEF Capture, env
  <2> QED
    BY <2>1 DEF TypeOK, journal
<1>2. ASSUME NEW r \in Runs, Cancel(r) PROVE FreshRuns'
  <2>1. /\ pc[r] # "new"
    BY <1>2 DEF Cancel
  <2> QED
    BY <1>2, <2>1 DEF Cancel, TypeOK, journal
<1>3. ASSUME NEW r \in Runs, Prepare(r) PROVE FreshRuns'
  <2>1. /\ pc' \in [Runs -> PCs] /\ pc'[r] \notin {"new", "ready"}
        /\ \A s \in Runs \ {r} : pc'[s] = pc[s] /\ status'[s] = status[s]
                                /\ entry'[s] = entry[s]
        /\ journalled' \subseteq journalled \cup {r} /\ recTodo' = recTodo
    BY <1>3 DEF Prepare, Settle, WriteJournal, TypeOK, journal, env, PCs
  <2> QED
    BY <2>1 DEF TypeOK
<1>4. ASSUME NEW r \in Runs,
             Recheck(r) \/ NextEntry(r) \/ Finish(r) \/ Remove(r) \/ Install(r) \/ Verify(r)
               \/ ResumeEntry(r) \/ ResumeFinish(r)
      PROVE  FreshRuns'
  <2>1. pc[r] \notin {"new", "ready"}
    BY <1>4 DEF Recheck, NextEntry, Finish, Remove, Install, Verify, ResumeEntry, ResumeFinish
  <2>2. /\ pc'[r] \notin {"new", "ready"}
        /\ \A s \in Runs \ {r} : pc'[s] = pc[s]
    BY <1>4, <2>1 DEF Recheck, NextEntry, Finish, Remove, Install, Verify, ResumeEntry,
                       ResumeFinish, End, TypeOK
  <2>3. \A s \in Runs \ {r} : status'[s] = status[s]
    BY <1>4 DEF Recheck, NextEntry, Finish, Remove, Install, Verify, ResumeEntry,
                ResumeFinish, End, Settle, TypeOK
  <2>4. \A s \in Runs \ {r} : entry'[s] = entry[s]
    BY <1>4 DEF Recheck, NextEntry, Finish, Remove, Install, Verify, ResumeEntry,
                ResumeFinish, DropJournal, TypeOK, journal
  <2>5. journalled' \subseteq journalled /\ recTodo' = recTodo
    BY <1>4 DEF Recheck, NextEntry, Finish, Remove, Install, Verify, ResumeEntry,
                ResumeFinish, DropJournal, TypeOK, journal, env
  <2> QED
    BY <2>2, <2>3, <2>4, <2>5
<1>5. ASSUME NEW r \in Runs, Reconcile(r) PROVE FreshRuns'
  <2>1. pc[r] \notin {"new", "ready"} /\ recTodo' \subseteq recTodo
    BY <1>5 DEF Reconcile
  <2>2. /\ pc'[r] \notin {"new", "ready"}
        /\ \A s \in Runs \ {r} : pc'[s] = pc[s] /\ status'[s] = status[s]
                                /\ entry'[s] = entry[s]
        /\ journalled' \subseteq journalled
    BY <1>5, <2>1 DEF Reconcile, ReconcileFinished, ReconcileCompleted, ReconcileDiverged,
                       Resume, DropJournal, TypeOK, journal
  <2> QED
    BY <2>1, <2>2
<1>6. CASE Crash
  <2>1. \A s \in Runs : pc'[s] \in {"new", "ready"} => pc'[s] = pc[s]
    BY <1>6 DEF Crash, TypeOK
  <2> QED
    BY <1>6, <2>1 DEF Crash, journal
<1>7. CASE Restart
  BY <1>7 DEF Restart, runVars, journal
<1>8. ASSUME UNCHANGED <<runVars, recTodo>> PROVE FreshRuns'
  BY <1>8 DEF runVars, journal
<1> QED
  BY <1>1, <1>2, <1>3, <1>4, <1>5, <1>6, <1>7, <1>8
  DEF Next, IntegrationStep, Edit, Serve, vars, env

\* A step of one run leaves the passes of the others alone.
Frame(s) ==
  /\ pc'[s] = pc[s] /\ todo'[s] = todo[s] /\ entry'[s] = entry[s] /\ status'[s] = status[s]
  /\ up' = up /\ cancelled \subseteq cancelled'

LEMMA PassFrame ==
  ASSUME NEW s \in Runs, PassOf(s), Frame(s)
  PROVE  PassOf(s)'
  BY DEF PassOf, Frame, Unverified, Entries, InPass, Busy

LEMMA OnlyOne ==
  ASSUME Passes, NEW r \in Runs, PassOf(r)', \A s \in Runs \ {r} : Frame(s)
  PROVE  Passes'
  BY PassFrame DEF Passes

\* An integration that is over, or has not begun, owes its pass nothing.
LEMMA IdlePass ==
  ASSUME NEW r \in Runs, pc'[r] \in {"new", "ready", "done"}
  PROVE  PassOf(r)'
  BY DEF PassOf, InPass, Busy

LEMMA EndFrame ==
  ASSUME PubInv, NEW r \in Runs, NEW to \in Statuses, End(r, to),
         UNCHANGED <<todo, up, cancelled>>,
         \A s \in Runs \ {r} : entry'[s] = entry[s]
  PROVE  Passes'
<1>1. \A s \in Runs \ {r} : Frame(s)
  BY DEF End, Settle, Frame, PubInv, TypeOK
<1>2. pc'[r] = "done"
  BY DEF End, PubInv, TypeOK
<1> QED
  BY <1>1, <1>2, IdlePass, OnlyOne DEF PubInv

LEMMA PassStep ==
  ASSUME PubInv, [Next]_vars
  PROVE  Passes'
<1> USE DEF PubInv
<1>1. ASSUME NEW r \in Runs, Capture(r) PROVE Passes'
  <2>1. /\ pc' = [pc EXCEPT ![r] = "ready"] /\ status' = [status EXCEPT ![r] = "active"]
        /\ UNCHANGED <<journal, todo, env>>
    BY <1>1 DEF Capture
  <2>2. \A s \in Runs \ {r} : Frame(s)
    BY <2>1 DEF Frame, TypeOK, journal, env
  <2>3. pc'[r] = "ready"
    BY <2>1 DEF TypeOK
  <2> QED
    BY <2>2, <2>3, IdlePass, OnlyOne
<1>2. ASSUME NEW r \in Runs, Cancel(r) PROVE Passes'
  <2>1. \A s \in Runs \ {r} : Frame(s)
    BY <1>2 DEF Cancel, Frame, TypeOK, journal
  <2>2. PassOf(r)'
    BY <1>2 DEF Cancel, Passes, PassOf, TypeOK, journal, Unverified, Entries, InPass, Busy
  <2> QED
    BY <2>1, <2>2, OnlyOne
<1>3. ASSUME NEW r \in Runs, Prepare(r) PROVE Passes'
  <2>1. \A s \in Runs \ {r} : Frame(s)
    BY <1>3 DEF Prepare, Settle, WriteJournal, Frame, TypeOK, journal, env
  <2>2. PassOf(r)'
    <3>1. CASE Conflicts(r) # {}
      <4>1. pc'[r] = "done"
        BY <1>3, <3>1 DEF Prepare, TypeOK
      <4> QED
        BY <4>1, IdlePass
    <3>2. CASE Conflicts(r) = {}
      <4>1. /\ pc[r] = "ready" /\ pc' = [pc EXCEPT ![r] = "prepared"] /\ up = "serving"
            /\ WriteJournal(r) /\ UNCHANGED <<status, up>>
        BY <1>3, <3>2 DEF Prepare, env
      <4>2. status[r] = "active" /\ pc'[r] = "prepared"
        BY <4>1 DEF FreshRuns, TypeOK
      <4>3. \A f \in Files : entry'[r][f] # "verified"
        BY <4>1 DEF WriteJournal, TypeOK
      <4> QED
        BY <4>1, <4>2, <4>3 DEF PassOf, Unverified, Entries, InPass, Busy
    <3> QED
      BY <3>1, <3>2
  <2> QED
    BY <2>1, <2>2, OnlyOne
<1>4. ASSUME NEW r \in Runs, Recheck(r) PROVE Passes'
  <2>1. CASE End(r, "integration_blocked") /\ UNCHANGED todo
    BY <1>4, <2>1, EndFrame DEF Recheck, journal, env, Statuses
  <2>2. CASE /\ pc' = [pc EXCEPT ![r] = "loop"]
             /\ todo' = [todo EXCEPT ![r] = Entries(r)]
             /\ UNCHANGED <<status, lock>>
    <3>1. \A s \in Runs \ {r} : Frame(s)
      BY <1>4, <2>2 DEF Recheck, Frame, TypeOK, journal, env
    <3>2. PassOf(r)'
      BY <1>4, <2>2
      DEF Recheck, Passes, PassOf, TypeOK, journal, env, Unverified, Entries, InPass, Busy
    <3> QED
      BY <3>1, <3>2, OnlyOne
  <2> QED
    BY <1>4, <2>1, <2>2 DEF Recheck
<1>5. ASSUME NEW r \in Runs, NextEntry(r) PROVE Passes'
  <2>1. CASE End(r, "integration_blocked")
    BY <1>5, <2>1, EndFrame DEF NextEntry, journal, env, Statuses
  <2>2. CASE pc' = [pc EXCEPT ![r] = "apply"] /\ UNCHANGED <<status, lock>>
    <3>1. \A s \in Runs \ {r} : Frame(s)
      BY <1>5, <2>2 DEF NextEntry, Frame, TypeOK, journal, env
    <3>2. PassOf(r)'
      BY <1>5, <2>2
      DEF NextEntry, Passes, PassOf, TypeOK, journal, env, Unverified, Entries, InPass, Busy
    <3> QED
      BY <3>1, <3>2, OnlyOne
  <2> QED
    BY <1>5, <2>1, <2>2 DEF NextEntry
<1>6. ASSUME NEW r \in Runs, Remove(r) \/ Install(r) PROVE Passes'
  <2>1. /\ pc[r] \in {"apply", "install"} /\ pc' \in [Runs -> PCs]
        /\ pc'[r] \in {"install", "verify"}
        /\ \A s \in Runs \ {r} : pc'[s] = pc[s]
        /\ UNCHANGED <<status, journal, todo, env>>
    BY <1>6 DEF Remove, Install, TypeOK, PCs
  <2>2. \A s \in Runs \ {r} : Frame(s)
    BY <2>1 DEF Frame, journal, env
  <2>3. PassOf(r)'
    BY <2>1 DEF Passes, PassOf, journal, env, Unverified, Entries, InPass, Busy
  <2> QED
    BY <2>2, <2>3, OnlyOne
<1>7. ASSUME NEW r \in Runs, Verify(r) PROVE Passes'
  <2> DEFINE f == First(todo[r])
  <2>1. f \in todo[r] /\ f \in Files
    BY <1>7, FirstTodo DEF Verify, Passes, PassOf, InPass
  <2>2. \A s \in Runs \ {r} : entry'[s] = entry[s]
    BY <1>7 DEF Verify, TypeOK
  <2>3. CASE Classify(r, f) = "completed"
    <3>1. /\ entry' = [entry EXCEPT ![r][f] = "verified"] /\ pc[r] = "verify"
          /\ pc' = [pc EXCEPT ![r] = "loop"] /\ todo' = [todo EXCEPT ![r] = @ \ {f}]
          /\ UNCHANGED <<status, env>>
      BY <1>7, <2>3 DEF Verify
    <3>2. \A s \in Runs \ {r} : Frame(s)
      BY <2>2, <3>1 DEF Frame, TypeOK, env
    <3>3. Unverified(r)' = Unverified(r) \ {f}
      BY <2>1, <3>1 DEF Unverified, Entries, TypeOK
    <3>4. pc'[r] = "loop" /\ todo'[r] = todo[r] \ {f}
      BY <3>1 DEF TypeOK
    <3>5. PassOf(r)'
      BY <3>1, <3>3, <3>4 DEF Passes, PassOf, env, InPass, Busy
    <3> QED
      BY <3>2, <3>5, OnlyOne
  <2>4. CASE Classify(r, f) # "completed"
    BY <1>7, <2>2, <2>4, EndFrame DEF Verify, env, Statuses
  <2> QED
    BY <2>3, <2>4
<1>8. ASSUME NEW r \in Runs, Finish(r) \/ ResumeFinish(r) PROVE Passes'
  <2>1. \A s \in Runs \ {r} : entry'[s] = entry[s]
    BY <1>8 DEF Finish, ResumeFinish, DropJournal, TypeOK, journal
  <2> QED
    BY <1>8, <2>1, EndFrame DEF Finish, ResumeFinish, env, Statuses
<1>9. ASSUME NEW r \in Runs, Reconcile(r) PROVE Passes'
  <2>1. \A s \in Runs \ {r} : Frame(s)
    BY <1>9 DEF Reconcile, ReconcileFinished, ReconcileCompleted, ReconcileDiverged, Resume,
                DropJournal, Frame, TypeOK, journal
  <2>2. CASE Resume(r) /\ status[r] \notin Finished
    <3>1. pc'[r] = "loop" /\ todo'[r] = Unverified(r) /\ UNCHANGED <<entry, status>>
      BY <2>2 DEF Resume, TypeOK, Unverified, journal
    <3>2. Unverified(r)' = Unverified(r)
      BY <3>1 DEF Unverified, Entries
    <3>3. up = "recovering" /\ up' = up
      BY <1>9 DEF Reconcile
    <3>4. PassOf(r)'
      BY <2>2, <3>1, <3>2, <3>3 DEF PassOf, InPass, Busy, Finished
    <3> QED
      BY <2>1, <3>4, OnlyOne
  <2>3. CASE UNCHANGED pc
    <3>1. ~Busy(r)'
      BY <1>9, <2>3 DEF Reconcile, Busy
    <3>2. PassOf(r)'
      BY <3>1 DEF PassOf, Busy, InPass
    <3> QED
      BY <2>1, <3>2, OnlyOne
  <2> QED
    BY <1>9, <2>2, <2>3
    DEF Reconcile, ReconcileFinished, ReconcileCompleted, ReconcileDiverged
<1>10. ASSUME NEW r \in Runs, ResumeEntry(r) PROVE Passes'
  <2> DEFINE f == First(todo[r])
  <2>1. /\ up = "recovering" /\ up' = up /\ pc[r] = "loop" /\ todo[r] # {}
        /\ UNCHANGED <<journal, cancelled>>
    BY <1>10 DEF ResumeEntry, env
  <2>2. CASE End(r, "integration_blocked") /\ UNCHANGED todo
    BY <2>1, <2>2, EndFrame DEF journal, Statuses
  <2>3. CASE todo' = [todo EXCEPT ![r] = @ \ {f}] /\ UNCHANGED <<status, pc, lock>>
    <3>1. \A s \in Runs \ {r} : Frame(s)
      BY <2>1, <2>3 DEF Frame, TypeOK, journal
    <3>2. PassOf(r)'
      BY <2>1, <2>3
      DEF Passes, PassOf, TypeOK, journal, Unverified, Entries, InPass, Busy
    <3> QED
      BY <3>1, <3>2, OnlyOne
  <2>4. CASE pc' = [pc EXCEPT ![r] = "apply"] /\ UNCHANGED <<status, todo, lock>>
    <3>1. \A s \in Runs \ {r} : Frame(s)
      BY <2>1, <2>4 DEF Frame, TypeOK, journal
    <3>2. PassOf(r)'
      BY <2>1, <2>4
      DEF Passes, PassOf, TypeOK, journal, Unverified, Entries, InPass, Busy
    <3> QED
      BY <3>1, <3>2, OnlyOne
  <2> QED
    BY <1>10, <2>2, <2>3, <2>4 DEF ResumeEntry
<1>11. CASE Crash
  <2>1. \A r \in Runs : pc'[r] \in {"new", "ready", "done"}
    BY <1>11 DEF Crash, TypeOK, PCs, Busy
  <2> QED
    BY <2>1, IdlePass DEF Passes
<1>12. CASE Restart \/ Serve
  <2>1. UNCHANGED pc /\ \A r \in Runs : ~Busy(r)
    BY <1>12 DEF Restart, Serve, Passes, PassOf, runVars
  <2> QED
    BY <2>1 DEF Passes, PassOf, Busy, InPass
<1>13. ASSUME UNCHANGED <<runVars, up, cancelled>> PROVE Passes'
  BY <1>13, PassFrame DEF runVars, journal, Passes, Frame
<1> QED
  BY <1>1, <1>2, <1>3, <1>4, <1>5, <1>6, <1>7, <1>8, <1>9, <1>10, <1>11, <1>12, <1>13
  DEF Next, IntegrationStep, Edit, vars, env

LEMMA PubInvHolds == Spec => []PubInv
<1>1. PubInv /\ [Next]_vars => PubInv'
  BY TypeStep, LockStep, FreshStep, PassStep DEF PubInv
<1> QED
  BY PubInitInv, <1>1, PTL DEF Spec

\* Every variable has its type.
THEOREM PubTypeCorrect == Spec => []TypeOK
<1>1. PubInv => TypeOK
  BY DEF PubInv
<1> QED
  BY PubInvHolds, <1>1, PTL

-----------------------------------------------------------------------------
(* The refinement. *)

LEMMA OwedTyped == PubInv' => Owed' \in [Runs -> SUBSET Files]
  BY DEF PubInv, TypeOK, Owed, Unverified, Entries

\* A step that leaves the journal, the place and the pass of a run alone
\* leaves what it owes alone.
Still(s) == pc'[s] = pc[s] /\ todo'[s] = todo[s] /\ entry'[s] = entry[s]

LEMMA OwedStill ==
  ASSUME NEW s \in Runs, Still(s)
  PROVE  Owed'[s] = Owed[s]
  BY DEF Still, Owed, InPass, Unverified, Entries

LEMMA OwedOne ==
  ASSUME NEW r \in Runs, \A s \in Runs \ {r} : Still(s), NEW S, Owed'[r] = S
  PROVE  Owed' = [Owed EXCEPT ![r] = S]
<1>1. \A s \in Runs \ {r} : Owed'[s] = Owed[s]
  BY OwedStill
<1> QED
  BY <1>1 DEF Owed

LEMMA OwedSame ==
  ASSUME \A s \in Runs : Owed'[s] = Owed[s]
  PROVE  Owed' = Owed
  BY DEF Owed

LEMMA OutcomeOne ==
  ASSUME PubInv, NEW r \in Runs, NEW to, status' = [status EXCEPT ![r] = to]
  PROVE  Outcome' = [Outcome EXCEPT ![r] = OutcomeOf(to)]
  BY DEF PubInv, TypeOK, Outcome

LEMMA OutcomeSame ==
  ASSUME status' = status
  PROVE  Outcome' = Outcome
  BY DEF Outcome

\* An integration that ends without completing its run stops in the abstract.
LEMMA EndStops ==
  ASSUME PubInv, PubInv', NEW r \in Runs, Busy(r), End(r, "integration_blocked"),
         UNCHANGED <<source, used>>,
         UNCHANGED todo, \A s \in Runs \ {r} : entry'[s] = entry[s],
         Unverified(r) \subseteq Unverified(r)'
  PROVE  Serial!Stop(r)
<1>1. lock = r /\ lock' = NoRun
  BY DEF PubInv, LockHolder, End
<1>2. \E o \in {"blocked", "cancelled"} : Serial!Becomes(r, o)
  <2>1. CASE r \in cancelled
    <3>1. Outcome' = [Outcome EXCEPT ![r] = "cancelled"]
      BY <2>1, OutcomeOne DEF End, Settle, OutcomeOf
    <3>2. Outcome[r] # "published"
      BY DEF PubInv, Passes, PassOf, Outcome, OutcomeOf
    <3> QED
      BY <3>1, <3>2 DEF Serial!Becomes, Serial!Final
  <2>2. CASE r \notin cancelled
    <3>1. Outcome' = [Outcome EXCEPT ![r] = "blocked"]
      BY <2>2, OutcomeOne DEF End, Settle, OutcomeOf
    <3>2. Outcome[r] \notin {"published", "cancelled"}
      BY <2>2 DEF PubInv, Passes, PassOf, Outcome, OutcomeOf
    <3> QED
      BY <3>1, <3>2 DEF Serial!Becomes, Serial!Final
  <2> QED
    BY <2>1, <2>2
<1>3. Serial!OwesMore
  <2>1. \A s \in Runs \ {r} : Owed'[s] = Owed[s]
    BY OwedStill DEF Still, End, PubInv, TypeOK
  <2>2. Owed[r] \subseteq Owed'[r]
    <3>1. pc'[r] = "done"
      BY DEF End, PubInv, TypeOK
    <3>2. Owed'[r] = Unverified(r)'
      BY <3>1 DEF Owed, InPass
    <3>3. Owed[r] \subseteq Unverified(r)
      BY DEF Owed, PubInv, Passes, PassOf
    <3> QED
      BY <3>2, <3>3
  <2>3. Owed' \in [Runs -> SUBSET Files]
    BY OwedTyped
  <2> QED
    BY <2>1, <2>2, <2>3 DEF Serial!OwesMore
<1> QED
  BY <1>1, <1>2, <1>3 DEF Serial!Stop

LEMMA RefineInit == Init => Serial!SpInit
<1> SUFFICES ASSUME Init PROVE Serial!SpInit
  OBVIOUS
<1>1. Owed = [r \in Runs |-> {}]
  BY DEF Init, Owed, InPass, Unverified, Entries
<1>2. Outcome = [r \in Runs |-> "open"]
  BY DEF Init, Outcome, OutcomeOf
<1>3. source \in [Files -> Metas]
  BY PubMetasAssumption DEF Init
<1> QED
  BY <1>1, <1>2, <1>3 DEF Init, Serial!SpInit

LEMMA RefineStep ==
  ASSUME PubInv, PubInv', [Next]_vars
  PROVE  [Serial!SpNext]_(Serial!spVars)
<1> DEFINE Goal == [Serial!SpNext]_(Serial!spVars)
<1> USE DEF Serial!SpNext, Serial!spVars
<1>1. ASSUME NEW r \in Runs, Capture(r) PROVE Goal
  <2>1. Owed' = Owed
    <3>1. \A s \in Runs \ {r} : Still(s)
      BY <1>1 DEF Capture, Still, PubInv, TypeOK, journal
    <3>2. Owed'[r] = Owed[r]
      BY <1>1 DEF Capture, PubInv, TypeOK, journal, Owed, InPass, Unverified, Entries
    <3> QED
      BY <3>1, <3>2, OwedStill, OwedSame
  <2>2. Outcome' = Outcome
    BY <1>1 DEF Capture, PubInv, TypeOK, FreshRuns, Outcome, OutcomeOf
  <2> QED
    BY <1>1, <2>1, <2>2 DEF Capture, env
<1>2. ASSUME NEW r \in Runs, Cancel(r) PROVE Goal
  <2>1. Owed' = Owed
    <3>1. \A s \in Runs \ {r} : Still(s)
      BY <1>2 DEF Cancel, Still, PubInv, TypeOK, journal
    <3>2. Owed'[r] = Owed[r]
      BY <1>2 DEF Cancel, PubInv, TypeOK, journal, Owed, InPass, Unverified, Entries
    <3> QED
      BY <3>1, <3>2, OwedStill, OwedSame
  <2>2. Serial!Becomes(r, "cancelled")
    <3>1. Outcome' = [Outcome EXCEPT ![r] = "cancelled"]
      BY <1>2, OutcomeOne DEF Cancel, OutcomeOf
    <3>2. Outcome[r] # "published"
      BY <1>2 DEF Cancel, Outcome, OutcomeOf
    <3> QED
      BY <3>1, <3>2 DEF Serial!Becomes, Serial!Final
  <2>3. UNCHANGED <<source, lock, used.edits>>
    BY <1>2 DEF Cancel, PubInv, TypeOK
  <2> QED
    BY <2>1, <2>2, <2>3 DEF Serial!Withdraw
<1>3. ASSUME NEW r \in Runs, Prepare(r) PROVE Goal
  <2>1. lock = NoRun /\ pc[r] = "ready" /\ r \notin cancelled /\ UNCHANGED <<source, used>>
    BY <1>3 DEF Prepare, env
  <2>2. Owed[r] = {} /\ Outcome[r] = "open"
    BY <2>1 DEF PubInv, FreshRuns, Owed, InPass, Unverified, Entries, Outcome, OutcomeOf
  <2>3. \A s \in Runs \ {r} : Still(s)
    BY <1>3 DEF Prepare, WriteJournal, Still, PubInv, TypeOK, journal
  <2>4. CASE Conflicts(r) # {}
    <3>1. /\ status' = [status EXCEPT ![r] = "integration_blocked"]
          /\ pc' = [pc EXCEPT ![r] = "done"] /\ UNCHANGED <<journal, todo, lock>>
      BY <1>3, <2>1, <2>4 DEF Prepare, Settle
    <3>2. Owed'[r] = {}
      BY <2>1, <3>1 DEF PubInv, TypeOK, FreshRuns, Owed, InPass, Unverified, Entries, journal
    <3>3. Owed' = Owed
      BY <2>2, <2>3, <3>2, OwedStill, OwedSame
    <3>4. Serial!Becomes(r, "blocked")
      BY <2>2, <3>1, OutcomeOne DEF Serial!Becomes, Serial!Final, OutcomeOf
    <3> QED
      BY <2>1, <2>2, <3>1, <3>3, <3>4 DEF Serial!Refuse
  <2>5. CASE Conflicts(r) = {}
    <3>1. lock' = r /\ status' = status
      BY <1>3, <2>5 DEF Prepare
    <3>2. Owed' = [Owed EXCEPT ![r] = Owed'[r]]
      BY <2>3, OwedOne
    <3>3. Owed'[r] \in SUBSET Files
      BY OwedTyped
    <3>4. Outcome' = Outcome
      BY <3>1, OutcomeSame
    <3> QED
      BY <2>1, <2>2, <3>1, <3>2, <3>3, <3>4 DEF Serial!Begin
  <2> QED
    BY <2>4, <2>5
<1>4. ASSUME NEW r \in Runs, Recheck(r) PROVE Goal
  <2>1. pc[r] = "prepared" /\ UNCHANGED <<source, used, journal>>
    BY <1>4 DEF Recheck, env
  <2>2. CASE End(r, "integration_blocked") /\ UNCHANGED todo
    <3>1. Serial!Stop(r)
      BY <2>1, <2>2, EndStops DEF Busy, journal, Unverified, Entries
    <3> QED
      BY <3>1
  <2>3. CASE /\ pc' = [pc EXCEPT ![r] = "loop"]
             /\ todo' = [todo EXCEPT ![r] = Entries(r)]
             /\ UNCHANGED <<status, lock>>
    <3>1. \A s \in Runs \ {r} : Still(s)
      BY <2>1, <2>3 DEF Still, PubInv, TypeOK, journal
    <3>2. Owed'[r] = Owed[r]
      BY <2>1, <2>3 DEF PubInv, TypeOK, Passes, PassOf, Owed, InPass
    <3>3. Owed' = Owed
      BY <3>1, <3>2, OwedStill, OwedSame
    <3>4. Outcome' = Outcome
      BY <2>3, OutcomeSame
    <3> QED
      BY <2>1, <2>3, <3>3, <3>4
  <2> QED
    BY <1>4, <2>2, <2>3 DEF Recheck
<1>5. ASSUME NEW r \in Runs, NextEntry(r) PROVE Goal
  <2>1. pc[r] = "loop" /\ UNCHANGED <<source, used, journal, todo>>
    BY <1>5 DEF NextEntry, env
  <2>2. CASE End(r, "integration_blocked")
    <3>1. Serial!Stop(r)
      BY <2>1, <2>2, EndStops DEF Busy, journal, Unverified, Entries
    <3> QED
      BY <3>1
  <2>3. CASE pc' = [pc EXCEPT ![r] = "apply"] /\ UNCHANGED <<status, lock>>
    <3>1. \A s \in Runs : Owed'[s] = Owed[s]
      BY <2>1, <2>3 DEF PubInv, TypeOK, Owed, InPass, Unverified, Entries, journal
    <3> QED
      BY <2>1, <2>3, <3>1, OwedSame, OutcomeSame
  <2> QED
    BY <1>5, <2>2, <2>3 DEF NextEntry
<1>6. ASSUME NEW r \in Runs, Remove(r) \/ Install(r) PROVE Goal
  <2> DEFINE f == First(todo[r])
  <2>1. f \in todo[r] /\ f \in Files
    BY <1>6, FirstTodo DEF Remove, Install, PubInv, Passes, PassOf, InPass
  <2>2. \E m \in Metas : source' = [source EXCEPT ![f] = m]
    <3>1. Missing \in Metas /\ After(r, f) \in Metas
      BY <2>1, PubMetasAssumption DEF PubInv, TypeOK, Trees, After
    <3>2. \/ source' = [source EXCEPT ![f] = Missing]
          \/ source' = [source EXCEPT ![f] = After(r, f)]
      BY <1>6 DEF Remove, Install
    <3> QED
      BY <3>1, <3>2
  <2>3. f \in Owed[r] /\ lock = r
    BY <1>6, <2>1 DEF Remove, Install, Owed, InPass, PubInv, LockHolder, Busy
  <2>4. \A s \in Runs : Owed'[s] = Owed[s]
    <3>1. /\ pc[r] \in {"apply", "install"} /\ pc'[r] \in {"install", "verify"}
          /\ UNCHANGED <<todo, entry>>
      BY <1>6 DEF Remove, Install, PubInv, TypeOK, journal
    <3>2. Owed'[r] = Owed[r]
      BY <3>1 DEF Owed, InPass
    <3>3. \A s \in Runs \ {r} : Still(s)
      BY <1>6, <3>1 DEF Remove, Install, Still, PubInv, TypeOK
    <3> QED
      BY <3>2, <3>3, OwedStill
  <2>5. UNCHANGED <<lock, status, used>>
    BY <1>6 DEF Remove, Install, env
  <2> HIDE DEF f
  <2> QED
    BY <2>2, <2>3, <2>4, <2>5, OwedSame, OutcomeSame DEF Serial!Write
<1>7. ASSUME NEW r \in Runs, Verify(r) PROVE Goal
  <2> DEFINE f == First(todo[r])
  <2>1. f \in todo[r] /\ f \in Files /\ pc[r] = "verify" /\ UNCHANGED <<source, used>>
    BY <1>7, FirstTodo DEF Verify, PubInv, Passes, PassOf, InPass, env
  <2>2. CASE Classify(r, f) = "completed"
    <3>1. /\ entry' = [entry EXCEPT ![r][f] = "verified"]
          /\ pc' = [pc EXCEPT ![r] = "loop"] /\ todo' = [todo EXCEPT ![r] = @ \ {f}]
          /\ UNCHANGED <<status, lock>>
      BY <1>7, <2>2 DEF Verify
    <3>2. \A s \in Runs \ {r} : Still(s)
      BY <3>1 DEF Still, PubInv, TypeOK
    <3>3. Owed'[r] = Owed[r] \ {f}
      BY <2>1, <3>1 DEF PubInv, TypeOK, Owed, InPass
    <3>4. f \in Owed[r] /\ lock = r
      BY <2>1 DEF Owed, InPass, PubInv, LockHolder, Busy
    <3>5. Owed' = [Owed EXCEPT ![r] = @ \ {f}]
      BY <3>2, <3>3, OwedOne
    <3> HIDE DEF f
    <3> QED
      BY <2>1, <3>1, <3>4, <3>5, OutcomeSame DEF Serial!SeeInPlace
  <2>3. CASE Classify(r, f) # "completed"
    <3>1. End(r, "integration_blocked") /\ UNCHANGED todo
          /\ entry' = [entry EXCEPT ![r][f] = "failed"]
      BY <1>7, <2>3 DEF Verify
    <3>2. \A s \in Runs \ {r} : entry'[s] = entry[s]
      BY <3>1 DEF PubInv, TypeOK
    <3>3. Unverified(r) \subseteq Unverified(r)'
      BY <2>1, <3>1 DEF PubInv, TypeOK, Unverified, Entries
    <3>4. Serial!Stop(r)
      BY <2>1, <3>1, <3>2, <3>3, EndStops DEF Busy
    <3> QED
      BY <3>4
  <2> QED
    BY <2>2, <2>3
<1>8. ASSUME NEW r \in Runs, Finish(r) \/ ResumeFinish(r) PROVE Goal
  <2>1. /\ pc[r] = "loop" /\ todo[r] = {} /\ End(r, "complete")
        /\ UNCHANGED <<source, used, todo>>
    BY <1>8 DEF Finish, ResumeFinish, env
  <2>2. lock = r /\ lock' = NoRun
    BY <2>1 DEF PubInv, LockHolder, Busy, End
  <2>3. Owed[r] = {}
    BY <2>1 DEF Owed, InPass
  <2>4. Owed'[r] = {}
    <3>1. pc'[r] = "done"
      BY <2>1 DEF End, PubInv, TypeOK
    <3>2. Unverified(r)' = {}
      <4>1. CASE Finish(r)
        BY <2>1, <4>1 DEF Finish, PubInv, Passes, PassOf, InPass, Unverified, Entries, journal
      <4>2. CASE ResumeFinish(r)
        BY <4>2 DEF ResumeFinish, DropJournal, PubInv, TypeOK, Unverified, Entries
      <4> QED
        BY <1>8, <4>1, <4>2
    <3> QED
      BY <3>1, <3>2 DEF Owed, InPass
  <2>5. Owed' = Owed
    <3>1. \A s \in Runs \ {r} : Still(s)
      BY <1>8, <2>1 DEF Finish, ResumeFinish, DropJournal, End, Still, PubInv, TypeOK, journal
    <3> QED
      BY <2>3, <2>4, <3>1, OwedStill, OwedSame
  <2>6. CASE r \in cancelled
    <3>1. Outcome' = [Outcome EXCEPT ![r] = "cancelled"]
      BY <2>1, <2>6, OutcomeOne DEF End, Settle, OutcomeOf
    <3>2. Outcome[r] # "published"
      BY <2>1 DEF PubInv, Passes, PassOf, Busy, Outcome, OutcomeOf
    <3>3. Serial!Becomes(r, "cancelled")
      BY <3>1, <3>2 DEF Serial!Becomes, Serial!Final
    <3>4. Serial!OwesMore
      BY <2>5, OwedTyped DEF Serial!OwesMore
    <3> QED
      BY <2>1, <2>2, <3>3, <3>4 DEF Serial!Stop
  <2>7. CASE r \notin cancelled
    <3>1. Outcome' = [Outcome EXCEPT ![r] = "published"]
      BY <2>1, <2>7, OutcomeOne DEF End, Settle, OutcomeOf
    <3>2. Outcome[r] # "cancelled"
      BY <2>1, <2>7 DEF PubInv, Passes, PassOf, Busy, Outcome, OutcomeOf
    <3>3. Serial!Becomes(r, "published")
      BY <3>1, <3>2 DEF Serial!Becomes, Serial!Final
    <3> QED
      BY <2>1, <2>2, <2>3, <2>5, <3>3 DEF Serial!Publish
  <2> QED
    BY <2>6, <2>7
<1>9. ASSUME NEW r \in Runs, Reconcile(r) PROVE Goal
  <2>1. lock = NoRun /\ UNCHANGED <<source, used>> /\ \A s \in Runs : ~Busy(s)
    BY <1>9 DEF Reconcile, PubInv, TypeOK, LockHolder
  <2>2. \A s \in Runs \ {r} : Still(s)
    BY <1>9 DEF Reconcile, ReconcileFinished, ReconcileCompleted, ReconcileDiverged, Resume,
                DropJournal, Still, PubInv, TypeOK, journal
  <2>3. ASSUME DropJournal(r), UNCHANGED pc PROVE Owed' = [Owed EXCEPT ![r] = {}]
    <3>1. Owed'[r] = {}
      BY <2>1, <2>3 DEF DropJournal, PubInv, TypeOK, Owed, InPass, Busy, Unverified, Entries
    <3> QED
      BY <2>2, <3>1, OwedOne
  <2>4. CASE ReconcileFinished(r)
    <3>1. Outcome[r] \in {"published", "cancelled"}
      BY <2>4 DEF ReconcileFinished, Finished, Outcome, OutcomeOf
    <3> QED
      BY <2>1, <2>3, <2>4, <3>1, OutcomeSame
      DEF ReconcileFinished, Serial!Settled, Serial!Final
  <2>5. CASE status[r] \notin Finished /\ ReconcileCompleted(r)
    <3>1. Serial!Becomes(r, "published")
      BY <2>5, OutcomeOne
      DEF ReconcileCompleted, Serial!Becomes, Serial!Final, Finished, Outcome, OutcomeOf
    <3> QED
      BY <2>1, <2>3, <2>5, <3>1 DEF ReconcileCompleted, Serial!Settled
  <2>6. CASE status[r] \notin Finished /\ ReconcileDiverged(r)
    <3>1. Serial!Becomes(r, "blocked")
      BY <2>6, OutcomeOne
      DEF ReconcileDiverged, Serial!Becomes, Serial!Final, Finished, Outcome, OutcomeOf
    <3>2. Still(r)
      BY <2>6 DEF ReconcileDiverged, Still, journal
    <3>3. Owed' = Owed
      BY <2>2, <3>2, OwedStill, OwedSame
    <3> QED
      BY <2>1, <2>6, <3>1, <3>3 DEF ReconcileDiverged, Serial!Settled
  <2>7. CASE status[r] \notin Finished /\ Resume(r)
    <3>1. Owed'[r] = Owed[r]
      BY <2>1, <2>7 DEF Resume, PubInv, TypeOK, Owed, InPass, Busy, Unverified
    <3>2. Owed' = Owed
      BY <2>2, <3>1, OwedStill, OwedSame
    <3>3. Outcome[r] \notin {"published", "cancelled"}
      BY <2>7 DEF Finished, Outcome, OutcomeOf
    <3>4. lock' = r /\ Outcome' = Outcome
      BY <2>7, OutcomeSame DEF Resume
    <3> QED
      BY <2>1, <3>2, <3>3, <3>4 DEF Serial!TakeUp, Serial!Final
  <2> QED
    BY <1>9, <2>4, <2>5, <2>6, <2>7 DEF Reconcile
<1>10. ASSUME NEW r \in Runs, ResumeEntry(r) PROVE Goal
  <2> DEFINE f == First(todo[r])
  <2>1. /\ f \in todo[r] /\ f \in Files /\ pc[r] = "loop"
        /\ UNCHANGED <<source, used, journal>>
    BY <1>10, FirstTodo DEF ResumeEntry, InPass, env
  <2>2. CASE End(r, "integration_blocked") /\ UNCHANGED todo
    <3>1. Serial!Stop(r)
      BY <2>1, <2>2, EndStops DEF Busy, journal, Unverified, Entries
    <3> QED
      BY <3>1
  <2>3. CASE todo' = [todo EXCEPT ![r] = @ \ {f}] /\ UNCHANGED <<status, pc, lock>>
    <3>1. \A s \in Runs \ {r} : Still(s)
      BY <2>1, <2>3 DEF Still, PubInv, TypeOK, journal
    <3>2. Owed'[r] = Owed[r] \ {f}
      BY <2>1, <2>3 DEF PubInv, TypeOK, Owed, InPass
    <3>3. f \in Owed[r] /\ lock = r
      BY <2>1 DEF Owed, InPass, PubInv, LockHolder, Busy
    <3>4. Owed' = [Owed EXCEPT ![r] = @ \ {f}]
      BY <3>1, <3>2, OwedOne
    <3> HIDE DEF f
    <3> QED
      BY <2>1, <2>3, <3>3, <3>4, OutcomeSame DEF Serial!SeeInPlace
  <2>4. CASE pc' = [pc EXCEPT ![r] = "apply"] /\ UNCHANGED <<status, todo, lock>>
    <3>1. \A s \in Runs : Owed'[s] = Owed[s]
      BY <2>1, <2>4 DEF PubInv, TypeOK, Owed, InPass, Unverified, Entries, journal
    <3> QED
      BY <2>1, <2>4, <3>1, OwedSame, OutcomeSame
  <2> QED
    BY <1>10, <2>2, <2>3, <2>4 DEF ResumeEntry
<1>11. ASSUME NEW f \in Files, Edit(f) PROVE Goal
  <2>1. \E m \in Metas : source' = [source EXCEPT ![f] = m]
    BY <1>11, PubMetasAssumption DEF Edit
  <2>2. used'.edits = used.edits + 1
    BY <1>11 DEF Edit, PubInv, TypeOK
  <2>3. UNCHANGED <<lock, Owed, Outcome>>
    BY <1>11 DEF Edit, runVars, journal, Owed, InPass, Unverified, Entries, Outcome
  <2> QED
    BY <2>1, <2>2, <2>3 DEF Serial!Edited
<1>12. CASE Crash
  <2>1. Outcome' = Outcome /\ lock' = NoRun /\ UNCHANGED source /\ used'.edits = used.edits
    BY <1>12, OutcomeSame DEF Crash, PubInv, TypeOK
  <2>2. \A r \in Runs : Owed[r] \subseteq Owed'[r]
    <3> TAKE r \in Runs
    <3>1. Owed'[r] = Unverified(r)
      BY <1>12 DEF Crash, PubInv, TypeOK, PCs, Busy, Owed, InPass, Unverified, Entries, journal
    <3>2. Owed[r] \subseteq Unverified(r)
      BY DEF PubInv, Passes, PassOf, Owed
    <3> QED
      BY <3>1, <3>2
  <2>3. Serial!OwesMore
    BY <2>2, OwedTyped DEF Serial!OwesMore
  <2> QED
    BY <2>1, <2>3 DEF Serial!Interrupt
<1>13. ASSUME UNCHANGED <<source, runVars, lock, used>> PROVE Goal
  BY <1>13 DEF runVars, journal, Owed, InPass, Unverified, Entries, Outcome
<1> QED
  BY <1>1, <1>2, <1>3, <1>4, <1>5, <1>6, <1>7, <1>8, <1>9, <1>10, <1>11, <1>12, <1>13
  DEF Next, IntegrationStep, Restart, Serve, vars, env

\* Publications are serial: whatever a run, the user, a client or a crash
\* does is a step of SerialPublication, or none.
THEOREM PublicationIsSerial == Spec => ImplementsSerialPublication
<1>1. PubInv /\ PubInv' /\ [Next]_vars => [Serial!SpNext]_(Serial!spVars)
  BY RefineStep
<1> QED
  BY RefineInit, PubInvHolds, <1>1, PTL DEF Spec, ImplementsSerialPublication, Serial!SpSpec

-----------------------------------------------------------------------------
(* What the code promises of contents it can keep only if nobody edits     *)
(* files while they are being written and if hashes tell files apart.      *)

HashesTell == \A m, n \in Metas \ {Missing} : m.hash = n.hash => m = n

LEMMA HashesExact ==
  ASSUME HashesTell, TypeOK, NEW r \in Runs, NEW f \in Files
  PROVE  /\ Classify(r, f) = "completed" => source[f] = After(r, f)
         /\ Classify(r, f) = "incomplete" => source[f] = Before(r, f)
         /\ Unchanged(r, f) => source[f] = Before(r, f)
<1>1. source[f] \in Metas /\ After(r, f) \in Metas /\ Before(r, f) \in Metas
  BY DEF TypeOK, Trees, After, Before
<1>2. Unchanged(r, f) => source[f] = Before(r, f)
  BY <1>1 DEF Unchanged, HashesTell
<1>3. Classify(r, f) = "completed" => source[f] = After(r, f)
  BY <1>1 DEF Classify, HashesTell
<1>4. Classify(r, f) = "incomplete" => source[f] = Before(r, f)
  BY <1>1 DEF Classify, HashesTell
<1> QED
  BY <1>2, <1>3, <1>4

\* What a pass knows of the files: those it has still to visit are as the
\* run found them; the one in hand was so, or has just been removed; those
\* recovery has passed over are as the run left them.
Knows(r) ==
  /\ InPass(r) /\ up = "serving" =>
       \A f \in todo[r] : \/ source[f] = Before(r, f)
                          \/ pc[r] \in {"install", "verify"} /\ f = First(todo[r])
  /\ pc[r] = "apply" => source[First(todo[r])] = Before(r, First(todo[r]))
  /\ pc[r] = "install" => source[First(todo[r])] = Missing
  /\ InPass(r) /\ up = "recovering" =>
       \A f \in Unverified(r) \ todo[r] : source[f] = After(r, f)

Undisturbed == \A r \in Runs : Knows(r)

LEMMA KnowsIdle ==
  ASSUME NEW r \in Runs, ~InPass(r)
  PROVE  Knows(r)
  BY DEF Knows, InPass

LEMMA KnowsIdleNext ==
  ASSUME NEW r \in Runs, ~InPass(r)'
  PROVE  Knows(r)'
  BY DEF Knows, InPass

\* Only one run is in a pass, so that only its knowledge is at stake.
LEMMA OnlyItKnows ==
  ASSUME PubInv', NEW r \in Runs, lock' = r, Knows(r)'
  PROVE  Undisturbed'
<1>1. \A s \in Runs \ {r} : ~InPass(s)'
  BY DEF PubInv, LockHolder, Busy, InPass
<1> QED
  BY <1>1, KnowsIdleNext DEF Undisturbed

LEMMA NobodyKnows ==
  ASSUME PubInv', lock' = NoRun
  PROVE  Undisturbed'
<1>1. \A s \in Runs : ~InPass(s)'
  BY PubRunsAssumption DEF PubInv, LockHolder, Busy, InPass
<1> QED
  BY <1>1, KnowsIdleNext DEF Undisturbed

LEMMA KnowsStill ==
  ASSUME NEW s \in Runs, Knows(s), Still(s),
         base'[s] = base[s], final'[s] = final[s], source' = source, up' = up
  PROVE  Knows(s)'
  BY DEF Knows, Still, InPass, Unverified, Entries, Before, After

LEMMA UndisturbedStep ==
  ASSUME HashesTell, UserInterferes = FALSE, PubInv, PubInv', Undisturbed, [Next]_vars
  PROVE  Undisturbed'
<1> USE DEF PubInv
<1>1. ASSUME NEW r \in Runs, Capture(r) PROVE Undisturbed'
  <2>1. /\ pc' = [pc EXCEPT ![r] = "ready"] /\ base' = [base EXCEPT ![r] = source]
        /\ \E t \in Trees : final' = [final EXCEPT ![r] = t]
        /\ UNCHANGED <<source, journal, todo, env>>
    BY <1>1 DEF Capture
  <2>2. \A s \in Runs \ {r} : Knows(s)'
    BY <2>1, KnowsStill DEF Undisturbed, Still, TypeOK, journal, env
  <2>3. ~InPass(r)'
    BY <2>1 DEF TypeOK, InPass
  <2> QED
    BY <2>2, <2>3, KnowsIdleNext DEF Undisturbed
<1>2. ASSUME NEW r \in Runs, Cancel(r) PROVE Undisturbed'
  <2>1. \A s \in Runs \ {r} : Knows(s)'
    BY <1>2, KnowsStill DEF Cancel, Undisturbed, Still, TypeOK, journal
  <2>2. CASE pc[r] = "ready"
    <3>1. ~InPass(r)'
      BY <1>2, <2>2 DEF Cancel, TypeOK, InPass
    <3> QED
      BY <2>1, <3>1, KnowsIdleNext DEF Undisturbed
  <2>3. CASE pc[r] # "ready"
    BY <1>2, <2>1, <2>3, KnowsStill DEF Cancel, Undisturbed, Still, TypeOK, journal
  <2> QED
    BY <2>2, <2>3
<1>3. ASSUME NEW r \in Runs, Prepare(r) PROVE Undisturbed'
  <2>1. \A s \in Runs \ {r} : Knows(s)'
    BY <1>3, KnowsStill DEF Prepare, WriteJournal, Undisturbed, Still, TypeOK, journal, env
  <2>2. ~InPass(r)'
    BY <1>3 DEF Prepare, TypeOK, InPass
  <2> QED
    BY <2>1, <2>2, KnowsIdleNext DEF Undisturbed
<1>4. ASSUME NEW r \in Runs, NEW to, End(r, to) PROVE Undisturbed'
  BY <1>4, NobodyKnows DEF End
<1>5. ASSUME NEW r \in Runs, Recheck(r), ~End(r, "integration_blocked") PROVE Undisturbed'
  <2>1. /\ \A f \in Entries(r) : Unchanged(r, f)
        /\ up = "serving" /\ pc[r] = "prepared"
        /\ pc'[r] = "loop" /\ todo'[r] = Entries(r)
        /\ UNCHANGED <<source, base, up, lock>>
    BY <1>5 DEF Recheck, TypeOK, env
  <2>2. \A f \in Entries(r) : source[f] = Before(r, f)
    BY <2>1, HashesExact, EntriesIn
  <2>3. Knows(r)'
    BY <2>1, <2>2 DEF Knows, Before
  <2>4. lock' = r
    BY <2>1 DEF LockHolder, Busy
  <2> QED
    BY <2>3, <2>4, OnlyItKnows
<1>6. ASSUME NEW r \in Runs, NextEntry(r), ~End(r, "integration_blocked") PROVE Undisturbed'
  <2>1. /\ up = "serving" /\ pc[r] = "loop" /\ todo[r] # {} /\ pc'[r] = "apply"
        /\ UNCHANGED <<source, base, todo, up, lock>>
    BY <1>6 DEF NextEntry, TypeOK, env
  <2>2. \A f \in todo[r] : source[f] = Before(r, f)
    BY <2>1 DEF Undisturbed, Knows, InPass
  <2>3. First(todo[r]) \in todo[r]
    BY <2>1, FirstTodo DEF InPass
  <2>4. Knows(r)'
    BY <2>1, <2>2, <2>3 DEF Knows, Before
  <2>5. lock' = r
    BY <2>1 DEF LockHolder, Busy
  <2> QED
    BY <2>4, <2>5, OnlyItKnows
<1>7. ASSUME NEW r \in Runs, Remove(r) \/ Install(r) PROVE Undisturbed'
  <2> DEFINE f == First(todo[r])
  <2>1. f \in todo[r] /\ f \in Files
    BY <1>7, FirstTodo DEF Remove, Install, Passes, PassOf, InPass
  <2>2. /\ pc[r] \in {"apply", "install"} /\ UNCHANGED <<base, final, todo, entry, up, lock>>
        /\ pc'[r] \in {"install", "verify"}
        /\ \A g \in Files \ {f} : source'[g] = source[g]
    BY <1>7 DEF Remove, Install, TypeOK, Trees, env, journal
  <2>3. pc'[r] = "install" => source'[f] = Missing
    BY <1>7, <2>1 DEF Remove, Install, TypeOK, Trees
  <2>4. up = "serving" => \A g \in todo[r] \ {f} : source'[g] = Before(r, g)
    BY <2>1, <2>2 DEF Undisturbed, Knows, InPass, TypeOK
  <2>5. up = "recovering" => \A g \in Unverified(r) \ todo[r] : source'[g] = After(r, g)
    BY <2>1, <2>2 DEF Undisturbed, Knows, InPass, Unverified, Entries
  <2>6. Unverified(r)' = Unverified(r) /\ First(todo[r])' = f
    BY <2>2 DEF Unverified, Entries
  <2>7. Knows(r)'
    <3>1. \A g \in Files : Before(r, g)' = Before(r, g) /\ After(r, g)' = After(r, g)
      BY <2>2 DEF Before, After
    <3>2. Unverified(r) \subseteq Files /\ todo[r] \subseteq Files
      BY EntriesIn DEF Unverified, TypeOK
    <3> HIDE DEF f
    <3> QED
      BY <2>2, <2>3, <2>4, <2>5, <2>6, <3>1, <3>2 DEF Knows, InPass
  <2>8. lock' = r
    BY <2>2 DEF LockHolder, Busy
  <2> QED
    BY <2>7, <2>8, OnlyItKnows
<1>8. ASSUME NEW r \in Runs, Verify(r), ~End(r, "integration_blocked") PROVE Undisturbed'
  <2> DEFINE f == First(todo[r])
  <2>1. f \in todo[r] /\ f \in Files
    BY <1>8, FirstTodo DEF Verify, Passes, PassOf, InPass
  <2>2. /\ pc[r] = "verify" /\ pc'[r] = "loop" /\ todo'[r] = todo[r] \ {f}
        /\ entry' = [entry EXCEPT ![r][f] = "verified"]
        /\ UNCHANGED <<source, base, final, up, lock>>
    BY <1>8 DEF Verify, TypeOK, env
  <2>3. Unverified(r)' = Unverified(r) \ {f}
    BY <2>1, <2>2 DEF Unverified, Entries, TypeOK
  <2> HIDE DEF f
  <2>4. up = "serving" => \A g \in todo[r] \ {f} : source[g] = Before(r, g)
    BY <2>2 DEF Undisturbed, Knows, InPass, f
  <2>5. up = "recovering" => \A g \in Unverified(r) \ todo[r] : source[g] = After(r, g)
    BY <2>2 DEF Undisturbed, Knows, InPass
  <2>6. Knows(r)'
    BY <2>2, <2>3, <2>4, <2>5 DEF Knows, Before, After
  <2>7. lock' = r
    BY <2>2 DEF LockHolder, Busy
  <2> QED
    BY <2>6, <2>7, OnlyItKnows
<1>9. ASSUME NEW r \in Runs, Reconcile(r) PROVE Undisturbed'
  <2>1. up = "recovering" /\ up' = up /\ UNCHANGED <<source, base, final>> /\ lock = NoRun
    BY <1>9 DEF Reconcile, LockHolder, TypeOK
  <2>2. CASE lock' = lock
    BY <2>1, <2>2, NobodyKnows
  <2>3. CASE Resume(r)
    <3>1. pc'[r] = "loop" /\ todo'[r] = Unverified(r) /\ entry' = entry /\ lock' = r
      BY <2>3 DEF Resume, TypeOK, Unverified, journal
    <3>2. Unverified(r)' = Unverified(r)
      BY <3>1 DEF Unverified, Entries
    <3>3. Knows(r)'
      BY <2>1, <3>1, <3>2 DEF Knows
    <3> QED
      BY <3>1, <3>3, OnlyItKnows
  <2> QED
    BY <1>9, <2>2, <2>3
    DEF Reconcile, ReconcileFinished, ReconcileCompleted, ReconcileDiverged
<1>10. ASSUME NEW r \in Runs, ResumeEntry(r), ~End(r, "integration_blocked")
       PROVE  Undisturbed'
  <2> DEFINE f == First(todo[r])
  <2>1. f \in todo[r] /\ f \in Files
    BY <1>10, FirstTodo DEF ResumeEntry, InPass
  <2>2. /\ up = "recovering" /\ pc[r] = "loop"
        /\ UNCHANGED <<source, base, final, entry, up, lock>>
        /\ \/ /\ Classify(r, f) = "completed" /\ pc' = pc
              /\ todo' = [todo EXCEPT ![r] = @ \ {f}]
           \/ /\ Classify(r, f) = "incomplete" /\ todo' = todo
              /\ pc' = [pc EXCEPT ![r] = "apply"]
    BY <1>10 DEF ResumeEntry, env, journal
  <2>3. Unverified(r)' = Unverified(r)
    BY <2>2 DEF Unverified, Entries
  <2>4. \A g \in Unverified(r) \ todo[r] : source[g] = After(r, g)
    BY <2>2 DEF Undisturbed, Knows, InPass
  <2>5. CASE Classify(r, f) = "completed" /\ pc' = pc /\ todo' = [todo EXCEPT ![r] = @ \ {f}]
    <3>1. source[f] = After(r, f)
      BY <2>1, <2>5, HashesExact
    <3>2. todo'[r] = todo[r] \ {f} /\ pc'[r] = "loop"
      BY <2>2, <2>5 DEF TypeOK
    <3> HIDE DEF f
    <3> QED
      <4>1. Knows(r)'
        BY <2>2, <2>3, <2>4, <3>1, <3>2 DEF Knows, Before, After
      <4>2. lock' = r
        BY <2>2 DEF LockHolder, Busy
      <4> QED
        BY <4>1, <4>2, OnlyItKnows
  <2>6. CASE Classify(r, f) = "incomplete" /\ todo' = todo /\ pc' = [pc EXCEPT ![r] = "apply"]
    <3>1. source[f] = Before(r, f)
      BY <2>1, <2>6, HashesExact
    <3>2. pc'[r] = "apply"
      BY <2>6 DEF TypeOK
    <3>3. Knows(r)'
      BY <2>2, <2>3, <2>4, <2>6, <3>1, <3>2 DEF Knows, Before, After
    <3>4. lock' = r
      BY <2>2 DEF LockHolder, Busy
    <3> QED
      BY <3>3, <3>4, OnlyItKnows
  <2> QED
    BY <2>2, <2>5, <2>6
<1>11. ASSUME \A r \in Runs : ~InPass(r)' PROVE Undisturbed'
  BY <1>11, KnowsIdleNext DEF Undisturbed
<1>12. ASSUME NEW f \in Files, Edit(f) PROVE Undisturbed'
  <2>1. \A r \in Runs : ~InPass(r)
    BY <1>12 DEF Edit, Busy, InPass
  <2> QED
    BY <1>11, <1>12, <2>1 DEF Edit, runVars, InPass
<1>13. CASE Crash
  BY <1>13, NobodyKnows DEF Crash
<1>14. CASE Restart \/ Serve
  <2>1. pc' = pc /\ \A r \in Runs : ~Busy(r)
    BY <1>14 DEF Restart, Serve, Passes, PassOf, runVars
  <2> QED
    BY <1>11, <2>1 DEF InPass, Busy
<1>15. CASE UNCHANGED vars
  BY <1>15, KnowsStill DEF vars, runVars, env, journal, Still, Undisturbed
<1>16. ASSUME NEW r \in Runs, Finish(r) \/ ResumeFinish(r) PROVE Undisturbed'
  BY <1>4, <1>16 DEF Finish, ResumeFinish
<1> QED
  BY <1>1, <1>2, <1>3, <1>4, <1>5, <1>6, <1>7, <1>8, <1>9, <1>10, <1>12, <1>13, <1>14, <1>15,
     <1>16 DEF Next, IntegrationStep

LEMMA UndisturbedInit == PubInv /\ Init => Undisturbed
  BY KnowsIdle DEF Init, Undisturbed, InPass

THEOREM UndisturbedHolds ==
  ASSUME HashesTell, UserInterferes = FALSE
  PROVE  Spec => []Undisturbed
<1>1. PubInv /\ PubInv' /\ Undisturbed /\ [Next]_vars => Undisturbed'
  BY UndisturbedStep
<1> QED
  BY PubInvHolds, UndisturbedInit, <1>1, PTL DEF Spec

LEMMA NoSilentOverwriteStep ==
  ASSUME HashesTell, UserInterferes = FALSE, PubInv, Undisturbed, Next,
         NEW f \in Files, source'[f] # source[f], used' = used
  PROVE  \E r \in Runs : /\ pc[r] \in {"apply", "install"}
                         /\ source[f] \in {Before(r, f), After(r, f), Missing}
<1>1. ASSUME NEW r \in Runs, Remove(r) \/ Install(r)
      PROVE  /\ pc[r] \in {"apply", "install"}
             /\ source[f] \in {Before(r, f), After(r, f), Missing}
  <2>1. pc[r] \in {"apply", "install"} /\ f = First(todo[r])
    BY <1>1 DEF Remove, Install, PubInv, TypeOK, Trees
  <2> QED
    BY <2>1 DEF Undisturbed, Knows
<1>2. ASSUME NEW g \in Files, Edit(g) PROVE FALSE
  <2>1. used.edits \in Nat /\ used'.edits = used.edits + 1
    BY <1>2 DEF Edit, PubInv, TypeOK
  <2> QED
    BY <2>1
<1>3. ASSUME UNCHANGED source PROVE FALSE
  BY <1>3
<1>4. ASSUME NEW r \in Runs,
             \/ Capture(r) \/ Cancel(r) \/ Prepare(r) \/ Recheck(r) \/ NextEntry(r) \/ Verify(r)
             \/ Finish(r) \/ Reconcile(r) \/ ResumeEntry(r) \/ ResumeFinish(r)
      PROVE  FALSE
  BY <1>3, <1>4
  DEF Capture, Cancel, Prepare, Recheck, NextEntry, Verify, Finish, Reconcile, ResumeEntry,
      ResumeFinish
<1>5. ASSUME Crash \/ Restart \/ Serve PROVE FALSE
  BY <1>3, <1>5 DEF Crash, Restart, Serve
<1>6. PICK r \in Runs : Remove(r) \/ Install(r)
  BY <1>2, <1>4, <1>5 DEF Next, IntegrationStep
<1> QED
  BY <1>1, <1>6

\* The server overwrites no content that the run it publishes did not start
\* from or write itself, provided that nobody edits files while they are
\* being written and that hashes tell files apart.
THEOREM NothingIsSilentlyOverwritten ==
  ASSUME HashesTell, UserInterferes = FALSE
  PROVE  Spec => NoSilentOverwrite
<1>1. PubInv /\ Undisturbed /\ [Next]_vars =>
        [\A f \in Files :
           source'[f] # source[f] /\ used' = used =>
             \E r \in Runs : /\ pc[r] \in {"apply", "install"}
                             /\ source[f] \in {Before(r, f), After(r, f), Missing}]_vars
  BY NoSilentOverwriteStep
<1> QED
  BY PubInvHolds, UndisturbedHolds, <1>1, PTL DEF Spec, NoSilentOverwrite

LEMMA CompleteIsPublishedStep ==
  ASSUME HashesTell, UserInterferes = FALSE, PubInv, Undisturbed, Next,
         NEW r \in Runs, status[r] # "complete", status'[r] = "complete",
         NEW f \in Entries(r)
  PROVE  source[f] = final[r][f] \/ entry[r][f] = "verified"
<1>1. CASE Finish(r)
  <2>1. Unverified(r) = {}
    BY <1>1 DEF Finish, PubInv, Passes, PassOf, InPass
  <2> QED
    BY <2>1 DEF Unverified
<1>2. CASE ResumeFinish(r)
  <2>1. f \in Unverified(r) => source[f] = After(r, f)
    BY <1>2 DEF ResumeFinish, Undisturbed, Knows, InPass
  <2> QED
    BY <2>1 DEF Unverified, After
<1>3. CASE ReconcileCompleted(r)
  BY <1>3, HashesExact, EntriesIn DEF ReconcileCompleted, PubInv, After
<1>4. Finish(r) \/ ResumeFinish(r) \/ ReconcileCompleted(r)
  <2>1. ASSUME NEW s \in Runs, NEW to \in {"cancelled", "integration_blocked"},
               status' = [status EXCEPT ![s] = to]
        PROVE  FALSE
    BY <2>1 DEF PubInv, TypeOK
  <2>2. ASSUME NEW s \in Runs, Settle(s, "integration_blocked") PROVE FALSE
    BY <2>1, <2>2 DEF Settle
  <2>3. ASSUME status' = status PROVE FALSE
    BY <2>3
  <2>4. ASSUME NEW s \in Runs, Capture(s) PROVE FALSE
    BY <2>4 DEF Capture, PubInv, TypeOK
  <2>5. ASSUME NEW s \in Runs, Cancel(s) PROVE FALSE
    BY <2>1, <2>5 DEF Cancel
  <2>6. ASSUME NEW s \in Runs, \/ Prepare(s) \/ Recheck(s) \/ NextEntry(s) \/ Remove(s)
                               \/ Install(s) \/ Verify(s) \/ ResumeEntry(s)
        PROVE  FALSE
    BY <2>2, <2>3, <2>6
    DEF Prepare, Recheck, NextEntry, Remove, Install, Verify, ResumeEntry, End
  <2>7. ASSUME NEW s \in Runs, Finish(s) \/ ResumeFinish(s) \/ ReconcileCompleted(s)
        PROVE  s = r
    BY <2>7 DEF Finish, ResumeFinish, ReconcileCompleted, End, Settle, PubInv, TypeOK
  <2>8. ASSUME NEW s \in Runs, Reconcile(s) PROVE ReconcileCompleted(s)
    BY <2>1, <2>3, <2>8
    DEF Reconcile, ReconcileFinished, ReconcileDiverged, Resume
  <2>9. ASSUME (\E g \in Files : Edit(g)) \/ Crash \/ Restart \/ Serve PROVE FALSE
    BY <2>3, <2>9 DEF Edit, Crash, Restart, Serve, runVars
  <2> QED
    BY <2>4, <2>5, <2>6, <2>7, <2>8, <2>9 DEF Next, IntegrationStep
<1> QED
  BY <1>1, <1>2, <1>3, <1>4

\* A run becomes complete only when each file it published is in the tree
\* as the run left it, or was when it was verified, under the same provisos.
THEOREM CompletionMeansPublished ==
  ASSUME HashesTell, UserInterferes = FALSE
  PROVE  Spec => CompleteIsPublished
<1>1. PubInv /\ Undisturbed /\ [Next]_vars =>
        [\A r \in Runs :
           status[r] # "complete" /\ status'[r] = "complete" =>
             \A f \in Entries(r) : source[f] = final[r][f] \/ entry[r][f] = "verified"]_vars
  BY CompleteIsPublishedStep
<1> QED
  BY PubInvHolds, UndisturbedHolds, <1>1, PTL DEF Spec, CompleteIsPublished

=============================================================================
