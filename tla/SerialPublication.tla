-------------------------- MODULE SerialPublication --------------------------
(***************************************************************************)
(* What publishing finished runs into a shared source tree promises,       *)
(* without journals, passes or locks (SPEC.md:334-338): one run at a time  *)
(* writes; it writes only files it still owes, never one that it has seen  *)
(* in place; it is published only when it owes none; and published and     *)
(* cancelled are final.  What a stopped or interrupted publication owes it *)
(* may come to owe again, for not everything it saw need be recorded.      *)
(* Module Publication implements this one.                                 *)
(***************************************************************************)
EXTENDS Naturals

CONSTANTS
  Runs,    \* runs that share the source
  NoRun,   \* nobody writes
  Files,   \* paths of the tree
  Metas    \* the states a file can have

VARIABLES
  tree,      \* the source
  publisher, \* the run that may write, or NoRun
  owed,      \* per run: the files it has still to see in place
  outcome,   \* per run: "open", "published", "blocked" or "cancelled"
  edits      \* how often somebody else has edited the tree

spVars == <<tree, publisher, owed, outcome, edits>>

Outcomes == {"open", "published", "blocked", "cancelled"}
Final    == {"published", "cancelled"}

SpInit ==
  /\ tree \in [Files -> Metas] /\ publisher = NoRun /\ edits = 0
  /\ owed = [r \in Runs |-> {}] /\ outcome = [r \in Runs |-> "open"]

\* Nothing is forgotten: a run comes to owe more, not less.
OwesMore == /\ owed' \in [Runs -> SUBSET Files]
            /\ \A r \in Runs : owed[r] \subseteq owed'[r]

\* r's outcome becomes o, which changes nothing that is final.
Becomes(r, o) == /\ outcome[r] \in Final => outcome[r] = o
                 /\ outcome' = [outcome EXCEPT ![r] = o]

Refuse(r) ==
  /\ publisher = NoRun /\ outcome[r] = "open"
  /\ \E o \in {"blocked", "cancelled"} : Becomes(r, o)
  /\ UNCHANGED <<tree, publisher, owed, edits>>

Begin(r) ==
  /\ publisher = NoRun /\ outcome[r] = "open" /\ owed[r] = {}
  /\ publisher' = r
  /\ \E S \in SUBSET Files : owed' = [owed EXCEPT ![r] = S]
  /\ UNCHANGED <<tree, outcome, edits>>

\* The publication of r is taken up again where it was interrupted.
TakeUp(r) ==
  /\ publisher = NoRun /\ outcome[r] \notin Final
  /\ publisher' = r
  /\ UNCHANGED <<tree, owed, outcome, edits>>

Write(r) ==
  /\ publisher = r
  /\ \E f \in owed[r], m \in Metas : tree' = [tree EXCEPT ![f] = m]
  /\ UNCHANGED <<publisher, owed, outcome, edits>>

SeeInPlace(r) ==
  /\ publisher = r
  /\ \E f \in owed[r] : owed' = [owed EXCEPT ![r] = @ \ {f}]
  /\ UNCHANGED <<tree, publisher, outcome, edits>>

Publish(r) ==
  /\ publisher = r /\ owed[r] = {}
  /\ publisher' = NoRun
  /\ Becomes(r, "published")
  /\ UNCHANGED <<tree, owed, edits>>

Stop(r) ==
  /\ publisher = r
  /\ publisher' = NoRun
  /\ \E o \in {"blocked", "cancelled"} : Becomes(r, o)
  /\ OwesMore
  /\ UNCHANGED <<tree, edits>>

Withdraw(r) ==
  /\ Becomes(r, "cancelled")
  /\ UNCHANGED <<tree, publisher, owed, edits>>

Interrupt ==
  /\ publisher' = NoRun
  /\ OwesMore
  /\ UNCHANGED <<tree, outcome, edits>>

\* With nobody writing, all of r is found in place, or some of it is found to
\* be somebody else's, or r is final and what it owes is forgotten.
Settled(r) ==
  /\ publisher = NoRun
  /\ \/ Becomes(r, "published") /\ owed' = [owed EXCEPT ![r] = {}]
     \/ Becomes(r, "blocked") /\ UNCHANGED owed
     \/ outcome[r] \in Final /\ owed' = [owed EXCEPT ![r] = {}] /\ UNCHANGED outcome
  /\ UNCHANGED <<tree, publisher, edits>>

Edited ==
  /\ edits' = edits + 1
  /\ \E f \in Files, m \in Metas : tree' = [tree EXCEPT ![f] = m]
  /\ UNCHANGED <<publisher, owed, outcome>>

SpNext ==
  \/ \E r \in Runs :
       \/ Refuse(r) \/ Begin(r) \/ TakeUp(r) \/ Write(r) \/ SeeInPlace(r)
       \/ Publish(r) \/ Stop(r) \/ Withdraw(r) \/ Settled(r)
  \/ Interrupt \/ Edited

SpSpec == SpInit /\ [][SpNext]_spVars
=============================================================================
