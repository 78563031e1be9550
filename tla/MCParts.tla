------------------------------- MODULE MCParts -------------------------------
(* Approvals, reclamation and the Markdown worker on small instances.  They *)
(* share nothing, so one run of TLC takes them side by side: `part' says    *)
(* which one moves.  The steps with fairness are disabled in the initial    *)
(* states of the other two.                                                 *)
EXTENDS Approvals, Reclamation, MarkdownWorker

VARIABLE part

Code(v, n, c) == [v |-> v, n |-> n, complete |-> c]

MCCodes == {Code(1, 1, FALSE), Code(1, 2, FALSE), Code(1, 2, TRUE), Code(2, 2, FALSE)}

MCInit == /\ ApInit /\ RcInit /\ MdInit
          /\ part \in {"approvals", "reclamation", "markdown"}

MCNext == /\ UNCHANGED part
          /\ \/ part = "approvals"   /\ ApNext /\ UNCHANGED <<rcVars, mdVars>>
             \/ part = "reclamation" /\ RcNext /\ UNCHANGED <<apVars, mdVars>>
             \/ part = "markdown"    /\ MdNext /\ UNCHANGED <<apVars, rcVars>>

MCSpec == /\ MCInit /\ [][MCNext]_<<apVars, rcVars, mdVars, part>>
          /\ ApFairness /\ MdFairness

==============================================================================
