--------------------------- MODULE MCRunLifecycle ---------------------------
(* RunLifecycle on small instances: model values for runs and goroutines.   *)
EXTENDS RunLifecycle, TLC

CONSTANTS r1, w1, w2

(* Goroutines are interchangeable.                                          *)
Symmetry == Permutations(Workers)

=============================================================================
