---------------------------- MODULE MCPublication ---------------------------
(* Publication on small instances.                                          *)
EXTENDS Publication, TLC

CONSTANTS ra, rb

File(h) == [hash |-> h, mode |-> "file"]

MCMissing == [hash |-> "", mode |-> ""]
MCMetas   == {MCMissing} \cup {File(h) : h \in {"old", "new", "user"}}
MCStart   == {MCMissing, File("old")}
MCAgent   == {MCMissing, File("new")}
MCUser    == {File("user"), File("old")}

Symmetry == Permutations(Runs)

=============================================================================
