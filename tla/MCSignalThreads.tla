--------------------------- MODULE MCSignalThreads ---------------------------
(* Three problems of one rule on one device, and a table of three. *)
EXTENDS SignalThreads, TLC

CONSTANTS a, b, c

MCProblems == {a, b, c}
Symmetry == Permutations(MCProblems)
=============================================================================
