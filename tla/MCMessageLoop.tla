---------------------------- MODULE MCMessageLoop ----------------------------
(* A small instance of MessageLoop for TLC.  Workers are interchangeable.  *)
EXTENDS MessageLoop, TLC

Symmetry == Permutations(Workers)
=============================================================================
