-------------------------- MODULE MCDocumentStore --------------------------
(* A small instance of DocumentStore for TLC.  Addresses, texts and        *)
(* workers are interchangeable: no definition tells two of them apart.     *)
EXTENDS DocumentStore, TLC

Symmetry == Permutations(Addrs) \cup Permutations(Texts) \cup Permutations(Workers)
=============================================================================
