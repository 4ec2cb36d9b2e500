----------------------------- MODULE MCLspServer -----------------------------
(* Small instances of LspServer for TLC.  Request ids, documents and       *)
(* workers are interchangeable: no definition tells two of them apart.     *)
EXTENDS LspServer, TLC

MCSize == [k \in AllKinds |-> IF k = "document" THEN 1 ELSE 2]

(* How many revisions and epochs one client makes (opening makes both).    *)
(* These are CONSTRAINTs.  Only client steps, to which no fairness applies,*)
(* leave the constrained states, so what is fair stays enabled and a       *)
(* behaviour cut off here is one of a client that changes no more.         *)
Changes     == (nextRev - 1) + (scopeEpoch - 1)
FewChanges  == Changes <= 3
ManyChanges == Changes <= 5

Symmetry == Permutations(Ids) \cup Permutations(Uris) \cup Permutations(Workers)
=============================================================================
