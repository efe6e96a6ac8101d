------------------------ MODULE MCDocumentVersions ------------------------
(* DocumentVersions with slots that are interchangeable. *)
EXTENDS DocumentVersions, TLC

Symmetry == Permutations(Requests)
=============================================================================
