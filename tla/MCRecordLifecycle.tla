------------------------- MODULE MCRecordLifecycle -------------------------
(* Small instances of RecordLifecycle.  Requests are interchangeable. *)
EXTENDS RecordLifecycle, TLC

Symmetry == Permutations(Requests)

=============================================================================
