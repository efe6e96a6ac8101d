----------------------------- MODULE MCSessions -----------------------------
(* Small instances of Sessions.  Requests are interchangeable. *)
EXTENDS Sessions, TLC

Symmetry == Permutations(Slots)

=============================================================================
