--------------------------- MODULE MCIdempotency ---------------------------
(* Small instances of Idempotency.  Calls are interchangeable; fingerprints  *)
(* are not, because an idle call holds one of them.                          *)
EXTENDS Idempotency, TLC

Symmetry == Permutations(Callers)

=============================================================================
