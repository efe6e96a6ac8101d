---------------------------- MODULE MCAuditChain ----------------------------
(* Small instances of AuditChain.  Transactions are interchangeable; ids    *)
(* are not, because their order breaks ties.                                *)
EXTENDS AuditChain, TLC

Symmetry == Permutations(Transactions)

=============================================================================
