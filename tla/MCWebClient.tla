---------------------------- MODULE MCWebClient ----------------------------
(* Two tabs of one document with two calls under way. *)
EXTENDS WebClient, TLC

CONSTANTS p1, p2, c1, c2

MCPages == {p1, p2}
MCCalls == {c1, c2}
MCInitially == {"DISPOSITION_DUE"}
MCWanted == {"DISPOSED"}

MCSymmetry == Permutations(MCPages) \cup Permutations(MCCalls)

=============================================================================
