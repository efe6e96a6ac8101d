--------------------------- MODULE MCAccessGrants ---------------------------
(* A confidential document of a department head, with a colleague and a      *)
(* clerk of one department, only one of them cleared, and an auditor.        *)
EXTENDS AccessGrants, TLC

Staff == {"head", "colleague", "clerk", "auditor"}

Desk == [u \in Staff |-> IF u \in {"colleague", "clerk"} THEN "lab" ELSE "none"]

Rank ==
    [head |-> "DEPARTMENT_HEAD", colleague |-> "SENIOR_OFFICER",
     clerk |-> "INVESTIGATOR", auditor |-> "AUDITOR"]

Shared == {<<"lab", "SHARE">>, <<"colleague", "DOWNLOAD">>}

\* Always, the first tick, and the second: a grant may be asked for before it
\* begins, while it runs, and after its end.
AlwaysOrOnce == {<<0, 0>>, <<0, 1>>, <<1, 2>>}

Symmetry == Permutations(Requests)
=============================================================================
