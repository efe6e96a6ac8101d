--------------------------- MODULE VersionHistory ---------------------------
(* What the versions of one document promise to who reads them, with no      *)
(* uploads, storage keys, transactions or clean-ups: each version is the     *)
(* next one, made from versions that are there; no version changes or goes   *)
(* away afterwards; it has its content from the moment it is there, and      *)
(* loses it only if nobody was ever told of it, once and for all.            *)
(* DocumentVersions implements this.                                         *)
EXTENDS Naturals, Sequences

CONSTANT Keys       \* names of versions, 0 not among them

VARIABLES versions,   \* the versions, oldest first
          current,    \* the one that is shown
          stored,     \* those that have their content
          doubtful    \* those whose making was not acknowledged

vars == <<versions, current, stored, doubtful>>

Ids == {versions[i].id : i \in DOMAIN versions}

\* Two revisions may be made from one version: the second does not notice.
Revise(id) ==
    /\ id \notin Ids
    /\ current' = id
    /\ \E parent, source \in Ids \cup {0} :
          /\ parent = 0 <=> versions = <<>>
          /\ versions' = Append(versions,
                                [id |-> id, number |-> Len(versions) + 1,
                                 parent |-> parent, source |-> source])
    /\ stored' = stored \cup {id}
    /\ doubtful' \in {doubtful, doubtful \cup {id}}

Lose(id) ==
    /\ id \in stored \cap doubtful
    /\ stored' = stored \ {id}
    /\ UNCHANGED <<versions, current, doubtful>>

Init == versions = <<>> /\ current = 0 /\ stored = {} /\ doubtful = {}

Next == \E id \in Keys : Revise(id) \/ Lose(id)

Spec == Init /\ [][Next]_vars

=============================================================================
