---------------------------- MODULE RecordStates ----------------------------
(* The record statuses of a document, the table of the transitions that    *)
(* records.service.ts allows between them, and the calls that change a     *)
(* document's record.                                                      *)

Statuses == {"DRAFT", "FINAL", "DECLARED_RECORD", "ARCHIVED",
             "DISPOSITION_DUE", "DISPOSED"}

transitions ==
    [DRAFT           |-> {"FINAL"},
     FINAL           |-> {"DRAFT", "DECLARED_RECORD"},
     DECLARED_RECORD |-> {"ARCHIVED", "DISPOSITION_DUE"},
     ARCHIVED        |-> {"DISPOSITION_DUE"},
     DISPOSITION_DUE |-> {"ARCHIVED", "DISPOSED"},
     DISPOSED        |-> {}]

Operations == {"none", "placeHold", "releaseHold", "changeStatus"}

=============================================================================
