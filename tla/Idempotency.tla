---------------------------- MODULE Idempotency ----------------------------
(* The idempotency ledger for one (user, scope, key) and the calls that    *)
(* carry that key: IdempotencyService.execute.  Every mutating route of the *)
(* documents and records controllers runs its operation inside it.  Each    *)
(* database call is a step and calls interleave; rows of other keys neither *)
(* help nor hinder and are left out.                                        *)
EXTENDS Naturals, Sequences

CONSTANTS Callers,          \* calls that may be in flight with this key
          Payloads,         \* request fingerprints (requestHash)
          Retention,        \* retentionMs, in ticks
          FailsAfterCommit, \* the operation may throw after it has committed
          MaxClock,         \* bound: ticks explored
          MaxRows           \* bound: ledger rows created

ASSUME PayloadAssumption == Payloads # {}
ASSUME RetentionAssumption == Retention \in Nat
ASSUME FailureAssumption == FailsAfterCommit \in BOOLEAN
ASSUME BoundAssumption == MaxClock \in Nat /\ MaxRows \in Nat

VARIABLES rows,    \* every row the key ever had, the last one on top
          calls,   \* what each call is doing
          effects, \* committed mutations, oldest first
          answers, \* successful answers, with the mutation they report
          clock

vars == <<rows, calls, effects, answers, clock>>

-----------------------------------------------------------------------------
(* Types. *)

\* "fresh" is IN_PROGRESS with a null response, "claimed" is IN_PROGRESS with
\* the sentinel, "gone" is a row that was deleted.
RowStates == {"fresh", "claimed", "completed", "gone"}

Row == [state : RowStates, payload : Payloads, expiresAt : Nat, result : Nat]

Phases == {"idle", "purge", "create", "find", "claim", "operate",
           "committed", "failed"}

Call == [phase : Phases, payload : Payloads, now : Nat, row : Nat,
         result : Nat]

Effect == [row : Nat, payload : Payloads, at : Nat]

Idle == [phase |-> "idle", payload |-> CHOOSE p \in Payloads : TRUE,
         now |-> 0, row |-> 0, result |-> 0]

-----------------------------------------------------------------------------

Live(r) == r \in DOMAIN rows /\ rows[r].state # "gone"

NoRow == \A r \in DOMAIN rows : ~Live(r)

Goto(c, phase) == calls' = [calls EXCEPT ![c].phase = phase]

\* The call ends, with or without an error.
Return(c) == calls' = [calls EXCEPT ![c] = Idle]

SetState(r, state) == rows' = [rows EXCEPT ![r].state = state]

\* A request arrives.  Its clock is read once, for the expiry and the purge.
Execute(c) ==
    /\ calls[c].phase = "idle"
    /\ \E p \in Payloads :
         calls' = [calls EXCEPT ![c] = [Idle EXCEPT !.phase = "purge",
                                                    !.payload = p,
                                                    !.now = clock]]
    /\ UNCHANGED <<rows, effects, answers, clock>>

\* Mutant of Expired: rows are purged when half of the retention is over.
ExpiredTooEarly(r, now) == rows[r].expiresAt < now + Retention

Expired(r, now) == rows[r].expiresAt < now

\* Expired rows are deleted, whatever their status.
Purge(c) ==
    /\ calls[c].phase = "purge"
    /\ rows' = [r \in DOMAIN rows |->
                  IF Expired(r, calls[c].now)
                    THEN [rows[r] EXCEPT !.state = "gone"] ELSE rows[r]]
    /\ Goto(c, "create")
    /\ UNCHANGED <<effects, answers, clock>>

\* The unique index on (user, scope, key) lets one creator through; the
\* others (P2002) look the row up.
Create(c) ==
    /\ calls[c].phase = "create"
    /\ IF NoRow
         THEN /\ Len(rows) < MaxRows
              /\ rows' = Append(rows,
                   [state |-> "fresh", payload |-> calls[c].payload,
                    expiresAt |-> calls[c].now + Retention, result |-> 0])
              /\ calls' = [calls EXCEPT ![c] = [@ EXCEPT
                              !.phase = "claim", !.row = Len(rows) + 1]]
         ELSE Goto(c, "find") /\ UNCHANGED rows
    /\ UNCHANGED <<effects, answers, clock>>

\* Mutant of Find: the fingerprint is not compared.
FindAnyPayload(c) ==
    /\ calls[c].phase = "find"
    /\ \/ NoRow /\ Return(c) /\ UNCHANGED answers
       \/ \E r \in DOMAIN rows :
            /\ Live(r)
            /\ CASE rows[r].state = "completed" ->
                      /\ answers' = answers \cup
                           {[payload |-> calls[c].payload,
                             effect |-> rows[r].result]}
                      /\ Return(c)
                 [] rows[r].state = "claimed" -> Return(c) /\ UNCHANGED answers
                 [] OTHER -> /\ calls' = [calls EXCEPT ![c] = [@ EXCEPT
                                            !.phase = "claim", !.row = r]]
                             /\ UNCHANGED answers
    /\ UNCHANGED <<rows, effects, clock>>

\* 409 when the row is gone again, carries another fingerprint or is claimed;
\* a completed one is replayed; a fresh one may still be claimed.
Find(c) ==
    /\ calls[c].phase = "find"
    /\ \/ NoRow /\ Return(c) /\ UNCHANGED answers
       \/ \E r \in DOMAIN rows :
            /\ Live(r)
            /\ CASE rows[r].payload # calls[c].payload ->
                      Return(c) /\ UNCHANGED answers
                 [] rows[r].payload = calls[c].payload
                    /\ rows[r].state = "completed" ->
                      /\ answers' = answers \cup
                           {[payload |-> calls[c].payload,
                             effect |-> rows[r].result]}
                      /\ Return(c)
                 [] rows[r].payload = calls[c].payload
                    /\ rows[r].state = "claimed" ->
                      Return(c) /\ UNCHANGED answers
                 [] OTHER ->
                      /\ calls' = [calls EXCEPT ![c] = [@ EXCEPT
                                     !.phase = "claim", !.row = r]]
                      /\ UNCHANGED answers
    /\ UNCHANGED <<rows, effects, clock>>

\* Mutant of MayClaim: the response is not compared with null.
MayClaimClaimed(r) == rows[r].state \in {"fresh", "claimed"}

MayClaim(r) == rows[r].state = "fresh"

\* The sentinel: one of the calls that saw the null response gets it.
Claim(c) ==
    /\ calls[c].phase = "claim"
    /\ LET r == calls[c].row IN
         IF MayClaim(r)
           THEN SetState(r, "claimed") /\ Goto(c, "operate")
           ELSE Return(c) /\ UNCHANGED rows
    /\ UNCHANGED <<effects, answers, clock>>

\* The operation's transaction commits.
Commit(c) ==
    /\ calls[c].phase = "operate"
    /\ effects' = Append(effects, [row |-> calls[c].row,
                                   payload |-> calls[c].payload,
                                   at |-> clock])
    /\ calls' = [calls EXCEPT ![c] = [@ EXCEPT !.phase = "committed",
                                               !.result = Len(effects) + 1]]
    /\ UNCHANGED <<rows, answers, clock>>

\* The operation throws: refused, or its transaction rolled back; or, after
\* the commit, in what it still does (documents.service.ts reads the new
\* document back), or because the acknowledgement of the commit was lost.
Fail(c) ==
    /\ \/ calls[c].phase = "operate"
       \/ calls[c].phase = "committed" /\ FailsAfterCommit
    /\ Goto(c, "failed")
    /\ UNCHANGED <<rows, effects, answers, clock>>

\* The row is deleted by id, unless it is completed or gone.
Release(c) ==
    /\ calls[c].phase = "failed"
    /\ LET r == calls[c].row IN
         rows' = IF rows[r].state \in {"fresh", "claimed"}
                   THEN [rows EXCEPT ![r].state = "gone"] ELSE rows
    /\ Return(c)
    /\ UNCHANGED <<effects, answers, clock>>

\* Mutant of Complete: the response is the latest mutation's.
CompleteWithLatest(c) ==
    /\ calls[c].phase = "committed"
    /\ LET r == calls[c].row IN
         IF Live(r)
           THEN /\ rows' = [rows EXCEPT ![r] = [@ EXCEPT
                              !.state = "completed",
                              !.result = Len(effects)]]
                /\ answers' = answers \cup {[payload |-> calls[c].payload,
                                             effect |-> Len(effects)]}
           ELSE UNCHANGED <<rows, answers>>
    /\ Return(c)
    /\ UNCHANGED <<effects, clock>>

\* The response is recorded by id; when the row was purged meanwhile the
\* update fails (P2025) and so does the call.
Complete(c) ==
    /\ calls[c].phase = "committed"
    /\ LET r == calls[c].row IN
         IF Live(r)
           THEN /\ rows' = [rows EXCEPT ![r] = [@ EXCEPT
                              !.state = "completed",
                              !.result = calls[c].result]]
                /\ answers' = answers \cup {[payload |-> calls[c].payload,
                                             effect |-> calls[c].result]}
           ELSE UNCHANGED <<rows, answers>>
    /\ Return(c)
    /\ UNCHANGED <<effects, clock>>

\* The API process dies, or a ledger query fails: the call ends where it is
\* and the row keeps whatever it says.
Crash(c) ==
    /\ calls[c].phase # "idle"
    /\ Return(c)
    /\ UNCHANGED <<rows, effects, answers, clock>>

Tick ==
    /\ clock < MaxClock
    /\ clock' = clock + 1
    /\ UNCHANGED <<rows, calls, effects, answers>>

-----------------------------------------------------------------------------

Init ==
    /\ rows = <<>>
    /\ calls = [c \in Callers |-> Idle]
    /\ effects = <<>>
    /\ answers = {}
    /\ clock = 0

Step(c) ==
    \/ Execute(c) \/ Purge(c) \/ Create(c) \/ Find(c) \/ Claim(c)
    \/ Commit(c) \/ Fail(c) \/ Release(c) \/ Complete(c) \/ Crash(c)

Next == Tick \/ \E c \in Callers : Step(c)

Spec == Init /\ [][Next]_vars

-----------------------------------------------------------------------------
(* Properties. *)

\* The ledger, the calls and the histories have their types.
TypeOK ==
    /\ rows \in Seq(Row)
    /\ calls \in [Callers -> Call]
    /\ effects \in Seq(Effect)
    /\ answers \subseteq [payload : Payloads, effect : Nat]
    /\ clock \in Nat

\* The creator of a row and the calls that find it fresh race for the
\* sentinel: one row is never executed by two calls, not even when the row
\* was purged under a slow one.
OneExecutor ==
    \A c, d \in Callers :
        /\ {calls[c].phase, calls[d].phase}
              \subseteq {"operate", "committed", "failed"}
        /\ calls[c].row = calls[d].row
        => c = d

\* docs/failure-modes.md: the ledger prevents duplicate logical mutation
\* during the retention window.  One row stands for one mutation at most,
\* and the mutation of a later row comes after the earlier row expired,
\* through retries, crashes, races and rows purged under a running call.
AtMostOncePerWindow ==
    \A i, j \in DOMAIN effects :
        i # j => /\ effects[i].row # effects[j].row
                 /\ effects[i].row < effects[j].row =>
                       rows[effects[i].row].expiresAt < effects[j].at

\* A success that is reported, first hand or replayed, is the success of a
\* mutation made with the very data of the call that is answered.
AnswersAreTheCallers ==
    \A a \in answers :
        a.effect \in DOMAIN effects /\ effects[a.effect].payload = a.payload

\* What a completed row will replay is the mutation made under that row.
ReplaysItsOwnEffect ==
    \A r \in DOMAIN rows :
        rows[r].state = "completed" =>
            /\ rows[r].result \in DOMAIN effects
            /\ effects[rows[r].result].row = r

=============================================================================
