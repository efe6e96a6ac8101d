------------------------- MODULE IdempotencyProofs -------------------------
(* Proofs about Idempotency for every set of calls, every retention and    *)
(* every clock.  At most one mutation per window needs two arguments: the  *)
(* sentinel gives a row to one call, and a row that was executed leaves     *)
(* the ledger only by expiring, because a call that fails releases its row  *)
(* before anything was committed under it.                                  *)
EXTENDS Idempotency, TLAPS

Executing == {"operate", "committed", "failed"}

\* If row r is gone it expired, and every mutation of a later row was
\* committed after that.
Over(r) == /\ rows[r].state = "gone" => rows[r].expiresAt < clock
           /\ \A i \in DOMAIN effects :
                r < effects[i].row => rows[r].expiresAt < effects[i].at

\* Only the last row can be live.
LastIsLive == \A r \in DOMAIN rows : rows[r].state # "gone" => r = Len(rows)

\* A call that holds a row holds one that was created.
RowKnown(c) ==
    calls[c].phase \in {"claim"} \cup Executing => calls[c].row \in DOMAIN rows

\* What a call knows about the row it holds.
Held(c) ==
    /\ calls[c].now <= clock
    /\ calls[c].phase \in {"claim"} \cup Executing =>
          calls[c].row \in DOMAIN rows
    /\ calls[c].phase \in Executing =>
          rows[calls[c].row].state \in {"claimed", "gone"}
          /\ Over(calls[c].row)
    /\ calls[c].phase \in {"operate", "failed"} =>
          \A i \in DOMAIN effects : effects[i].row # calls[c].row

\* What a committed mutation says about its row.
Charged(i) == /\ effects[i].row \in DOMAIN rows
              /\ rows[effects[i].row].state # "fresh"
              /\ Over(effects[i].row)

Distinct == \A i, j \in DOMAIN effects :
               effects[i].row = effects[j].row => i = j

\* Two calls never execute one row (OneExecutor, with the phases named).
Alone == \A c, d \in Callers :
            /\ calls[c].phase \in Executing /\ calls[d].phase \in Executing
            /\ calls[c].row = calls[d].row
            => c = d

IInv == /\ TypeOK
        /\ LastIsLive
        /\ \A c \in Callers : Held(c)
        /\ Alone
        /\ \A i \in DOMAIN effects : Charged(i)
        /\ Distinct

-----------------------------------------------------------------------------
(* Types. *)

LEMMA IdleType == Idle \in Call
  BY PayloadAssumption DEF Idle, Call, Phases

LEMMA InitIInv == Init => IInv
<1> SUFFICES ASSUME Init PROVE IInv
  OBVIOUS
<1>1. TypeOK
  BY IdleType DEF Init, TypeOK
<1>2. \A c \in Callers : calls[c].phase = "idle" /\ calls[c].now = 0
  BY DEF Init, Idle
<1>3. DOMAIN rows = {} /\ DOMAIN effects = {}
  BY DEF Init
<1> QED
  BY <1>1, <1>2, <1>3 DEF Init, IInv, LastIsLive, Held, Executing, Alone,
                          Distinct

\* A row that is changed in its state and result is a row.
LEMMA RowType ==
  ASSUME TypeOK, NEW r \in DOMAIN rows, NEW s \in RowStates, NEW n \in Nat
  PROVE  /\ [rows EXCEPT ![r].state = s] \in Seq(Row)
         /\ [rows EXCEPT ![r] = [@ EXCEPT !.state = s, !.result = n]]
              \in Seq(Row)
<1>1. rows[r] \in Row /\ rows \in Seq(Row)
  BY DEF TypeOK
<1> DEFINE x == [rows[r] EXCEPT !.state = s]
           y == [rows[r] EXCEPT !.state = s, !.result = n]
<1>2. x \in Row /\ y \in Row
  BY <1>1 DEF Row
<1>3. /\ [rows EXCEPT ![r].state = s] = [rows EXCEPT ![r] = x]
      /\ [rows EXCEPT ![r] = [@ EXCEPT !.state = s, !.result = n]]
           = [rows EXCEPT ![r] = y]
  OBVIOUS
<1> HIDE DEF x, y
<1> QED
  BY <1>1, <1>2, <1>3

\* Returning, moving on and the other writes of a call's record.
LEMMA CallType ==
  ASSUME TypeOK, NEW c \in Callers
  PROVE  /\ Return(c) => calls' \in [Callers -> Call]
         /\ \A p \in Phases : Goto(c, p) => calls' \in [Callers -> Call]
         /\ \A m \in Call : calls' = [calls EXCEPT ![c] = m]
                              => calls' \in [Callers -> Call]
<1>1. calls \in [Callers -> Call] /\ calls[c] \in Call
  BY DEF TypeOK
<1> QED
  BY <1>1, IdleType DEF Return, Goto, Call

LEMMA StepTypeOK ==
  ASSUME TypeOK, NEW c \in Callers, RowKnown(c), Step(c)
  PROVE  TypeOK'
<1>a. /\ calls \in [Callers -> Call] /\ calls[c] \in Call /\ rows \in Seq(Row)
      /\ effects \in Seq(Effect) /\ clock \in Nat
  BY DEF TypeOK
<1>b. calls[c].payload \in Payloads /\ calls[c].now \in Nat
      /\ calls[c].row \in Nat /\ calls[c].result \in Nat
  BY <1>a DEF Call
<1>1. CASE Execute(c)
  <2>1. ASSUME NEW p \in Payloads
        PROVE  [Idle EXCEPT !.phase = "purge", !.payload = p, !.now = clock]
                 \in Call
    BY <1>a, IdleType DEF Call, Phases
  <2>2. calls' \in [Callers -> Call]
    BY <1>1, <2>1, CallType DEF Execute
  <2> QED
    BY <1>1, <2>2 DEF Execute, TypeOK
<1>2. CASE Purge(c)
  <2>1. ASSUME NEW r \in DOMAIN rows
        PROVE  (IF Expired(r, calls[c].now)
                  THEN [rows[r] EXCEPT !.state = "gone"] ELSE rows[r]) \in Row
    <3>1. rows[r] \in Row
      BY <1>a
    <3>2. [rows[r] EXCEPT !.state = "gone"] \in Row
      BY <3>1 DEF Row, RowStates
    <3> QED
      BY <3>1, <3>2
  <2>2. rows' \in Seq(Row)
    BY <1>2, <1>a, <2>1 DEF Purge
  <2>3. calls' \in [Callers -> Call]
    BY <1>2, CallType DEF Purge, Phases
  <2> QED
    BY <1>2, <2>2, <2>3 DEF Purge, TypeOK
<1>3. CASE Create(c)
  <2> DEFINE new == [state |-> "fresh", payload |-> calls[c].payload,
                     expiresAt |-> calls[c].now + Retention, result |-> 0]
             m == [calls[c] EXCEPT !.phase = "claim", !.row = Len(rows) + 1]
  <2>1. new \in Row /\ m \in Call
    <3>1. calls[c].now + Retention \in Nat /\ Len(rows) + 1 \in Nat
      BY <1>a, <1>b, RetentionAssumption
    <3>2. new \in Row
      BY <1>b, <3>1 DEF Row, RowStates
    <3>3. m \in Call
      BY <1>a, <3>1 DEF Call, Phases
    <3> QED
      BY <3>2, <3>3
  <2>2. \/ rows' = Append(rows, new) /\ calls' = [calls EXCEPT ![c] = m]
        \/ rows' = rows /\ Goto(c, "find")
    BY <1>3 DEF Create
  <2> HIDE DEF new, m
  <2>3. rows' \in Seq(Row) /\ calls' \in [Callers -> Call]
    <3>1. rows' \in Seq(Row)
      BY <1>a, <2>1, <2>2
    <3>2. calls' \in [Callers -> Call]
      BY <2>1, <2>2, CallType DEF Phases
    <3> QED
      BY <3>1, <3>2
  <2> QED
    BY <1>3, <2>3 DEF Create, TypeOK
<1>4. CASE Find(c)
  <2>1. ASSUME NEW r \in DOMAIN rows
        PROVE  /\ [calls[c] EXCEPT !.phase = "claim", !.row = r] \in Call
               /\ [payload |-> calls[c].payload, effect |-> rows[r].result]
                     \in [payload : Payloads, effect : Nat]
    <3>1. rows[r] \in Row /\ r \in Nat
      BY <1>a
    <3> QED
      BY <1>a, <1>b, <3>1 DEF Call, Phases, Row
  <2>2. calls' \in [Callers -> Call]
    BY <1>4, <2>1, CallType DEF Find
  <2>3. answers' \subseteq [payload : Payloads, effect : Nat]
    BY <1>4, <2>1 DEF Find, TypeOK
  <2> QED
    BY <1>4, <2>2, <2>3 DEF Find, TypeOK
<1>5. CASE Claim(c)
  <2>1. calls[c].row \in DOMAIN rows /\ "claimed" \in RowStates
    BY <1>5 DEF Claim, RowKnown, RowStates
  <2>2. rows' \in Seq(Row)
    BY <1>5, <1>a, <2>1, RowType DEF Claim, SetState
  <2>3. calls' \in [Callers -> Call]
    BY <1>5, CallType DEF Claim, Phases
  <2> QED
    BY <1>5, <2>2, <2>3 DEF Claim, TypeOK
<1>6. CASE Commit(c)
  <2> DEFINE e == [row |-> calls[c].row, payload |-> calls[c].payload,
                   at |-> clock]
             m == [calls[c] EXCEPT !.phase = "committed",
                                   !.result = Len(effects) + 1]
  <2>1. e \in Effect /\ m \in Call
    <3>1. Len(effects) + 1 \in Nat
      BY <1>a
    <3>2. e \in Effect
      BY <1>a, <1>b DEF Effect
    <3>3. m \in Call
      BY <1>a, <3>1 DEF Call, Phases
    <3> QED
      BY <3>2, <3>3
  <2>2. effects' = Append(effects, e) /\ calls' = [calls EXCEPT ![c] = m]
    BY <1>6 DEF Commit
  <2> HIDE DEF e, m
  <2>3. effects' \in Seq(Effect) /\ calls' \in [Callers -> Call]
    BY <1>a, <2>1, <2>2, CallType
  <2> QED
    BY <1>6, <2>3 DEF Commit, TypeOK
<1>7. CASE Fail(c)
  <2>1. calls' \in [Callers -> Call]
    BY <1>7, CallType DEF Fail, Phases
  <2> QED
    BY <1>7, <2>1 DEF Fail, TypeOK
<1>8. CASE Release(c)
  <2>1. calls[c].row \in DOMAIN rows /\ "gone" \in RowStates
    BY <1>8 DEF Release, RowKnown, Executing, RowStates
  <2>2. rows' \in Seq(Row)
    BY <1>8, <1>a, <2>1, RowType DEF Release
  <2>3. calls' \in [Callers -> Call]
    BY <1>8, CallType DEF Release
  <2> QED
    BY <1>8, <2>2, <2>3 DEF Release, TypeOK
<1>9. CASE Complete(c)
  <2>1. calls[c].row \in DOMAIN rows /\ "completed" \in RowStates
    BY <1>9 DEF Complete, RowKnown, Executing, RowStates
  <2>2. rows' \in Seq(Row)
    <3> DEFINE r == calls[c].row
               n == calls[c].result
               new == [rows EXCEPT ![r] = [@ EXCEPT !.state = "completed",
                                                    !.result = n]]
    <3>1. rows' = new \/ rows' = rows
      BY <1>9 DEF Complete
    <3>2. new \in Seq(Row)
      BY <1>b, <2>1, RowType
    <3> QED
      BY <1>a, <3>1, <3>2
  <2>3. calls' \in [Callers -> Call]
    BY <1>9, CallType DEF Complete
  <2>4. answers' \subseteq [payload : Payloads, effect : Nat]
    BY <1>9, <1>b DEF Complete, TypeOK
  <2> QED
    BY <1>9, <2>2, <2>3, <2>4 DEF Complete, TypeOK
<1>10. CASE Crash(c)
  <2>1. calls' \in [Callers -> Call]
    BY <1>10, CallType DEF Crash
  <2> QED
    BY <1>10, <2>1 DEF Crash, TypeOK
<1> QED
  BY <1>1, <1>2, <1>3, <1>4, <1>5, <1>6, <1>7, <1>8, <1>9, <1>10 DEF Step

-----------------------------------------------------------------------------
(* What a step may do to a row without disturbing what is known about it. *)

RowKept(r) ==
    /\ r \in DOMAIN rows'
    /\ rows'[r].expiresAt = rows[r].expiresAt
    /\ rows[r].state # "fresh" => rows'[r].state # "fresh"
    /\ rows'[r].state = "gone" =>
          rows[r].state = "gone" \/ rows[r].expiresAt < clock'

LEMMA OverKept ==
  ASSUME TypeOK, TypeOK', NEW r \in DOMAIN rows, RowKept(r), Over(r),
         clock <= clock', effects' = effects
  PROVE  Over(r)'
<1>1. rows[r] \in Row /\ clock \in Nat /\ clock' \in Nat
  BY DEF TypeOK
<1>2. rows[r].expiresAt \in Nat
  BY <1>1 DEF Row
<1> QED
  BY <1>1, <1>2 DEF Over, RowKept

LEMMA HeldKept ==
  ASSUME TypeOK, TypeOK', NEW d \in Callers, Held(d), calls'[d] = calls[d],
         clock <= clock', effects' = effects,
         calls[d].phase = "claim" => calls[d].row \in DOMAIN rows',
         calls[d].phase \in Executing => RowKept(calls[d].row),
         calls[d].phase \in Executing =>
             rows'[calls[d].row].state \in {"claimed", "gone"}
  PROVE  Held(d)'
<1>1. calls[d] \in Call /\ clock \in Nat /\ clock' \in Nat
  BY DEF TypeOK
<1>2. calls[d].now \in Nat
  BY <1>1 DEF Call
<1>3. calls[d].now <= clock'
  BY <1>1, <1>2 DEF Held
<1>4. calls[d].phase \in {"claim"} \cup Executing =>
        calls[d].row \in DOMAIN rows'
  BY DEF RowKept
<1>5. calls[d].phase \in Executing => Over(calls[d].row)'
  <2> SUFFICES ASSUME calls[d].phase \in Executing
               PROVE  Over(calls[d].row)'
    OBVIOUS
  <2>1. calls[d].row \in DOMAIN rows /\ Over(calls[d].row)
    BY DEF Held
  <2>2. PICK r \in DOMAIN rows : r = calls[d].row
    BY <2>1
  <2>3. RowKept(r) /\ Over(r)
    BY <2>1, <2>2
  <2>4. Over(r)'
    BY <2>3, OverKept
  <2> QED
    BY <2>2, <2>4 DEF Over
<1> QED
  BY <1>3, <1>4, <1>5 DEF Held

LEMMA ChargedKept ==
  ASSUME TypeOK, TypeOK', NEW i \in DOMAIN effects, Charged(i),
         RowKept(effects[i].row), clock <= clock', effects' = effects
  PROVE  Charged(i)'
<1>1. effects[i].row \in DOMAIN rows /\ Over(effects[i].row)
  BY DEF Charged
<1>2. Over(effects[i].row)'
  BY <1>1, OverKept
<1> QED
  BY <1>1, <1>2 DEF Charged, RowKept

\* Everything but the call that steps, and everything about the mutations, is
\* preserved by a step that commits none, when it keeps the rows other calls
\* and earlier mutations rely on.
LEMMA Frame ==
  ASSUME IInv, TypeOK', NEW c \in Callers, effects' = effects, clock' = clock,
         \A d \in Callers : d # c => calls'[d] = calls[d],
         \A r \in DOMAIN rows :
             /\ r \in DOMAIN rows'
             /\ RowKept(r) \/ (calls[c].phase = "failed" /\ calls[c].row = r)
             /\ rows[r].state \in {"claimed", "gone"} =>
                  \/ rows'[r].state \in {"claimed", "gone"}
                  \/ calls[c].phase \in Executing /\ calls[c].row = r,
         calls'[c].phase \in Executing =>
             \A d \in Callers :
                 d # c /\ calls[d].phase \in Executing
                     => calls[d].row # calls'[c].row
  PROVE  /\ \A d \in Callers : d # c => Held(d)'
         /\ Alone'
         /\ \A i \in DOMAIN effects' : Charged(i)'
         /\ Distinct'
<1>a. /\ TypeOK /\ Alone /\ Distinct /\ \A d \in Callers : Held(d)
      /\ \A i \in DOMAIN effects : Charged(i)
  BY DEF IInv
<1>b. clock <= clock'
  BY <1>a DEF TypeOK
<1>1. ASSUME NEW d \in Callers, d # c PROVE Held(d)'
  <2>1. calls'[d] = calls[d] /\ Held(d)
    BY <1>a, <1>1
  <2>2. calls[d].phase = "claim" => calls[d].row \in DOMAIN rows'
    BY <2>1 DEF Held
  <2>3. ASSUME calls[d].phase \in Executing
        PROVE  /\ RowKept(calls[d].row)
               /\ rows'[calls[d].row].state \in {"claimed", "gone"}
    <3>1. /\ calls[d].row \in DOMAIN rows
          /\ rows[calls[d].row].state \in {"claimed", "gone"}
      BY <2>1, <2>3 DEF Held
    <3>2. ~(calls[c].phase \in Executing /\ calls[c].row = calls[d].row)
      BY <1>a, <1>1, <2>3 DEF Alone
    <3>3. ~(calls[c].phase = "failed" /\ calls[c].row = calls[d].row)
      BY <3>2 DEF Executing
    <3> QED
      BY <3>1, <3>2, <3>3
  <2> QED
    BY <1>a, <1>b, <2>1, <2>2, <2>3, HeldKept
<1>2. Alone'
  BY <1>a DEF Alone
<1>3. ASSUME NEW i \in DOMAIN effects PROVE Charged(i)'
  <2>1. Charged(i) /\ effects[i].row \in DOMAIN rows
    BY <1>a DEF Charged
  <2>2. ~(calls[c].phase = "failed" /\ calls[c].row = effects[i].row)
    BY <1>a DEF Held
  <2>3. RowKept(effects[i].row)
    BY <2>1, <2>2
  <2> QED
    BY <1>a, <1>b, <2>1, <2>3, ChargedKept
<1>4. Distinct'
  BY <1>a DEF Distinct
<1> QED
  BY <1>1, <1>2, <1>3, <1>4

\* A step that leaves the ledger and the mutations alone, and does not start
\* to execute a row.
LEMMA QuietFrame ==
  ASSUME IInv, TypeOK', NEW c \in Callers,
         UNCHANGED <<rows, effects, clock>>,
         \A d \in Callers : d # c => calls'[d] = calls[d],
         calls'[c].phase \in Executing =>
             calls[c].phase \in Executing /\ calls'[c].row = calls[c].row,
         Held(c)'
  PROVE  IInv'
<1>a. TypeOK /\ LastIsLive /\ Alone /\ clock \in Nat
  BY DEF IInv, TypeOK
<1>1. \A r \in DOMAIN rows :
             /\ r \in DOMAIN rows'
             /\ RowKept(r)
             /\ rows[r].state \in {"claimed", "gone"} =>
                  rows'[r].state \in {"claimed", "gone"}
  BY DEF RowKept
<1>2. calls'[c].phase \in Executing =>
             \A d \in Callers :
                 d # c /\ calls[d].phase \in Executing
                     => calls[d].row # calls'[c].row
  BY <1>a DEF Alone
<1>3. /\ \A d \in Callers : d # c => Held(d)'
      /\ Alone'
      /\ \A i \in DOMAIN effects' : Charged(i)'
      /\ Distinct'
  BY <1>1, <1>2, Frame
<1>4. LastIsLive'
  BY <1>a DEF LastIsLive
<1> QED
  BY <1>3, <1>4 DEF IInv

-----------------------------------------------------------------------------
(* The inductive step. *)

\* The commit of a mutation under row k: rows before k are gone and expired,
\* no mutation was made under k, and no other call can make one.
LEMMA CommitIInv ==
  ASSUME IInv, NEW c \in Callers, Commit(c)
  PROVE  IInv'
<1> DEFINE n == Len(effects) + 1
<1>a. /\ TypeOK /\ LastIsLive /\ Alone /\ Distinct /\ Held(c)
      /\ \A i \in DOMAIN effects : Charged(i)
      /\ \A d \in Callers : Held(d)
  BY DEF IInv
<1>b. TypeOK'
  BY <1>a, StepTypeOK DEF Step, Held, RowKnown
<1>c. /\ calls \in [Callers -> Call] /\ calls[c] \in Call /\ rows \in Seq(Row)
      /\ effects \in Seq(Effect) /\ clock \in Nat
      /\ \A r \in DOMAIN rows : rows[r] \in Row
  BY <1>a DEF TypeOK
<1>d. \A r \in DOMAIN rows : rows[r].expiresAt \in Nat
  BY <1>c DEF Row
<1>e. PICK k \in DOMAIN rows : k = calls[c].row
  BY <1>a DEF Held, Commit, Executing
<1>f. /\ rows[k].state \in {"claimed", "gone"} /\ Over(k)
      /\ \A i \in DOMAIN effects : effects[i].row # k
      /\ calls[c].phase = "operate" /\ rows' = rows /\ clock' = clock
  BY <1>a, <1>e DEF Held, Commit, Executing
<1>g. /\ DOMAIN effects = 1 .. Len(effects) /\ DOMAIN effects' = 1 .. n
      /\ effects'[n].row = k /\ effects'[n].at = clock
      /\ \A i \in DOMAIN effects : effects'[i] = effects[i]
      /\ Len(effects) \in Nat
  BY <1>c, <1>e DEF Commit
<1>h. /\ calls'[c].phase = "committed" /\ calls'[c].row = k
      /\ calls'[c].now = calls[c].now
      /\ \A d \in Callers : d # c => calls'[d] = calls[d]
  BY <1>c, <1>e DEF Commit, Call
<1> HIDE DEF n
<1>i. \A i \in DOMAIN effects' : i \in DOMAIN effects \/ i = n
  BY <1>g DEF n
\* What was over stays over.
<1>1. ASSUME NEW r \in DOMAIN rows, Over(r) PROVE Over(r)'
  <2>1. ASSUME r < k PROVE rows[r].expiresAt < clock
    <3>1. r # Len(rows)
      BY <1>c, <2>1
    <3>2. rows[r].state = "gone"
      BY <1>a, <3>1 DEF LastIsLive
    <3> QED
      BY <1>1, <3>2 DEF Over
  <2>2. ASSUME NEW i \in DOMAIN effects', r < effects'[i].row
        PROVE  rows[r].expiresAt < effects'[i].at
    <3>1. CASE i \in DOMAIN effects
      BY <1>1, <1>g, <2>2, <3>1 DEF Over
    <3>2. CASE i = n
      BY <1>g, <2>1, <2>2, <3>2
    <3> QED
      BY <1>i, <3>1, <3>2
  <2> QED
    BY <1>1, <1>f, <2>2 DEF Over
<1>2. ASSUME NEW d \in Callers PROVE Held(d)'
  <2>1. CASE d = c
    <3>1. Over(k)'
      BY <1>1, <1>f
    <3> QED
      BY <1>a, <1>e, <1>f, <1>h, <2>1, <3>1 DEF Held, Executing, Over
  <2>2. CASE d # c
    <3>1. calls'[d] = calls[d] /\ Held(d)
      BY <1>a, <1>h, <2>2
    <3>2. ASSUME calls[d].phase \in Executing
          PROVE  calls[d].row # k /\ calls[d].row \in DOMAIN rows
                 /\ Over(calls[d].row)'
      <4>1. calls[d].row # k
        BY <1>a, <1>e, <1>f, <2>2, <3>2 DEF Alone, Executing
      <4>2. PICK r \in DOMAIN rows : r = calls[d].row
        BY <3>1, <3>2 DEF Held
      <4>3. Over(r)
        BY <3>1, <3>2, <4>2 DEF Held
      <4>4. Over(r)'
        BY <1>1, <4>3
      <4> QED
        BY <3>1, <4>1, <4>2, <4>4 DEF Over
    <3>3. calls[d].phase \in {"operate", "failed"} =>
            \A i \in DOMAIN effects' : effects'[i].row # calls[d].row
      BY <1>g, <1>i, <3>1, <3>2 DEF Held, Executing
    <3> QED
      BY <1>f, <3>1, <3>2, <3>3 DEF Held
  <2> QED
    BY <2>1, <2>2
<1>3. Alone'
  BY <1>a, <1>e, <1>f, <1>h DEF Alone, Executing
<1>4. ASSUME NEW i \in DOMAIN effects' PROVE Charged(i)'
  <2>1. PICK r \in DOMAIN rows : /\ r = effects'[i].row /\ Over(r)
                                 /\ rows[r].state # "fresh"
    <3>1. CASE i \in DOMAIN effects
      BY <1>a, <1>g, <3>1 DEF Charged
    <3>2. CASE i = n
      BY <1>f, <1>g, <3>2
    <3> QED
      BY <1>i, <3>1, <3>2
  <2>2. Over(r)'
    BY <1>1, <2>1
  <2> QED
    BY <1>f, <2>1, <2>2 DEF Charged, Over
<1>5. Distinct'
  BY <1>a, <1>f, <1>g, <1>i DEF Distinct
<1>6. LastIsLive'
  BY <1>a, <1>f DEF LastIsLive
<1> QED
  BY <1>b, <1>2, <1>3, <1>4, <1>5, <1>6 DEF IInv

\* Every operation that can throw does so before its transaction commits.
FailsBeforeCommit == ~FailsAfterCommit

LEMMA StepIInv ==
  ASSUME IInv, FailsBeforeCommit, NEW c \in Callers, Step(c)
  PROVE  IInv'
<1>a. /\ TypeOK /\ LastIsLive /\ Alone /\ Distinct /\ Held(c)
      /\ \A i \in DOMAIN effects : Charged(i)
  BY DEF IInv
<1>b. TypeOK'
  BY <1>a, StepTypeOK DEF Held, RowKnown
<1>c. /\ calls \in [Callers -> Call] /\ calls[c] \in Call /\ rows \in Seq(Row)
      /\ effects \in Seq(Effect) /\ clock \in Nat
      /\ calls[c].row \in Nat /\ calls[c].now \in Nat
  BY <1>a DEF TypeOK, Call
<1>d. \A r \in DOMAIN rows : rows[r] \in Row /\ rows[r].expiresAt \in Nat
                             /\ rows[r].state \in RowStates
  <2>1. \A r \in DOMAIN rows : rows[r] \in Row
    BY <1>c
  <2> QED
    BY <2>1 DEF Row
<1>e. ASSUME Return(c) PROVE calls'[c].phase = "idle" /\ Held(c)'
                             /\ \A d \in Callers : d # c => calls'[d] = calls[d]
  BY <1>c, <1>e, <1>b DEF Return, Idle, Held, Executing, TypeOK
<1>f. ASSUME NEW p, Goto(c, p)
      PROVE  /\ calls'[c].phase = p /\ calls'[c].row = calls[c].row
             /\ calls'[c].now = calls[c].now
             /\ \A d \in Callers : d # c => calls'[d] = calls[d]
  BY <1>c, <1>f DEF Goto, Call
<1>1. CASE Execute(c)
  <2>1. /\ calls'[c].phase = "purge" /\ calls'[c].now = clock
        /\ \A d \in Callers : d # c => calls'[d] = calls[d]
    BY <1>1, <1>c DEF Execute, Idle
  <2>2. UNCHANGED <<rows, effects, clock>>
    BY <1>1 DEF Execute
  <2>3. Held(c)'
    BY <1>c, <2>1, <2>2 DEF Held, Executing
  <2>4. calls'[c].phase \notin Executing
    BY <2>1 DEF Executing
  <2> QED
    BY <1>b, <2>1, <2>2, <2>3, <2>4, QuietFrame
<1>2. CASE Purge(c)
  <2>1. /\ calls'[c].phase = "create" /\ calls'[c].now = calls[c].now
        /\ \A d \in Callers : d # c => calls'[d] = calls[d]
        /\ effects' = effects /\ clock' = clock
    BY <1>2, <1>f DEF Purge
  <2>2. DOMAIN rows' = DOMAIN rows
    BY <1>2 DEF Purge
  <2>3. ASSUME NEW r \in DOMAIN rows
        PROVE  /\ r \in DOMAIN rows'
               /\ rows'[r].expiresAt = rows[r].expiresAt
               /\ \/ rows'[r].state = rows[r].state
                  \/ rows'[r].state = "gone" /\ rows[r].expiresAt < clock'
    <3>1. rows'[r] = IF Expired(r, calls[c].now)
                       THEN [rows[r] EXCEPT !.state = "gone"] ELSE rows[r]
      BY <1>2 DEF Purge
    <3>2. rows[r] \in Row /\ rows[r].expiresAt \in Nat /\ calls[c].now <= clock
      BY <1>a, <1>d DEF Held
    <3>3. CASE Expired(r, calls[c].now)
      <4>1. rows[r].expiresAt < clock'
        BY <1>c, <2>1, <3>2, <3>3 DEF Expired
      <4>2. rows'[r].state = "gone" /\ rows'[r].expiresAt = rows[r].expiresAt
        BY <3>1, <3>2, <3>3 DEF Row
      <4> QED
        BY <2>2, <4>1, <4>2
    <3>4. CASE ~Expired(r, calls[c].now)
      BY <2>2, <3>1, <3>4
    <3> QED
      BY <3>3, <3>4
  <2>4. \A r \in DOMAIN rows : RowKept(r)
    BY <2>3 DEF RowKept
  <2>5. Held(c)'
    BY <1>a, <2>1 DEF Held, Executing
  <2>6. /\ \A d \in Callers : d # c => Held(d)'
        /\ Alone'
        /\ \A i \in DOMAIN effects' : Charged(i)'
        /\ Distinct'
    <3>1. calls'[c].phase \notin Executing
      BY <2>1 DEF Executing
    <3>2. \A r \in DOMAIN rows :
             /\ r \in DOMAIN rows'
             /\ RowKept(r)
             /\ rows[r].state \in {"claimed", "gone"} =>
                  rows'[r].state \in {"claimed", "gone"}
      BY <2>3, <2>4
    <3> QED
      BY <1>b, <2>1, <3>1, <3>2, Frame
  <2>7. LastIsLive'
    <3>1. Len(rows') = Len(rows)
      BY <1>b, <1>c, <2>2 DEF TypeOK
    <3> QED
      BY <1>a, <2>2, <2>3, <3>1 DEF LastIsLive
  <2> QED
    BY <1>b, <2>5, <2>6, <2>7 DEF IInv
<1>3. CASE Create(c)
  <2>1. CASE NoRow
    <3> DEFINE new == [state |-> "fresh", payload |-> calls[c].payload,
                       expiresAt |-> calls[c].now + Retention, result |-> 0]
               m == [calls[c] EXCEPT !.phase = "claim", !.row = Len(rows) + 1]
    <3>1. rows' = Append(rows, new) /\ calls' = [calls EXCEPT ![c] = m]
          /\ effects' = effects /\ clock' = clock
      BY <1>3, <2>1 DEF Create
    <3>2. m.phase = "claim" /\ m.row = Len(rows) + 1 /\ m.now = calls[c].now
      BY <1>c DEF Call
    <3> HIDE DEF m, new
    <3>3. /\ Len(rows) \in Nat /\ Len(rows') = Len(rows) + 1
          /\ DOMAIN rows' = 1 .. Len(rows) + 1 /\ DOMAIN rows = 1 .. Len(rows)
          /\ \A r \in DOMAIN rows : rows'[r] = rows[r]
      BY <1>c, <3>1
    <3>4. /\ calls'[c] = m
          /\ \A d \in Callers : d # c => calls'[d] = calls[d]
      BY <1>c, <3>1
    <3>5. \A r \in DOMAIN rows : rows[r].state = "gone"
      BY <2>1 DEF NoRow, Live
    <3>6. LastIsLive'
      BY <3>3, <3>5 DEF LastIsLive
    <3>7. Held(c)'
      BY <1>a, <3>1, <3>2, <3>3, <3>4 DEF Held, Executing
    <3>8. calls'[c].phase \notin Executing
      BY <3>2, <3>4 DEF Executing
    <3>9. \A r \in DOMAIN rows :
             /\ r \in DOMAIN rows'
             /\ RowKept(r)
             /\ rows[r].state \in {"claimed", "gone"} =>
                  rows'[r].state \in {"claimed", "gone"}
      BY <3>3 DEF RowKept
    <3>10. /\ \A d \in Callers : d # c => Held(d)'
           /\ Alone'
           /\ \A i \in DOMAIN effects' : Charged(i)'
           /\ Distinct'
      BY <1>b, <3>1, <3>4, <3>8, <3>9, Frame
    <3> QED
      BY <1>b, <3>6, <3>7, <3>10 DEF IInv
  <2>2. CASE ~NoRow
    <3>1. Goto(c, "find") /\ UNCHANGED <<rows, effects, clock>>
      BY <1>3, <2>2 DEF Create
    <3>2. calls'[c].phase = "find" /\ calls'[c].now = calls[c].now
          /\ \A d \in Callers : d # c => calls'[d] = calls[d]
      BY <1>f, <3>1
    <3>3. Held(c)' /\ calls'[c].phase \notin Executing
      BY <1>a, <3>1, <3>2 DEF Held, Executing
    <3> QED
      BY <1>b, <3>1, <3>2, <3>3, QuietFrame
  <2> QED
    BY <2>1, <2>2
<1>4. CASE Find(c)
  <2>1. UNCHANGED <<rows, effects, clock>>
    BY <1>4 DEF Find
  <2>2. CASE Return(c)
    BY <1>b, <1>e, <2>1, <2>2, QuietFrame DEF Executing
  <2>3. CASE ~Return(c)
    <3>1. PICK r \in DOMAIN rows :
            calls' = [calls EXCEPT ![c] = [@ EXCEPT !.phase = "claim",
                                                    !.row = r]]
      BY <1>4, <2>3 DEF Find
    <3>2. /\ calls'[c].phase = "claim" /\ calls'[c].row = r
          /\ calls'[c].now = calls[c].now
          /\ \A d \in Callers : d # c => calls'[d] = calls[d]
      BY <1>c, <3>1 DEF Call
    <3>3. Held(c)' /\ calls'[c].phase \notin Executing
      BY <1>a, <2>1, <3>2 DEF Held, Executing
    <3> QED
      BY <1>b, <2>1, <3>2, <3>3, QuietFrame
  <2> QED
    BY <2>2, <2>3
<1>5. CASE Claim(c)
  <2>1. CASE Return(c) /\ UNCHANGED rows
    BY <1>5, <1>b, <1>e, <2>1, QuietFrame DEF Claim, Executing
  <2>2. CASE ~(Return(c) /\ UNCHANGED rows)
    <3> DEFINE k == calls[c].row
    <3>1. /\ k \in DOMAIN rows /\ rows[k].state = "fresh"
          /\ SetState(k, "claimed") /\ Goto(c, "operate")
          /\ effects' = effects /\ clock' = clock
      BY <1>5, <1>a, <2>2 DEF Claim, Held, MayClaim
    <3>2. /\ DOMAIN rows' = DOMAIN rows /\ rows'[k].state = "claimed"
          /\ rows'[k].expiresAt = rows[k].expiresAt
          /\ \A r \in DOMAIN rows : r # k => rows'[r] = rows[r]
      BY <1>d, <3>1 DEF SetState, Row
    <3>3. /\ calls'[c].phase = "operate" /\ calls'[c].row = k
          /\ calls'[c].now = calls[c].now
          /\ \A d \in Callers : d # c => calls'[d] = calls[d]
      BY <1>f, <3>1
    <3>4. k = Len(rows) /\ Len(rows') = Len(rows)
      BY <1>a, <1>b, <1>c, <3>1, <3>2 DEF LastIsLive, TypeOK
    <3>5. \A i \in DOMAIN effects : effects[i].row # k /\ ~(k < effects[i].row)
      <4>1. \A i \in DOMAIN effects : effects[i].row \in 1 .. Len(rows)
        BY <1>a, <1>c DEF Charged
      <4>2. \A i \in DOMAIN effects : effects[i].row # k
        BY <1>a, <3>1 DEF Charged
      <4> QED
        BY <1>c, <3>4, <4>1, <4>2
    <3>6. Over(k)'
      BY <1>c, <3>1, <3>2, <3>3, <3>5 DEF Over
    <3>7. Held(c)'
      BY <1>a, <3>1, <3>2, <3>3, <3>5, <3>6 DEF Held, Executing, Over
    <3>8. LastIsLive'
      BY <1>a, <3>1, <3>2, <3>4 DEF LastIsLive
    <3>9. \A r \in DOMAIN rows :
             /\ r \in DOMAIN rows'
             /\ RowKept(r)
             /\ rows[r].state \in {"claimed", "gone"} =>
                  rows'[r].state \in {"claimed", "gone"}
      BY <3>1, <3>2 DEF RowKept
    <3>10. \A d \in Callers :
                 d # c /\ calls[d].phase \in Executing
                     => calls[d].row # calls'[c].row
      <4>1. \A d \in Callers : calls[d].phase \in Executing =>
              rows[calls[d].row].state \in {"claimed", "gone"}
        BY DEF IInv, Held
      <4> QED
        BY <3>1, <3>3, <4>1
    <3>11. /\ \A d \in Callers : d # c => Held(d)'
           /\ Alone'
           /\ \A i \in DOMAIN effects' : Charged(i)'
           /\ Distinct'
      BY <1>b, <3>1, <3>3, <3>9, <3>10, Frame
    <3> QED
      BY <1>b, <3>7, <3>8, <3>11 DEF IInv
  <2> QED
    BY <2>1, <2>2
<1>6. CASE Fail(c)
  <2>1. /\ Goto(c, "failed") /\ UNCHANGED <<rows, effects, clock>>
        /\ calls[c].phase = "operate"
    BY <1>6 DEF Fail, FailsBeforeCommit
  <2>2. /\ calls'[c].phase = "failed" /\ calls'[c].row = calls[c].row
        /\ calls'[c].now = calls[c].now
        /\ \A d \in Callers : d # c => calls'[d] = calls[d]
    BY <1>f, <2>1
  <2>3. calls[c].phase \in Executing
    BY <2>1 DEF Executing
  <2>4. Held(c)'
    BY <1>a, <2>1, <2>2, <2>3 DEF Held, Executing, Over
  <2> QED
    BY <1>b, <2>1, <2>2, <2>3, <2>4, QuietFrame
<1>7. CASE Release(c)
  <2> DEFINE k == calls[c].row
  <2>1. /\ k \in DOMAIN rows /\ calls[c].phase = "failed"
        /\ Return(c) /\ effects' = effects /\ clock' = clock
    BY <1>7, <1>a DEF Release, Held, Executing
  <2>2. /\ DOMAIN rows' = DOMAIN rows
        /\ rows'[k].expiresAt = rows[k].expiresAt
        /\ rows'[k].state = "gone" \/ rows'[k] = rows[k]
        /\ \A r \in DOMAIN rows : r # k => rows'[r] = rows[r]
    BY <1>7, <1>d, <2>1 DEF Release, Row
  <2>3. LastIsLive'
    <3>1. Len(rows') = Len(rows)
      BY <1>b, <1>c, <2>2 DEF TypeOK
    <3> QED
      BY <1>a, <2>2, <3>1 DEF LastIsLive
  <2>4. \A r \in DOMAIN rows :
             /\ r \in DOMAIN rows'
             /\ RowKept(r) \/ (calls[c].phase = "failed" /\ calls[c].row = r)
             /\ rows[r].state \in {"claimed", "gone"} =>
                  \/ rows'[r].state \in {"claimed", "gone"}
                  \/ calls[c].phase \in Executing /\ calls[c].row = r
    BY <2>1, <2>2 DEF RowKept
  <2>5. calls'[c].phase \notin Executing
    BY <1>e, <2>1 DEF Executing
  <2>6. /\ \A d \in Callers : d # c => Held(d)'
        /\ Alone'
        /\ \A i \in DOMAIN effects' : Charged(i)'
        /\ Distinct'
    BY <1>b, <1>e, <2>1, <2>4, <2>5, Frame
  <2> QED
    BY <1>b, <1>e, <2>1, <2>3, <2>6 DEF IInv
<1>8. CASE Complete(c)
  <2> DEFINE k == calls[c].row
  <2>1. /\ k \in DOMAIN rows /\ calls[c].phase \in Executing
        /\ rows[k].state \in {"claimed", "gone"}
        /\ Return(c) /\ effects' = effects /\ clock' = clock
    BY <1>8, <1>a DEF Complete, Held, Executing
  <2>2. /\ DOMAIN rows' = DOMAIN rows
        /\ rows'[k].expiresAt = rows[k].expiresAt
        /\ \/ rows'[k].state = "completed" /\ rows[k].state # "gone"
           \/ rows'[k] = rows[k]
        /\ \A r \in DOMAIN rows : r # k => rows'[r] = rows[r]
    BY <1>8, <1>d, <2>1 DEF Complete, Live, Row
  <2>3. LastIsLive'
    <3>1. Len(rows') = Len(rows)
      BY <1>b, <1>c, <2>2 DEF TypeOK
    <3> QED
      BY <1>a, <2>2, <3>1 DEF LastIsLive
  <2>4. \A r \in DOMAIN rows :
             /\ r \in DOMAIN rows'
             /\ RowKept(r)
             /\ rows[r].state \in {"claimed", "gone"} =>
                  \/ rows'[r].state \in {"claimed", "gone"}
                  \/ calls[c].phase \in Executing /\ calls[c].row = r
    BY <2>1, <2>2 DEF RowKept
  <2>5. calls'[c].phase \notin Executing
    BY <1>e, <2>1 DEF Executing
  <2>6. /\ \A d \in Callers : d # c => Held(d)'
        /\ Alone'
        /\ \A i \in DOMAIN effects' : Charged(i)'
        /\ Distinct'
    BY <1>b, <1>e, <2>1, <2>4, <2>5, Frame
  <2> QED
    BY <1>b, <1>e, <2>1, <2>3, <2>6 DEF IInv
<1>9. CASE Crash(c)
  <2>1. Return(c) /\ UNCHANGED <<rows, effects, clock>>
    BY <1>9 DEF Crash
  <2> QED
    BY <1>b, <1>e, <2>1, QuietFrame DEF Executing
<1>10. CASE Commit(c)
  BY <1>10, CommitIInv DEF Commit
<1> QED
  BY <1>1, <1>2, <1>3, <1>4, <1>5, <1>6, <1>7, <1>8, <1>9, <1>10 DEF Step

LEMMA TickIInv == ASSUME IInv, Tick PROVE IInv'
<1>1. UNCHANGED <<rows, calls, effects, answers>> /\ clock' = clock + 1
      /\ clock \in Nat /\ rows \in Seq(Row)
  BY DEF Tick, IInv, TypeOK
<1>2. TypeOK'
  BY <1>1 DEF IInv, TypeOK
<1>3. \A c \in Callers : calls[c] \in Call /\ Held(c)
  BY DEF IInv, TypeOK
<1>4. \A c \in Callers : calls[c].now \in Nat
  BY <1>3 DEF Call
<1>5. \A r \in DOMAIN rows : rows[r].expiresAt \in Nat
  <2>1. \A r \in DOMAIN rows : rows[r] \in Row
    BY <1>1
  <2> QED
    BY <2>1 DEF Row
<1>6. ASSUME NEW r \in DOMAIN rows, Over(r) PROVE Over(r)'
  BY <1>1, <1>5, <1>6 DEF Over
<1>7. \A c \in Callers : Held(c)'
  <2> SUFFICES ASSUME NEW c \in Callers PROVE Held(c)'
    OBVIOUS
  <2>1. calls[c].phase \in Executing => Over(calls[c].row)'
    <3> SUFFICES ASSUME calls[c].phase \in Executing
                 PROVE  Over(calls[c].row)'
      OBVIOUS
    <3>1. PICK r \in DOMAIN rows : r = calls[c].row
      BY <1>3 DEF Held
    <3>2. Over(r)'
      BY <1>3, <1>6, <3>1 DEF Held
    <3> QED
      BY <1>1, <3>1, <3>2 DEF Over
  <2> QED
    BY <1>1, <1>3, <1>4, <2>1 DEF Held
<1>8. \A i \in DOMAIN effects' : Charged(i)'
  <2> SUFFICES ASSUME NEW i \in DOMAIN effects PROVE Charged(i)'
    BY <1>1
  <2>1. PICK r \in DOMAIN rows : r = effects[i].row
    BY DEF IInv, Charged
  <2>2. Over(r) /\ rows[r].state # "fresh"
    BY <2>1 DEF IInv, Charged
  <2>3. Over(r)'
    BY <1>6, <2>2
  <2> QED
    BY <1>1, <2>1, <2>2, <2>3 DEF Charged, Over
<1>9. LastIsLive' /\ Alone' /\ Distinct'
  BY <1>1 DEF IInv, LastIsLive, Alone, Distinct
<1> QED
  BY <1>2, <1>7, <1>8, <1>9 DEF IInv

LEMMA StutterIInv == ASSUME IInv, UNCHANGED vars PROVE IInv'
  BY DEF IInv, vars, TypeOK, LastIsLive, Held, Over, Alone, Charged, Distinct

-----------------------------------------------------------------------------
(* The theorems. *)

\* If operations throw only before they commit, the invariant is kept by
\* every step of every call, crashes included.
LEMMA Invariance == ASSUME FailsBeforeCommit PROVE Spec => []IInv
<1>1. IInv /\ [Next]_vars => IInv'
  BY FailsBeforeCommit, StepIInv, TickIInv, StutterIInv DEF Next
<1> QED
  BY InitIInv, <1>1, PTL DEF Spec

\* The sentinel of idempotency.service.ts gives a ledger row to one call,
\* whoever created the row and however many calls saw its null response.
THEOREM RowHasOneExecutor ==
  ASSUME FailsBeforeCommit PROVE Spec => []OneExecutor
<1>1. IInv => OneExecutor
  BY DEF IInv, Alone, OneExecutor, Executing
<1> QED
  BY <1>1, Invariance, PTL

\* One key makes at most one mutation per retention window, provided that the
\* wrapped operation does not throw after its commit.
THEOREM MutatesOncePerWindow ==
  ASSUME FailsBeforeCommit PROVE Spec => []AtMostOncePerWindow
<1>1. IInv => AtMostOncePerWindow
  BY DEF IInv, Charged, Over, Distinct, AtMostOncePerWindow
<1> QED
  BY <1>1, Invariance, PTL

-----------------------------------------------------------------------------
(* Answers.  They need no assumption on when operations throw: a call and    *)
(* the row it holds have the same payload from the start, and a mutation is  *)
(* reported by its own call, or by a row that this call completed.           *)

\* What a call brings to the row it holds, and what it reports.
Sourced(c) ==
    /\ RowKnown(c)
    /\ calls[c].phase \in {"claim"} \cup Executing =>
          rows[calls[c].row].payload = calls[c].payload
    /\ calls[c].phase = "committed" =>
          /\ calls[c].result \in DOMAIN effects
          /\ effects[calls[c].result].row = calls[c].row
          /\ effects[calls[c].result].payload = calls[c].payload

\* What a completed row replays was made under it, and with its payload.
RowsReplay ==
    \A r \in DOMAIN rows :
        rows[r].state = "completed" =>
            /\ rows[r].result \in DOMAIN effects
            /\ effects[rows[r].result].row = r
            /\ effects[rows[r].result].payload = rows[r].payload

AnswerInv == /\ TypeOK
             /\ \A c \in Callers : Sourced(c)
             /\ RowsReplay
             /\ AnswersAreTheCallers

\* Mutations are never taken back, nor rows given other payloads.
HistoryKept ==
    /\ \A i \in DOMAIN effects : i \in DOMAIN effects' /\ effects'[i] = effects[i]
    /\ \A r \in DOMAIN rows :
          r \in DOMAIN rows' /\ rows'[r].payload = rows[r].payload

LEMMA SourcedKept ==
  ASSUME HistoryKept, NEW d \in Callers, Sourced(d), calls'[d] = calls[d]
  PROVE  Sourced(d)'
  BY DEF HistoryKept, Sourced, RowKnown

\* A step that completes no row, answers nobody, and whose call is sourced.
LEMMA SourcedFrame ==
  ASSUME AnswerInv, TypeOK', NEW c \in Callers, HistoryKept, UNCHANGED answers,
         \A d \in Callers : d # c => calls'[d] = calls[d],
         Sourced(c)',
         \A r \in DOMAIN rows' :
             rows'[r].state = "completed" =>
                 r \in DOMAIN rows /\ rows'[r] = rows[r]
  PROVE  AnswerInv'
<1>1. \A d \in Callers : Sourced(d)'
  BY SourcedKept DEF AnswerInv
<1>2. RowsReplay'
  BY DEF AnswerInv, RowsReplay, HistoryKept
<1>3. AnswersAreTheCallers'
  BY DEF AnswerInv, AnswersAreTheCallers, HistoryKept
<1> QED
  BY <1>1, <1>2, <1>3 DEF AnswerInv

LEMMA StepAnswerInv ==
  ASSUME AnswerInv, NEW c \in Callers, Step(c)
  PROVE  AnswerInv'
<1>a. /\ TypeOK /\ Sourced(c) /\ RowKnown(c)
      /\ \A d \in Callers : Sourced(d)
  BY DEF AnswerInv, Sourced
<1>b. TypeOK'
  BY <1>a, StepTypeOK
<1>c. /\ calls \in [Callers -> Call] /\ calls[c] \in Call /\ rows \in Seq(Row)
      /\ effects \in Seq(Effect)
  BY <1>a DEF TypeOK
<1>d. \A r \in DOMAIN rows : rows[r] \in Row
  BY <1>c
<1>e. ASSUME Return(c)
      PROVE  Sourced(c)' /\ \A d \in Callers : d # c => calls'[d] = calls[d]
  <2>1. calls'[c].phase = "idle"
    BY <1>c, <1>e DEF Return, Idle
  <2>2. \A d \in Callers : d # c => calls'[d] = calls[d]
    BY <1>c, <1>e DEF Return
  <2> QED
    BY <2>1, <2>2 DEF Sourced, RowKnown, Executing
<1>f. ASSUME NEW p, Goto(c, p)
      PROVE  /\ calls'[c].phase = p /\ calls'[c].row = calls[c].row
             /\ calls'[c].payload = calls[c].payload
             /\ \A d \in Callers : d # c => calls'[d] = calls[d]
  BY <1>c, <1>f DEF Goto, Call
<1>g. UNCHANGED <<rows, effects>> => HistoryKept
  BY DEF HistoryKept
<1>1. CASE Execute(c)
  <2>1. /\ calls'[c].phase = "purge" /\ UNCHANGED <<rows, effects, answers>>
        /\ \A d \in Callers : d # c => calls'[d] = calls[d]
    BY <1>1, <1>c DEF Execute, Idle
  <2>2. Sourced(c)'
    BY <2>1 DEF Sourced, RowKnown, Executing
  <2> QED
    BY <1>b, <1>g, <2>1, <2>2, SourcedFrame
<1>2. CASE Purge(c)
  <2>1. /\ calls'[c].phase = "create" /\ UNCHANGED <<effects, answers>>
        /\ \A d \in Callers : d # c => calls'[d] = calls[d]
    BY <1>2, <1>f DEF Purge
  <2>2. DOMAIN rows' = DOMAIN rows
    BY <1>2 DEF Purge
  <2>3. ASSUME NEW r \in DOMAIN rows
        PROVE  /\ rows'[r].payload = rows[r].payload
               /\ rows'[r].state = "completed" => rows'[r] = rows[r]
    <3>1. rows'[r] = IF Expired(r, calls[c].now)
                       THEN [rows[r] EXCEPT !.state = "gone"] ELSE rows[r]
      BY <1>2 DEF Purge
    <3>2. rows[r] \in Row
      BY <1>d
    <3> QED
      BY <3>1, <3>2 DEF Row
  <2>4. HistoryKept /\ Sourced(c)'
    BY <2>1, <2>2, <2>3 DEF HistoryKept, Sourced, RowKnown, Executing
  <2> QED
    BY <1>b, <2>1, <2>2, <2>3, <2>4, SourcedFrame
<1>3. CASE Create(c)
  <2>1. CASE NoRow
    <3> DEFINE new == [state |-> "fresh", payload |-> calls[c].payload,
                       expiresAt |-> calls[c].now + Retention, result |-> 0]
               m == [calls[c] EXCEPT !.phase = "claim", !.row = Len(rows) + 1]
    <3>1. /\ rows' = Append(rows, new) /\ calls' = [calls EXCEPT ![c] = m]
          /\ UNCHANGED <<effects, answers>>
      BY <1>3, <2>1 DEF Create
    <3>2. /\ m.phase = "claim" /\ m.row = Len(rows) + 1
          /\ m.payload = calls[c].payload
          /\ new.payload = calls[c].payload /\ new.state = "fresh"
      BY <1>c DEF Call
    <3> HIDE DEF m, new
    <3>3. /\ Len(rows) + 1 \in DOMAIN rows' /\ rows'[Len(rows) + 1] = new
          /\ \A r \in DOMAIN rows : r \in DOMAIN rows' /\ rows'[r] = rows[r]
          /\ \A r \in DOMAIN rows' : r \in DOMAIN rows \/ r = Len(rows) + 1
      BY <1>c, <3>1
    <3>4. /\ calls'[c] = m
          /\ \A d \in Callers : d # c => calls'[d] = calls[d]
      BY <1>c, <3>1
    <3>5. HistoryKept
      BY <3>1, <3>3 DEF HistoryKept
    <3>6. Sourced(c)'
      BY <3>2, <3>3, <3>4 DEF Sourced, RowKnown, Executing
    <3>7. \A r \in DOMAIN rows' :
             rows'[r].state = "completed" =>
                 r \in DOMAIN rows /\ rows'[r] = rows[r]
      BY <3>2, <3>3
    <3> QED
      BY <1>b, <3>1, <3>4, <3>5, <3>6, <3>7, SourcedFrame
  <2>2. CASE ~NoRow
    <3>1. Goto(c, "find") /\ UNCHANGED <<rows, effects, answers>>
      BY <1>3, <2>2 DEF Create
    <3>2. /\ calls'[c].phase = "find"
          /\ \A d \in Callers : d # c => calls'[d] = calls[d]
      BY <1>f, <3>1
    <3>3. Sourced(c)'
      BY <3>2 DEF Sourced, RowKnown, Executing
    <3> QED
      BY <1>b, <1>g, <3>1, <3>2, <3>3, SourcedFrame
  <2> QED
    BY <2>1, <2>2
<1>4. CASE Find(c)
  <2>1. UNCHANGED <<rows, effects, clock>>
    BY <1>4 DEF Find
  <2>2. CASE Return(c) /\ UNCHANGED answers
    BY <1>b, <1>e, <1>g, <2>1, <2>2, SourcedFrame
  <2>3. ASSUME NEW r \in DOMAIN rows, rows[r].payload = calls[c].payload,
               UNCHANGED answers,
               calls' = [calls EXCEPT ![c] = [@ EXCEPT !.phase = "claim",
                                                       !.row = r]]
        PROVE  AnswerInv'
    <3>1. /\ calls'[c].phase = "claim" /\ calls'[c].row = r
          /\ calls'[c].payload = calls[c].payload
          /\ \A d \in Callers : d # c => calls'[d] = calls[d]
      BY <1>c, <2>3 DEF Call
    <3>2. Sourced(c)'
      BY <2>1, <2>3, <3>1 DEF Sourced, RowKnown, Executing
    <3> QED
      BY <1>b, <1>g, <2>1, <2>3, <3>1, <3>2, SourcedFrame
  \* A replay: the row's mutation was made with the row's payload.
  <2>4. ASSUME NEW r \in DOMAIN rows, rows[r].payload = calls[c].payload,
               rows[r].state = "completed", Return(c),
               answers' = answers \cup {[payload |-> calls[c].payload,
                                         effect |-> rows[r].result]}
        PROVE  AnswerInv'
    <3>1. /\ rows[r].result \in DOMAIN effects
          /\ effects[rows[r].result].payload = calls[c].payload
      BY <2>4 DEF AnswerInv, RowsReplay
    <3>2. AnswersAreTheCallers'
      BY <2>1, <2>4, <3>1 DEF AnswerInv, AnswersAreTheCallers
    <3>3. \A d \in Callers : Sourced(d)'
      BY <1>a, <1>e, <1>g, <2>1, <2>4, SourcedKept
    <3>4. RowsReplay'
      BY <2>1 DEF AnswerInv, RowsReplay
    <3> QED
      BY <1>b, <3>2, <3>3, <3>4 DEF AnswerInv
  <2>5. CASE NoRow /\ Return(c) /\ UNCHANGED answers
    BY <2>2, <2>5
  <2>6. ASSUME NEW r \in DOMAIN rows,
               CASE rows[r].payload # calls[c].payload ->
                      Return(c) /\ UNCHANGED answers
                 [] rows[r].payload = calls[c].payload
                    /\ rows[r].state = "completed" ->
                      /\ answers' = answers \cup
                           {[payload |-> calls[c].payload,
                             effect |-> rows[r].result]}
                      /\ Return(c)
                 [] rows[r].payload = calls[c].payload
                    /\ rows[r].state = "claimed" ->
                      Return(c) /\ UNCHANGED answers
                 [] OTHER ->
                      /\ calls' = [calls EXCEPT ![c] = [@ EXCEPT
                                     !.phase = "claim", !.row = r]]
                      /\ UNCHANGED answers
        PROVE  AnswerInv'
    <3>1. CASE rows[r].payload # calls[c].payload
      BY <2>2, <2>6, <3>1
    <3>2. CASE rows[r].payload = calls[c].payload /\ rows[r].state = "completed"
      BY <2>4, <2>6, <3>2
    <3>3. CASE rows[r].payload = calls[c].payload /\ rows[r].state = "claimed"
      BY <2>2, <2>6, <3>3
    <3>4. CASE /\ rows[r].payload = calls[c].payload
               /\ rows[r].state \notin {"completed", "claimed"}
      BY <2>3, <2>6, <3>4
    <3> QED
      BY <3>1, <3>2, <3>3, <3>4
  <2> QED
    BY <1>4, <2>5, <2>6 DEF Find
<1>5. CASE Claim(c)
  <2> DEFINE k == calls[c].row
  <2>1. CASE Return(c) /\ UNCHANGED rows
    BY <1>5, <1>b, <1>e, <1>g, <2>1, SourcedFrame DEF Claim
  <2>2. CASE SetState(k, "claimed") /\ Goto(c, "operate")
    <3>1. /\ k \in DOMAIN rows /\ rows[k].payload = calls[c].payload
          /\ UNCHANGED <<effects, answers>>
      BY <1>5, <1>a DEF Claim, Sourced, RowKnown
    <3>2. /\ DOMAIN rows' = DOMAIN rows /\ rows'[k].state = "claimed"
          /\ rows'[k].payload = rows[k].payload
          /\ \A r \in DOMAIN rows : r # k => rows'[r] = rows[r]
      BY <1>d, <2>2, <3>1 DEF SetState, Row
    <3>3. /\ calls'[c].phase = "operate" /\ calls'[c].row = k
          /\ calls'[c].payload = calls[c].payload
          /\ \A d \in Callers : d # c => calls'[d] = calls[d]
      BY <1>f, <2>2
    <3>4. HistoryKept
      BY <3>1, <3>2 DEF HistoryKept
    <3>5. Sourced(c)'
      BY <3>1, <3>2, <3>3 DEF Sourced, RowKnown
    <3> QED
      BY <1>b, <3>1, <3>2, <3>3, <3>4, <3>5, SourcedFrame
  <2> QED
    BY <1>5, <2>1, <2>2 DEF Claim
<1>6. CASE Commit(c)
  <2> DEFINE n == Len(effects) + 1
             e == [row |-> calls[c].row, payload |-> calls[c].payload,
                   at |-> clock]
             m == [calls[c] EXCEPT !.phase = "committed", !.result = n]
  <2>1. /\ effects' = Append(effects, e) /\ calls' = [calls EXCEPT ![c] = m]
        /\ UNCHANGED <<rows, answers>> /\ calls[c].phase = "operate"
    BY <1>6 DEF Commit
  <2>2. /\ e.row = calls[c].row /\ e.payload = calls[c].payload
        /\ m.phase = "committed" /\ m.result = n
        /\ m.row = calls[c].row /\ m.payload = calls[c].payload
    BY <1>c DEF Call
  <2> HIDE DEF e, m
  <2>3. /\ n \in DOMAIN effects' /\ effects'[n] = e
        /\ \A i \in DOMAIN effects :
              i \in DOMAIN effects' /\ effects'[i] = effects[i]
    BY <1>c, <2>1
  <2>4. /\ calls'[c] = m
        /\ \A d \in Callers : d # c => calls'[d] = calls[d]
    BY <1>c, <2>1
  <2>5. HistoryKept
    BY <2>1, <2>3 DEF HistoryKept
  <2>6. /\ calls[c].row \in DOMAIN rows
        /\ rows[calls[c].row].payload = calls[c].payload
    BY <1>a, <2>1 DEF Sourced, RowKnown, Executing
  <2>7. Sourced(c)'
    BY <2>1, <2>2, <2>3, <2>4, <2>6 DEF Sourced, RowKnown
  <2> QED
    BY <1>b, <2>1, <2>4, <2>5, <2>7, SourcedFrame
<1>7. CASE Fail(c)
  <2>1. /\ Goto(c, "failed") /\ UNCHANGED <<rows, effects, answers>>
        /\ calls[c].phase \in Executing
    BY <1>7 DEF Fail, Executing
  <2>2. /\ calls'[c].phase = "failed" /\ calls'[c].row = calls[c].row
        /\ calls'[c].payload = calls[c].payload
        /\ \A d \in Callers : d # c => calls'[d] = calls[d]
    BY <1>f, <2>1
  <2>3. Sourced(c)'
    BY <1>a, <2>1, <2>2 DEF Sourced, RowKnown
  <2> QED
    BY <1>b, <1>g, <2>1, <2>2, <2>3, SourcedFrame
<1>8. CASE Release(c)
  <2> DEFINE k == calls[c].row
  <2>1. /\ k \in DOMAIN rows /\ Return(c) /\ UNCHANGED <<effects, answers>>
    BY <1>8, <1>a DEF Release, RowKnown, Executing
  <2>2. /\ DOMAIN rows' = DOMAIN rows
        /\ \A r \in DOMAIN rows :
              /\ rows'[r].payload = rows[r].payload
              /\ rows'[r].state = "completed" => rows'[r] = rows[r]
    BY <1>8, <1>d, <2>1 DEF Release, Row
  <2>3. HistoryKept
    BY <2>1, <2>2 DEF HistoryKept
  <2> QED
    BY <1>b, <1>e, <2>1, <2>2, <2>3, SourcedFrame
<1>9. CASE Complete(c)
  <2> DEFINE k == calls[c].row
             n == calls[c].result
  <2>1. /\ k \in DOMAIN rows /\ rows[k].payload = calls[c].payload
        /\ n \in DOMAIN effects /\ effects[n].row = k
        /\ effects[n].payload = calls[c].payload
        /\ Return(c) /\ UNCHANGED effects
    BY <1>9, <1>a DEF Complete, Sourced, RowKnown, Executing
  <2>2. CASE UNCHANGED <<rows, answers>>
    BY <1>b, <1>e, <1>g, <2>1, <2>2, SourcedFrame
  <2>3. ASSUME rows' = [rows EXCEPT ![k] = [@ EXCEPT !.state = "completed",
                                                    !.result = n]],
               answers' = answers \cup {[payload |-> calls[c].payload,
                                         effect |-> n]}
        PROVE  AnswerInv'
    <3>1. /\ DOMAIN rows' = DOMAIN rows
          /\ rows'[k].payload = rows[k].payload /\ rows'[k].result = n
          /\ \A r \in DOMAIN rows : r # k => rows'[r] = rows[r]
      BY <1>d, <2>1, <2>3 DEF Row
    <3>2. HistoryKept
      BY <2>1, <3>1 DEF HistoryKept
    <3>3. \A d \in Callers : Sourced(d)'
      BY <1>a, <1>e, <2>1, <3>2, SourcedKept
    <3>4. RowsReplay'
      BY <2>1, <3>1 DEF AnswerInv, RowsReplay
    <3>5. AnswersAreTheCallers'
      BY <2>1, <2>3 DEF AnswerInv, AnswersAreTheCallers
    <3> QED
      BY <1>b, <3>3, <3>4, <3>5 DEF AnswerInv
  <2> QED
    BY <1>9, <2>2, <2>3 DEF Complete
<1>10. CASE Crash(c)
  BY <1>10, <1>b, <1>e, <1>g, SourcedFrame DEF Crash
<1> QED
  BY <1>1, <1>2, <1>3, <1>4, <1>5, <1>6, <1>7, <1>8, <1>9, <1>10 DEF Step

\* The invariant of the answers holds also when operations throw after their
\* commit.
LEMMA AnswerInvariance == Spec => []AnswerInv
<1>1. Init => AnswerInv
  <2> SUFFICES ASSUME Init PROVE AnswerInv
    OBVIOUS
  <2>1. TypeOK
    BY IdleType DEF Init, TypeOK
  <2>2. \A c \in Callers : calls[c].phase = "idle"
    BY DEF Init, Idle
  <2> QED
    BY <2>1, <2>2
    DEF Init, AnswerInv, Sourced, RowKnown, Executing, RowsReplay,
        AnswersAreTheCallers
<1>2. AnswerInv /\ [Next]_vars => AnswerInv'
  <2> SUFFICES ASSUME AnswerInv, [Next]_vars PROVE AnswerInv'
    OBVIOUS
  <2>1. ASSUME NEW c \in Callers, Step(c) PROVE AnswerInv'
    BY <2>1, StepAnswerInv
  <2>2. CASE Tick \/ UNCHANGED vars
    <3>1. UNCHANGED <<rows, calls, effects, answers>> /\ clock' \in Nat
      BY <2>2 DEF Tick, vars, AnswerInv, TypeOK
    <3> QED
      BY <3>1 DEF AnswerInv, TypeOK, Sourced, RowKnown, RowsReplay,
                  AnswersAreTheCallers
  <2> QED
    BY <2>1, <2>2 DEF Next
<1> QED
  BY <1>1, <1>2, PTL DEF Spec

\* The ledger, the calls and the histories always have their types.
THEOREM LedgerTypes == Spec => []TypeOK
<1>1. AnswerInv => TypeOK
  BY DEF AnswerInv
<1> QED
  BY <1>1, AnswerInvariance, PTL

\* Nobody is told of a mutation made with other data than the call's own.
THEOREM AnswersMatchTheirCalls == Spec => []AnswersAreTheCallers
<1>1. AnswerInv => AnswersAreTheCallers
  BY DEF AnswerInv
<1> QED
  BY <1>1, AnswerInvariance, PTL

\* A completed row replays the mutation made under it, however many calls
\* held it before and whatever they did.
THEOREM RowsReplayTheirOwn == Spec => []ReplaysItsOwnEffect
<1>1. AnswerInv => ReplaysItsOwnEffect
  BY DEF AnswerInv, RowsReplay, ReplaysItsOwnEffect
<1> QED
  BY <1>1, AnswerInvariance, PTL

=============================================================================
