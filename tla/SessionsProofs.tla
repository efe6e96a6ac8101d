--------------------------- MODULE SessionsProofs ---------------------------
(* Proofs about Sessions and the rate limiter in it, for any limit, window,  *)
(* and number of requests.                                                   *)
EXTENDS Sessions, TLAPS

-----------------------------------------------------------------------------
(* Passes are grouped by windows; the windows of two groups do not overlap.  *)

\* Every pass belongs to the current window or to one that ended before.
WindowsInOrder ==
    /\ \A i \in 1 .. Len(passes) :
          /\ passes[i].at < passes[i].window
          /\ passes[i].window <= passes[i].at + Window
          /\ passes[i].at <= clock
          /\ \/ passes[i].window = bucket.resetAt
             \/ passes[i].window + Window <= bucket.resetAt

\* The count covers the passes of the current window, which are the last ones.
CountCovers ==
    \A i \in 1 .. Len(passes) :
        passes[i].window = bucket.resetAt => Len(passes) + 1 <= bucket.count + i

\* Of Max + 1 passes in a row the last is in a later window than the first.
WindowsAreFull ==
    \A i \in 1 .. Len(passes) :
        i + Max <= Len(passes) =>
            passes[i].window + Window <= passes[i + Max].window

\* The current window was opened at a time that has been.
Opened == bucket.resetAt <= clock + Window

LimitInv == LimitTypeOK /\ Opened /\ WindowsInOrder /\ CountCovers /\ WindowsAreFull

-----------------------------------------------------------------------------

LEMMA BucketFacts ==
    ASSUME LimitInv
    PROVE  /\ Bucket \in [count : Nat, resetAt : Nat]
           /\ Counted \in [count : Nat, resetAt : Nat]
           /\ Counted.resetAt = Bucket.resetAt
           /\ Counted.count = Bucket.count + 1
           /\ clock < Counted.resetAt
           /\ Counted.resetAt <= clock + Window
           /\ \/ /\ Counted.resetAt = bucket.resetAt
                 /\ Counted.count = bucket.count + 1
              \/ bucket.resetAt + Window <= Counted.resetAt
<1>1. /\ bucket \in [count : Nat, resetAt : Nat] /\ clock \in Nat
      /\ Window \in Nat \ {0} /\ bucket.resetAt <= clock + Window
  BY LimitAssumption DEF LimitInv, LimitTypeOK, Opened
<1>2. CASE bucket.resetAt <= clock
  <2>1. Bucket = [count |-> 0, resetAt |-> clock + Window]
    BY <1>2 DEF Bucket
  <2>2. Counted = [count |-> 1, resetAt |-> clock + Window]
    BY <2>1 DEF Counted
  <2> QED
    BY <1>1, <1>2, <2>1, <2>2
<1>3. CASE ~(bucket.resetAt <= clock)
  <2>1. Bucket = bucket
    BY <1>3 DEF Bucket
  <2>2. Counted = [bucket EXCEPT !.count = bucket.count + 1]
    BY <2>1 DEF Counted
  <2>3. Counted.count = bucket.count + 1 /\ Counted.resetAt = bucket.resetAt
    BY <1>1, <2>2
  <2>4. Counted \in [count : Nat, resetAt : Nat]
    BY <1>1, <2>2
  <2> QED
    BY <1>1, <1>3, <2>1, <2>3, <2>4
<1> QED
  BY <1>2, <1>3

\* What a pass in the log says.
LEMMA PassTypes ==
    ASSUME LimitInv, NEW i \in 1 .. Len(passes)
    PROVE  passes[i].at \in Nat /\ passes[i].window \in Nat
<1> DEFINE Entry == [at : Nat, window : Nat]
<1>1. passes \in Seq(Entry)
  BY DEF LimitInv, LimitTypeOK
<1>2. passes[i] \in Entry
  <2> HIDE DEF Entry
  <2> QED
    BY <1>1
<1> QED
  BY <1>2

\* A window that has ended stays ended: all that was said of the current
\* window holds of the window of a request that is counted now.
LEMMA AfterCounting ==
    ASSUME LimitInv, NEW i \in 1 .. Len(passes)
    PROVE  /\ \/ passes[i].window = Counted.resetAt
              \/ passes[i].window + Window <= Counted.resetAt
           /\ passes[i].window = Counted.resetAt =>
                 Len(passes) + 2 <= Counted.count + i
<1> DEFINE w == passes[i].window
           new == Counted.resetAt
<1>1. /\ w \in Nat /\ new \in Nat /\ bucket.resetAt \in Nat
      /\ bucket.count \in Nat /\ Counted.count \in Nat
      /\ Window \in Nat \ {0} /\ Len(passes) \in Nat
  <2>1. w \in Nat
    BY PassTypes
  <2>2. Counted \in [count : Nat, resetAt : Nat]
    BY BucketFacts
  <2>3. /\ bucket \in [count : Nat, resetAt : Nat]
        /\ passes \in Seq([at : Nat, window : Nat])
    BY DEF LimitInv, LimitTypeOK
  <2>4. Len(passes) \in Nat
    BY <2>3
  <2> QED
    BY <2>1, <2>2, <2>3, <2>4, LimitAssumption
<1>2. w = bucket.resetAt \/ w + Window <= bucket.resetAt
  BY DEF LimitInv, WindowsInOrder
<1>3. w = bucket.resetAt => Len(passes) + 1 <= bucket.count + i
  BY DEF LimitInv, CountCovers
<1>4. \/ new = bucket.resetAt /\ Counted.count = bucket.count + 1
      \/ bucket.resetAt + Window <= new
  BY BucketFacts
<1> HIDE DEF w, new
<1>5. w = new \/ w + Window <= new
  BY <1>1, <1>2, <1>4
<1>6. w = new => Len(passes) + 2 <= Counted.count + i
  BY <1>1, <1>2, <1>3, <1>4
<1> QED
  BY <1>5, <1>6 DEF w, new

LEMMA RefuseKeeps ==
    ASSUME LimitInv, Refuse
    PROVE  LimitInv'
<1>1. bucket' = Counted /\ UNCHANGED <<clock, passes>>
  BY DEF Refuse
<1>2. LimitTypeOK'
  <2>1. RetryAfter(Counted) \in Nat
    <3>1. /\ Counted.resetAt \in Nat /\ clock \in Nat /\ clock < Counted.resetAt
      BY BucketFacts DEF LimitInv, LimitTypeOK
    <3>2. Counted.resetAt - clock + PerSecond - 1 \in Nat
      BY <3>1, LimitAssumption
    <3> QED
      BY <3>2, LimitAssumption DEF RetryAfter
  <2>2. [at |-> clock, window |-> Counted.resetAt, told |-> RetryAfter(Counted)]
          \in [at : Nat, window : Nat, told : Nat]
    BY <2>1, BucketFacts DEF LimitInv, LimitTypeOK
  <2> QED
    BY <1>1, <2>2, BucketFacts DEF LimitInv, LimitTypeOK, Refuse
<1>3. Opened'
  BY <1>1, BucketFacts DEF Opened
<1>4. WindowsInOrder'
  BY <1>1, AfterCounting DEF LimitInv, WindowsInOrder
<1>5. CountCovers'
  <2>1. ASSUME NEW i \in 1 .. Len(passes), passes[i].window = Counted.resetAt
        PROVE  Len(passes) + 1 <= Counted.count + i
    <3>1. Len(passes) + 2 <= Counted.count + i
      BY <2>1, AfterCounting
    <3>2. Len(passes) \in Nat /\ Counted.count \in Nat
      BY BucketFacts DEF LimitInv, LimitTypeOK
    <3> QED
      BY <3>1, <3>2
  <2> QED
    BY <1>1, <2>1 DEF CountCovers
<1>6. WindowsAreFull'
  BY <1>1 DEF LimitInv, WindowsAreFull
<1> QED
  BY <1>2, <1>3, <1>4, <1>5, <1>6 DEF LimitInv

LEMMA PassKeeps ==
    ASSUME LimitInv, Pass
    PROVE  LimitInv'
<1> DEFINE new == [at |-> clock, window |-> Counted.resetAt]
           n == Len(passes)
<1>1. /\ bucket' = Counted /\ passes' = Append(passes, new)
      /\ UNCHANGED <<clock, refusals>> /\ Counted.count <= Max
  BY DEF Pass, Admitted
<1>2. new \in [at : Nat, window : Nat]
  BY BucketFacts DEF LimitInv, LimitTypeOK
<1>3. /\ passes \in Seq([at : Nat, window : Nat]) /\ n \in Nat
  BY DEF LimitInv, LimitTypeOK
<1>4. /\ passes' \in Seq([at : Nat, window : Nat]) /\ Len(passes') = n + 1
      /\ passes'[n + 1] = new /\ \A i \in 1 .. n : passes'[i] = passes[i]
  BY <1>1, <1>2, <1>3
<1>5. /\ new.at = clock /\ new.window = Counted.resetAt
      /\ clock \in Nat /\ Counted.resetAt \in Nat /\ Counted.count \in Nat
      /\ clock < Counted.resetAt /\ Counted.resetAt <= clock + Window
      /\ Window \in Nat \ {0} /\ Max \in Nat \ {0}
  BY BucketFacts, LimitAssumption DEF LimitInv, LimitTypeOK
<1> HIDE DEF new, n
<1>6. LimitTypeOK'
  BY <1>1, <1>4, BucketFacts DEF LimitInv, LimitTypeOK
<1>7. Opened'
  BY <1>1, <1>5 DEF Opened
<1>8. ASSUME NEW i \in 1 .. n
      PROVE  /\ passes[i].at \in Nat /\ passes[i].window \in Nat
             /\ passes[i].at < passes[i].window
             /\ passes[i].window <= passes[i].at + Window
             /\ passes[i].at <= clock
             /\ \/ passes[i].window = Counted.resetAt
                \/ passes[i].window + Window <= Counted.resetAt
             /\ passes[i].window = Counted.resetAt => n + 2 <= Counted.count + i
  BY PassTypes, AfterCounting DEF n, LimitInv, WindowsInOrder
<1>9. WindowsInOrder'
  <2>1. ASSUME NEW i \in 1 .. n + 1
        PROVE  /\ passes'[i].at < passes'[i].window
               /\ passes'[i].window <= passes'[i].at + Window
               /\ passes'[i].at <= clock
               /\ \/ passes'[i].window = Counted.resetAt
                  \/ passes'[i].window + Window <= Counted.resetAt
    <3>1. CASE i = n + 1
      BY <1>4, <1>5, <3>1
    <3>2. CASE i \in 1 .. n
      BY <1>4, <1>8, <3>2
    <3> QED
      BY <1>3, <3>1, <3>2 DEF n
  <2> QED
    BY <1>1, <1>4, <2>1 DEF WindowsInOrder
<1>10. CountCovers'
  <2>1. ASSUME NEW i \in 1 .. n + 1, passes'[i].window = Counted.resetAt
        PROVE  n + 1 + 1 <= Counted.count + i
    <3>1. CASE i = n + 1
      <4>1. Counted.count # 0
        BY BucketFacts
      <4> QED
        BY <1>3, <1>5, <3>1, <4>1 DEF n
    <3>2. CASE i \in 1 .. n
      <4>1. n + 2 <= Counted.count + i
        BY <1>4, <1>8, <2>1, <3>2
      <4> QED
        BY <1>3, <4>1 DEF n
    <3> QED
      BY <1>3, <3>1, <3>2 DEF n
  <2> QED
    BY <1>1, <1>4, <2>1 DEF CountCovers
<1>11. WindowsAreFull'
  <2>1. ASSUME NEW i \in 1 .. n + 1, i + Max <= n + 1
        PROVE  passes'[i].window + Window <= passes'[i + Max].window
    <3>1. i \in 1 .. n /\ n \in Nat
      BY <1>3, <1>5, <2>1
    <3>2. CASE i + Max <= n
      <4>1. passes[i].window + Window <= passes[i + Max].window
        BY <3>1, <3>2 DEF LimitInv, WindowsAreFull, n
      <4>2. i + Max \in 1 .. n
        BY <1>5, <3>1, <3>2
      <4> QED
        BY <1>4, <3>1, <4>1, <4>2
    <3>3. CASE i + Max = n + 1
      <4>1. passes[i].window # Counted.resetAt
        BY <1>1, <1>5, <1>8, <3>1, <3>3
      <4>2. passes[i].window + Window <= Counted.resetAt
        BY <1>8, <3>1, <4>1
      <4> QED
        BY <1>4, <1>5, <3>1, <3>3, <4>2
    <3> QED
      BY <1>5, <2>1, <3>1, <3>2, <3>3
  <2> QED
    BY <1>1, <1>4, <2>1 DEF WindowsAreFull
<1> QED
  BY <1>6, <1>7, <1>9, <1>10, <1>11 DEF LimitInv

LEMMA ForgetKeeps ==
    ASSUME LimitInv, Forget
    PROVE  LimitInv'
<1>1. bucket' = [count |-> 0, resetAt |-> 0] /\ passes' = <<>>
      /\ refusals' = {} /\ clock' = clock /\ clock \in Nat
  BY DEF Forget, NoBucket, LimitInv, LimitTypeOK
<1> QED
  BY <1>1, LimitAssumption
     DEF LimitInv, LimitTypeOK, Opened, WindowsInOrder, CountCovers, WindowsAreFull

LEMMA TickKeeps ==
    ASSUME LimitInv, LimitTick
    PROVE  LimitInv'
<1>1. UNCHANGED <<bucket, passes, refusals>> /\ clock' = clock + 1
      /\ clock \in Nat /\ bucket.resetAt \in Nat /\ Window \in Nat
  BY LimitAssumption DEF LimitTick, LimitInv, LimitTypeOK
<1>2. LimitTypeOK' /\ Opened'
  BY <1>1 DEF LimitInv, LimitTypeOK, Opened
<1>3. ASSUME NEW i \in 1 .. Len(passes)
      PROVE  passes[i].at <= clock + 1
  <2>1. passes[i].at \in Nat /\ passes[i].at <= clock
    BY PassTypes DEF LimitInv, WindowsInOrder
  <2> QED
    BY <1>1, <2>1
<1>4. WindowsInOrder'
  BY <1>1, <1>3 DEF LimitInv, WindowsInOrder
<1>5. CountCovers' /\ WindowsAreFull'
  BY <1>1 DEF LimitInv, CountCovers, WindowsAreFull
<1> QED
  BY <1>2, <1>4, <1>5 DEF LimitInv

LEMMA LimitInitInv == LimitInit => LimitInv
  BY LimitAssumption
     DEF LimitInit, NoBucket, LimitInv, LimitTypeOK, Opened, WindowsInOrder,
         CountCovers, WindowsAreFull

LEMMA LimitNextInv ==
    ASSUME LimitInv, [LimitNext]_limitVars
    PROVE  LimitInv'
<1>1. CASE UNCHANGED limitVars
  BY <1>1 DEF limitVars, LimitInv, LimitTypeOK, Opened, WindowsInOrder,
              CountCovers, WindowsAreFull
<1> QED
  BY <1>1, PassKeeps, RefuseKeeps, ForgetKeeps, TickKeeps DEF LimitNext

-----------------------------------------------------------------------------
(* The theorems. *)

\* Three windows lie between 2 * Max + 1 passes in a row.
LEMMA WindowsAllow == LimitInv => AllowanceHolds
<1> SUFFICES ASSUME LimitInv, NEW i \in 1 .. Len(passes),
                    i + 2 * Max <= Len(passes)
             PROVE  passes[i + 2 * Max].at > passes[i].at + Window
  BY DEF AllowanceHolds
<1> DEFINE j == i + Max
           k == i + 2 * Max
<1>1. /\ j \in 1 .. Len(passes) /\ k \in 1 .. Len(passes) /\ k = j + Max
      /\ Window \in Nat \ {0}
  BY LimitAssumption DEF LimitInv, LimitTypeOK
<1>2. passes[i].window + Window <= passes[j].window
  BY <1>1 DEF LimitInv, WindowsAreFull
<1> HIDE DEF j, k
<1>3. passes[j].window + Window <= passes[k].window
  BY <1>1 DEF LimitInv, WindowsAreFull
<1> DEFINE a == passes[i].at    u == passes[i].window
           b == passes[k].at    v == passes[j].window   w == passes[k].window
<1>4. /\ passes[i].at \in Nat /\ passes[i].window \in Nat
      /\ passes[j].window \in Nat /\ passes[k].window \in Nat
      /\ passes[k].at \in Nat
  BY <1>1, PassTypes
<1>5. passes[i].at < passes[i].window
  BY DEF LimitInv, WindowsInOrder
<1>6. passes[k].window <= passes[k].at + Window
  BY <1>1 DEF LimitInv, WindowsInOrder
<1> QED
  <2>1. /\ a \in Nat /\ b \in Nat /\ u \in Nat /\ v \in Nat /\ w \in Nat
        /\ Window \in Nat /\ u + Window <= v /\ v + Window <= w
        /\ a < u /\ w <= b + Window
    BY <1>1, <1>2, <1>3, <1>4, <1>5, <1>6
  <2>2. b > a + Window
    <3> HIDE DEF a, b, u, v, w
    <3> QED
      BY <2>1
  <2> QED
    BY <2>2 DEF k

-----------------------------------------------------------------------------
(* The requests: every step is one of the limiter or leaves it alone. *)

\* The row a request may yet read is among those since it came in.
Watched == \A s \in Slots : work[s].phase # "idle" => user \in since[s]

IInv == LimitInv /\ TypeOK /\ LoginsAreAudited /\ ActsAsTheUserIs /\ Watched

LEMMA IdleType == Idle \in Requests
<1>1. Rows # {}
  <2>1. PICK p \in Passwords, r \in Roles : TRUE
    BY ValueAssumption
  <2>2. [status |-> "ACTIVE", password |-> p, role |-> r] \in Rows
    BY DEF Rows, UserStatuses
  <2> QED
    BY <2>2
<1>2. (CHOOSE p \in Passwords : TRUE) \in Passwords
  BY ValueAssumption
<1>3. (CHOOSE r \in Rows : TRUE) \in Rows
  BY <1>1
<1> QED
  BY <1>2, <1>3 DEF Idle, Requests, Phases

\* The limiter's invariant survives every step.
LEMMA LimiterKeeps ==
    ASSUME IInv, [Next]_vars
    PROVE  LimitInv'
<1>1. [LimitNext]_limitVars
  BY DEF Next, Step, vars, limitVars, LimitNext, ChangeUser, Restart, Tick,
         Login, FindUser, RefuseLogin, Sign, AdmitLogin, AuditFails, Request,
         Validate, Answer
<1> QED
  BY <1>1, LimitNextInv DEF IInv

\* What a request's own step leaves of the other requests' records.
LEMMA SlotKeeps ==
    ASSUME IInv, NEW s \in Slots, NEW q \in Requests, NEW h \in SUBSET Rows,
           work' = [work EXCEPT ![s] = q], since' = [since EXCEPT ![s] = h],
           user' = user,
           q.phase # "idle" => user \in h,
           q.phase \in {"sign", "admit", "handle"} =>
              q.row \in h /\ q.row.status = "ACTIVE",
           q.phase \in {"sign", "admit"} => q.row.password = q.password
    PROVE  /\ work' \in [Slots -> Requests] /\ since' \in [Slots -> SUBSET Rows]
           /\ ActsAsTheUserIs' /\ Watched'
<1>1. work \in [Slots -> Requests] /\ since \in [Slots -> SUBSET Rows]
  BY DEF IInv, TypeOK
<1>2. work' \in [Slots -> Requests] /\ since' \in [Slots -> SUBSET Rows]
  BY <1>1
<1>3. ASSUME NEW t \in Slots
      PROVE  /\ work'[t].phase \in {"sign", "admit", "handle"} =>
                   work'[t].row \in since'[t] /\ work'[t].row.status = "ACTIVE"
             /\ work'[t].phase \in {"sign", "admit"} =>
                   work'[t].row.password = work'[t].password
             /\ work'[t].phase # "idle" => user \in since'[t]
  <2>1. CASE t = s
    BY <1>1, <2>1
  <2>2. CASE t # s
    <3>1. work'[t] = work[t] /\ since'[t] = since[t]
      BY <1>1, <2>2
    <3> QED
      BY <3>1 DEF IInv, ActsAsTheUserIs, Watched
  <2> QED
    BY <2>1, <2>2
<1> QED
  BY <1>2, <1>3 DEF ActsAsTheUserIs, Watched

LEMMA LeaveKeeps ==
    ASSUME IInv, NEW s \in Slots, Leave(s), user' = user
    PROVE  /\ work' \in [Slots -> Requests] /\ since' \in [Slots -> SUBSET Rows]
           /\ ActsAsTheUserIs' /\ Watched'
<1>1. Idle.phase = "idle"
  BY DEF Idle
<1> QED
  BY <1>1, IdleType, SlotKeeps DEF Leave

\* What is left of the types when the limiter's part has been taken away.
LEMMA RestOfIInv ==
    ASSUME IInv, [Next]_vars,
           user' \in Rows, trail' \in [successes : Nat, failures : Nat],
           tokens' \subseteq Nat, answers' \in [tokens : Nat, refused : Nat],
           bounds' \in [arrivals : Nat, changes : Nat],
           work' \in [Slots -> Requests], since' \in [Slots -> SUBSET Rows],
           ActsAsTheUserIs', Watched', LoginsAreAudited'
    PROVE  IInv'
  BY LimiterKeeps DEF IInv, TypeOK, LimitInv

LEMMA InitIInv == Init => IInv
<1> SUFFICES ASSUME Init
             PROVE  IInv
  OBVIOUS
<1>1. LimitInv
  BY LimitInitInv DEF Init
<1>2. \A s \in Slots : work[s] = Idle /\ work[s].phase = "idle"
  BY DEF Init, Idle
<1>3. TypeOK
  BY <1>1, IdleType DEF Init, TypeOK, LimitInv
<1>4. LoginsAreAudited
  BY DEF Init, LoginsAreAudited
<1>5. ActsAsTheUserIs /\ Watched
  BY <1>2 DEF ActsAsTheUserIs, Watched
<1> QED
  BY <1>1, <1>3, <1>4, <1>5 DEF IInv

LEMMA StepIInv ==
    ASSUME IInv, NEW s \in Slots, Step(s)
    PROVE  IInv'
<1> DEFINE q == work[s]
<1>0. [Next]_vars
  BY DEF Next
<1>1. /\ work \in [Slots -> Requests] /\ since \in [Slots -> SUBSET Rows]
      /\ user \in Rows /\ trail \in [successes : Nat, failures : Nat]
      /\ answers \in [tokens : Nat, refused : Nat]
      /\ bounds \in [arrivals : Nat, changes : Nat]
      /\ tokens \subseteq Nat /\ clock \in Nat /\ LoginsAreAudited
  BY DEF IInv, TypeOK, LimitTypeOK
<1>2. q \in Requests /\ since[s] \in SUBSET Rows
  BY <1>1
<1>3. /\ q.password \in Passwords /\ q.row \in Rows /\ q.issuedAt \in Nat
      /\ q.phase \in Phases
  BY <1>2 DEF Requests
<1>4. /\ q.phase # "idle" => user \in since[s]
      /\ q.phase \in {"sign", "admit", "handle"} =>
            q.row \in since[s] /\ q.row.status = "ACTIVE"
      /\ q.phase \in {"sign", "admit"} => q.row.password = q.password
  BY DEF IInv, ActsAsTheUserIs, Watched
<1>5. since = [since EXCEPT ![s] = since[s]]
  BY <1>1
<1>6. ASSUME Arrive(s)
      PROVE  bounds' \in [arrivals : Nat, changes : Nat]
  BY <1>1, <1>6 DEF Arrive
<1>7. ASSUME UNCHANGED <<user, trail, tokens, answers, bounds>>,
             work' \in [Slots -> Requests], since' \in [Slots -> SUBSET Rows],
             ActsAsTheUserIs', Watched'
      PROVE  IInv'
  BY <1>0, <1>1, <1>7, RestOfIInv DEF LoginsAreAudited
<1>8. CASE Login(s)
  <2>1. CASE Pass
    <3>1. PICK p \in Passwords :
             work' = [work EXCEPT ![s] = [@ EXCEPT !.phase = "find",
                                                   !.password = p]]
      BY <1>8, <2>1 DEF Login, Pass, Refuse
    <3>2. /\ since' = [since EXCEPT ![s] = {user}]
          /\ UNCHANGED <<user, trail, tokens, answers>> /\ Arrive(s)
      BY <1>8, <2>1 DEF Login, Pass, Refuse
    <3> DEFINE new == [q EXCEPT !.phase = "find", !.password = p]
    <3>3. work' = [work EXCEPT ![s] = new]
      BY <1>1, <3>1
    <3>4. new \in Requests /\ new.phase = "find"
      BY <1>2 DEF Requests, Phases
    <3> HIDE DEF new
    <3>5. /\ work' \in [Slots -> Requests] /\ since' \in [Slots -> SUBSET Rows]
          /\ ActsAsTheUserIs' /\ Watched'
      <4>1. {user} \in SUBSET Rows /\ user \in {user} /\ user' = user
        BY <1>1, <3>2
      <4> QED
        BY <3>2, <3>3, <3>4, <4>1, SlotKeeps
    <3> QED
      BY <1>0, <1>1, <1>6, <3>2, <3>5, RestOfIInv DEF LoginsAreAudited
  <2>2. CASE ~Pass
    <3>1. UNCHANGED <<user, trail, tokens, answers, work, since>> /\ Arrive(s)
      BY <1>8, <2>2 DEF Login
    <3>2. ActsAsTheUserIs' /\ Watched'
      BY <3>1 DEF IInv, ActsAsTheUserIs, Watched
    <3> QED
      BY <1>0, <1>1, <1>6, <3>1, <3>2, RestOfIInv DEF LoginsAreAudited
  <2> QED
    BY <2>1, <2>2
<1>9. CASE FindUser(s)
  <2>1. PICK p \in {"sign", "refuse"} :
           /\ p = "sign" => user.password = q.password
                            /\ user.status = "ACTIVE"
           /\ work' = [work EXCEPT ![s] = [@ EXCEPT !.row = user, !.phase = p]]
    BY <1>9 DEF FindUser
  <2> DEFINE new == [q EXCEPT !.row = user, !.phase = p]
  <2>2. work' = [work EXCEPT ![s] = new]
    BY <1>1, <2>1
  <2>3. /\ new \in Requests /\ new.phase = p /\ new.row = user
        /\ new.password = q.password
    BY <1>1, <1>2, <2>1 DEF Requests, Phases
  <2>4. /\ since' = since /\ UNCHANGED <<user, trail, tokens, answers, bounds>>
        /\ user \in since[s]
    BY <1>4, <1>9 DEF FindUser
  <2> HIDE DEF new
  <2>5. /\ work' \in [Slots -> Requests] /\ since' \in [Slots -> SUBSET Rows]
        /\ ActsAsTheUserIs' /\ Watched'
    <3>1. /\ new.phase # "idle" => user \in since[s]
          /\ new.phase \in {"sign", "admit", "handle"} =>
                new.row \in since[s] /\ new.row.status = "ACTIVE"
          /\ new.phase \in {"sign", "admit"} => new.row.password = new.password
      BY <2>1, <2>3, <2>4
    <3>2. since' = [since EXCEPT ![s] = since[s]] /\ user' = user
      BY <1>5, <2>4
    <3> QED
      BY <1>2, <2>2, <2>3, <3>1, <3>2, SlotKeeps
  <2> QED
    BY <1>7, <2>4, <2>5
<1>10. CASE RefuseLogin(s)
  <2>1. /\ UNCHANGED <<user, tokens, bounds>> /\ Leave(s)
        /\ trail' = [trail EXCEPT !.failures = @ + 1]
        /\ answers' = [answers EXCEPT !.refused = @ + 1]
    BY <1>10 DEF RefuseLogin
  <2>2. LoginsAreAudited'
    BY <1>1, <2>1 DEF LoginsAreAudited
  <2> QED
    BY <1>0, <1>1, <2>1, <2>2, LeaveKeeps, RestOfIInv
<1>11. CASE Sign(s)
  <2>1. work' = [work EXCEPT ![s] = [@ EXCEPT !.phase = "admit",
                                              !.issuedAt = clock]]
    BY <1>11 DEF Sign
  <2> DEFINE new == [q EXCEPT !.phase = "admit", !.issuedAt = clock]
  <2>2. work' = [work EXCEPT ![s] = new]
    BY <1>1, <2>1
  <2>3. /\ new \in Requests /\ new.phase = "admit" /\ new.row = q.row
        /\ new.password = q.password
    BY <1>1, <1>2 DEF Requests, Phases
  <2>4. /\ since' = since /\ UNCHANGED <<user, trail, tokens, answers, bounds>>
        /\ q.phase = "sign"
    BY <1>11 DEF Sign
  <2> HIDE DEF new
  <2>5. /\ work' \in [Slots -> Requests] /\ since' \in [Slots -> SUBSET Rows]
        /\ ActsAsTheUserIs' /\ Watched'
    BY <1>2, <1>4, <1>5, <2>2, <2>3, <2>4, SlotKeeps
  <2> QED
    BY <1>7, <2>4, <2>5
<1>12. CASE AdmitLogin(s)
  <2>1. /\ UNCHANGED <<user, bounds>> /\ Leave(s)
        /\ trail' = [trail EXCEPT !.successes = @ + 1]
        /\ answers' = [answers EXCEPT !.tokens = @ + 1]
        /\ tokens' = tokens \cup {q.issuedAt}
    BY <1>12 DEF AdmitLogin
  <2>2. LoginsAreAudited'
    BY <1>1, <2>1 DEF LoginsAreAudited
  <2> QED
    BY <1>0, <1>1, <1>3, <2>1, <2>2, LeaveKeeps, RestOfIInv
<1>13. CASE AuditFails(s) \/ Answer(s)
  BY <1>7, <1>13, LeaveKeeps DEF AuditFails, Answer
<1>14. CASE Request(s)
  <2>1. /\ work' = [work EXCEPT ![s].phase = "validate"]
        /\ since' = [since EXCEPT ![s] = {user}]
        /\ UNCHANGED <<user, trail, tokens, answers>> /\ Arrive(s)
    BY <1>14 DEF Request, Goto
  <2> DEFINE new == [q EXCEPT !.phase = "validate"]
  <2>2. work' = [work EXCEPT ![s] = new]
    BY <1>1, <2>1
  <2>3. new \in Requests /\ new.phase = "validate"
    BY <1>2 DEF Requests, Phases
  <2> HIDE DEF new
  <2>4. /\ work' \in [Slots -> Requests] /\ since' \in [Slots -> SUBSET Rows]
        /\ ActsAsTheUserIs' /\ Watched'
    <3>1. {user} \in SUBSET Rows /\ user \in {user} /\ user' = user
      BY <1>1, <2>1
    <3> QED
      BY <2>1, <2>2, <2>3, <3>1, SlotKeeps
  <2> QED
    BY <1>0, <1>1, <1>6, <2>1, <2>4, RestOfIInv DEF LoginsAreAudited
<1>15. CASE Validate(s)
  <2>1. CASE Leave(s)
    BY <1>7, <1>15, <2>1, LeaveKeeps DEF Validate
  <2>2. CASE ~Leave(s)
    <3>1. /\ work' = [work EXCEPT ![s] = [@ EXCEPT !.row = user,
                                                   !.phase = "handle"]]
          /\ user.status = "ACTIVE" /\ since' = since
          /\ UNCHANGED <<user, trail, tokens, answers, bounds>>
          /\ user \in since[s]
      BY <1>4, <1>15, <2>2 DEF Validate
    <3> DEFINE new == [q EXCEPT !.row = user, !.phase = "handle"]
    <3>2. work' = [work EXCEPT ![s] = new]
      BY <1>1, <3>1
    <3>3. new \in Requests /\ new.phase = "handle" /\ new.row = user
      BY <1>1, <1>2 DEF Requests, Phases
    <3> HIDE DEF new
    <3>4. /\ work' \in [Slots -> Requests] /\ since' \in [Slots -> SUBSET Rows]
          /\ ActsAsTheUserIs' /\ Watched'
      BY <1>2, <1>5, <3>1, <3>2, <3>3, SlotKeeps
    <3> QED
      BY <1>7, <3>1, <3>4
  <2> QED
    BY <2>1, <2>2
<1> QED
  BY <1>8, <1>9, <1>10, <1>11, <1>12, <1>13, <1>14, <1>15 DEF Step

\* The operator's changes are seen by all requests that are in flight.
LEMMA ChangeIInv ==
    ASSUME IInv, ChangeUser
    PROVE  IInv'
<1>1. PICK r \in Rows :
         /\ user' = r
         /\ since' = [s \in Slots |-> IF work[s].phase = "idle"
                                        THEN {} ELSE since[s] \cup {r}]
  BY DEF ChangeUser
<1>2. /\ bounds' = [bounds EXCEPT !.changes = @ + 1]
      /\ UNCHANGED <<trail, tokens, answers, work>>
  BY DEF ChangeUser
<1>3. TypeOK /\ ActsAsTheUserIs /\ LoginsAreAudited
  BY DEF IInv
<1>4. \A s \in Slots : since'[s] \in SUBSET Rows
  BY <1>1, <1>3 DEF TypeOK
<1>5. since' \in [Slots -> SUBSET Rows]
  BY <1>1, <1>4
<1>6. bounds' \in [arrivals : Nat, changes : Nat]
  BY <1>2, <1>3 DEF TypeOK
<1>7. ActsAsTheUserIs'
  BY <1>1, <1>2, <1>3 DEF ActsAsTheUserIs
<1>8. Watched'
  BY <1>1, <1>2 DEF Watched
<1>9. LoginsAreAudited'
  BY <1>2, <1>3 DEF LoginsAreAudited
<1>10. [Next]_vars
  BY DEF Next
<1> QED
  BY <1>1, <1>2, <1>3, <1>5, <1>6, <1>7, <1>8, <1>9, <1>10, RestOfIInv
     DEF TypeOK

LEMMA RestartIInv ==
    ASSUME IInv, Restart
    PROVE  IInv'
<1>1. /\ work' = [s \in Slots |-> Idle] /\ since' = [s \in Slots |-> {}]
      /\ UNCHANGED <<user, trail, tokens, answers, bounds>>
  BY DEF Restart
<1>2. work' \in [Slots -> Requests] /\ since' \in [Slots -> SUBSET Rows]
  BY <1>1, IdleType
<1>3. \A s \in Slots : work'[s].phase = "idle"
  BY <1>1 DEF Idle
<1>4. ActsAsTheUserIs' /\ Watched'
  BY <1>3 DEF ActsAsTheUserIs, Watched
<1>5. [Next]_vars
  BY DEF Next
<1> QED
  BY <1>1, <1>2, <1>4, <1>5, RestOfIInv DEF IInv, TypeOK, LoginsAreAudited

LEMMA Invariance == Spec => []IInv
<1>1. ASSUME IInv, [Next]_vars
      PROVE  IInv'
  <2>1. CASE UNCHANGED sessionVars
    BY <1>1, <2>1, RestOfIInv
       DEF IInv, TypeOK, LoginsAreAudited, ActsAsTheUserIs, Watched, sessionVars
  <2>2. CASE Tick \/ UNCHANGED vars
    BY <2>1, <2>2 DEF Tick, vars
  <2> QED
    BY <1>1, <2>2, StepIInv, ChangeIInv, RestartIInv DEF Next
<1> QED
  BY <1>1, InitIInv, PTL DEF Spec

-----------------------------------------------------------------------------
(* The theorems. *)

\* The types hold, whichever request, change or restart comes next.
THEOREM SessionTypes == Spec => []TypeOK
<1>1. IInv => TypeOK
  BY DEF IInv
<1> QED
  BY <1>1, Invariance, PTL

\* Twice the limit, and no more, pass within the time of one window, for any
\* limit and window, whatever the times of the requests.
THEOREM AllowanceOfAnyWindow == Spec => []AllowanceHolds
<1>1. IInv => AllowanceHolds
  BY WindowsAllow DEF IInv
<1> QED
  BY <1>1, Invariance, PTL

\* Tokens and refusals are answered only after their audit events.
THEOREM LoginsReachTheTrail == Spec => []LoginsAreAudited
<1>1. IInv => LoginsAreAudited
  BY DEF IInv
<1> QED
  BY <1>1, Invariance, PTL

\* No request acts on a row of its user that is older than itself.
THEOREM RequestsActOnCurrentRows == Spec => []ActsAsTheUserIs
<1>1. IInv => ActsAsTheUserIs
  BY DEF IInv
<1> QED
  BY <1>1, Invariance, PTL

-----------------------------------------------------------------------------
(* Retry-After. *)

\* Rounded up to whole seconds.
LEMMA CeilingDivision ==
    ASSUME NEW a \in Nat, NEW u \in Nat \ {0}
    PROVE  LET t == (a + u - 1) \div u
           IN  t \in Nat /\ a <= t * u /\ t * u < a + u
<1>1. a + u - 1 \in Nat
  OBVIOUS
<1>2. ASSUME NEW b \in Nat
      PROVE  b \div u \in Nat /\ (b \div u) * u <= b /\ b < (b \div u) * u + u
  OBVIOUS
<1> QED
  BY <1>1, <1>2

\* Whoever was refused was so before the end of the window, and was told a time
\* that reaches its end, and not a second more.
RefusalsTell ==
    \A r \in refusals :
        /\ r.at < r.window
        /\ r.window <= r.at + r.told * PerSecond
        /\ r.at + r.told * PerSecond < r.window + PerSecond

LEMMA RefuseTells ==
    ASSUME LimitInv, RefusalsTell, Refuse
    PROVE  RefusalsTell'
<1> DEFINE end == Counted.resetAt
           told == RetryAfter(Counted)
           new == [at |-> clock, window |-> end, told |-> told]
<1>1. /\ clock \in Nat /\ end \in Nat /\ clock < end /\ PerSecond \in Nat \ {0}
  BY BucketFacts, LimitAssumption DEF LimitInv, LimitTypeOK
<1>2. /\ end - clock \in Nat
      /\ told = (end - clock + PerSecond - 1) \div PerSecond
  BY <1>1 DEF RetryAfter
<1>3. /\ told \in Nat /\ end - clock <= told * PerSecond
      /\ told * PerSecond < end - clock + PerSecond
  <2> HIDE DEF told, end
  <2> QED
    BY <1>1, <1>2, CeilingDivision
<1>4. refusals' = refusals \cup {new}
  BY DEF Refuse
<1>5. /\ new.at < new.window
      /\ new.window <= new.at + new.told * PerSecond
      /\ new.at + new.told * PerSecond < new.window + PerSecond
  <2>1. told * PerSecond \in Nat
    BY <1>1, <1>3
  <2>2. /\ clock < end /\ end <= clock + told * PerSecond
        /\ clock + told * PerSecond < end + PerSecond
    <3> DEFINE wait == told * PerSecond
    <3> HIDE DEF told, end, wait
    <3>1. wait \in Nat /\ end - clock <= wait /\ wait < end - clock + PerSecond
      BY <1>3, <2>1 DEF wait
    <3> QED
      BY <1>1, <3>1 DEF wait
  <2> HIDE DEF told, end
  <2> QED
    BY <2>2
<1> QED
  BY <1>4, <1>5 DEF RefusalsTell

LEMMA RefusalsTellAlways == Spec => []RefusalsTell
<1>1. Init => RefusalsTell
  BY DEF Init, LimitInit, RefusalsTell
<1>2. ASSUME IInv, RefusalsTell, [Next]_vars
      PROVE  RefusalsTell'
  <2>1. Refuse \/ refusals' \in {refusals, {}}
    BY <1>2
    DEF Next, Step, vars, limitVars, ChangeUser, Restart, Forget, Tick,
        LimitTick, Login, Pass, FindUser, RefuseLogin, Sign, AdmitLogin,
        AuditFails, Request, Validate, Answer
  <2> QED
    BY <1>2, <2>1, RefuseTells DEF IInv, RefusalsTell
<1> QED
  BY <1>1, <1>2, Invariance, PTL DEF Spec

\* Who waits as long as Retry-After says is not refused by the same window
\* again, and waits less than a second too long, for any limit, window and
\* resolution of the clock.
THEOREM RetryAfterSuffices == Spec => []NobodyIsLockedOut
<1>1. TypeOK /\ RefusalsTell => NobodyIsLockedOut
  <2> SUFFICES ASSUME TypeOK, RefusalsTell, NEW r \in refusals, NEW q \in refusals,
                      q.at >= r.at + r.told * PerSecond
               PROVE  q.window > r.window
    BY DEF NobodyIsLockedOut, RefusalsTell
  <2>1. /\ r.at \in Nat /\ r.window \in Nat /\ r.told \in Nat
        /\ q.at \in Nat /\ q.window \in Nat /\ PerSecond \in Nat
    BY LimitAssumption DEF TypeOK, LimitTypeOK
  <2>2. r.told * PerSecond \in Nat
    BY <2>1
  <2>3. r.window <= r.at + r.told * PerSecond /\ q.at < q.window
    BY DEF RefusalsTell
  <2> DEFINE wait == r.told * PerSecond
  <2> HIDE DEF wait
  <2>4. r.window <= r.at + wait /\ q.at >= r.at + wait /\ wait \in Nat
    BY <2>2, <2>3 DEF wait
  <2> QED
    BY <2>1, <2>3, <2>4
<1> QED
  BY <1>1, RefusalsTellAlways, SessionTypes, PTL

=============================================================================
