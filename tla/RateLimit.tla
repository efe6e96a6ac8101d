------------------------------ MODULE RateLimit ------------------------------
(* RateLimitMiddleware in one API process, for one address and path: a       *)
(* counter in memory with a window that begins at the first request after    *)
(* the last window.  The middleware has no await: a request is one step.     *)
EXTENDS Naturals, Sequences

CONSTANTS Max,        \* requests a window lets pass
          Window,     \* windowMs, in ticks
          PerSecond   \* ticks of a second, the unit of Retry-After

ASSUME LimitAssumption == /\ Max \in Nat \ {0}
                          /\ Window \in Nat \ {0}
                          /\ PerSecond \in Nat \ {0}

VARIABLES clock,
          bucket,     \* the counter and the end of its window
          passes,     \* history: requests that passed since the process started
          refusals    \* history: requests answered 429 since then

limitVars == <<clock, bucket, passes, refusals>>

-----------------------------------------------------------------------------

\* No bucket at all counts as one whose window is over.
NoBucket == [count |-> 0, resetAt |-> 0]

Bucket == IF bucket.resetAt <= clock
            THEN [count |-> 0, resetAt |-> clock + Window]
            ELSE bucket

Counted == [Bucket EXCEPT !.count = @ + 1]

\* Mutant of Admitted: the count is compared before the increment.
AdmittedOneMore == Bucket.count <= Max

Admitted == Counted.count <= Max

\* Mutant of RetryAfter: rounded to the second below.
RetryAfterFloor(b) == (b.resetAt - clock) \div PerSecond

\* Retry-After, in whole seconds.
RetryAfter(b) == (b.resetAt - clock + PerSecond - 1) \div PerSecond

Pass ==
    /\ Admitted
    /\ bucket' = Counted
    /\ passes' = Append(passes, [at |-> clock, window |-> Counted.resetAt])
    /\ UNCHANGED <<clock, refusals>>

\* A refused request is counted too, but does not move the window.
Refuse ==
    /\ ~Admitted
    /\ bucket' = Counted
    /\ refusals' = refusals \cup
         {[at |-> clock, window |-> Counted.resetAt, told |-> RetryAfter(Counted)]}
    /\ UNCHANGED <<clock, passes>>

\* Buckets are lost with the process.
Forget ==
    /\ bucket' = NoBucket
    /\ passes' = <<>>
    /\ refusals' = {}
    /\ UNCHANGED clock

LimitTick == clock' = clock + 1 /\ UNCHANGED <<bucket, passes, refusals>>

LimitInit == clock = 0 /\ bucket = NoBucket /\ passes = <<>> /\ refusals = {}

LimitNext == Pass \/ Refuse \/ Forget \/ LimitTick

-----------------------------------------------------------------------------
(* Properties. *)

LimitTypeOK ==
    /\ clock \in Nat
    /\ bucket \in [count : Nat, resetAt : Nat]
    /\ passes \in Seq([at : Nat, window : Nat])
    /\ refusals \subseteq [at : Nat, window : Nat, told : Nat]

\* Two windows that meet let their requests fall close together: twice the
\* limit, and no more, can pass within the time of one window, wherever that
\* time begins.
AllowanceHolds ==
    \A i \in 1 .. Len(passes) :
        i + 2 * Max <= Len(passes) =>
            passes[i + 2 * Max].at > passes[i].at + Window

\* Who waits as long as Retry-After says, which is less than a second too
\* long, is not refused by the same window again, however many requests are
\* made and refused in the meantime.
NobodyIsLockedOut ==
    \A r \in refusals :
        /\ r.at + r.told * PerSecond < r.window + PerSecond
        /\ \A q \in refusals :
              q.at >= r.at + r.told * PerSecond => q.window > r.window

=============================================================================
