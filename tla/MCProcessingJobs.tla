-------------------------- MODULE MCProcessingJobs --------------------------
(* Small instances of ProcessingJobs.  Requests are interchangeable. *)
EXTENDS ProcessingJobs, TLC

\* One tick stands for five seconds of backoff.
CodeRetryDelay == ExponentialDelay(1)

Symmetry == Permutations(Workers)

=============================================================================
