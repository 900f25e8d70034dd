----------------------------- MODULE MCJobQueue -----------------------------
(* Instances of JobQueue for TLC. *)
EXTENDS JobQueue, TLC

CONSTANTS a, b, n

\* A job that may be retried once and a more urgent one that may not.
MCJobs == {a, b}
MCNames == {n}
MCNameOf == (a :> n) @@ (b :> n)
MCRank == (a :> 2) @@ (b :> 4)
MCMaxRetries == (a :> 1) @@ (b :> 0)
MCNoRetries == (a :> 0) @@ (b :> 0)

=============================================================================
