---------------------------- MODULE MC_OAuthTokens ----------------------------
(* Instances of OAuthTokens for TLC: the sets are given in the .cfg files. *)
EXTENDS OAuthTokens, TLC

Symmetry == Permutations(Admins)

-----------------------------------------------------------------------------
(* What the code says of resolve_api_key, and does not hold of it.         *)

\* fut.result(timeout=30), with the raw read to fall back on, promises that a
\* resolve returns.  Its worker can wait for a lock whose holder needs the
\* main loop, which waits for the worker: leaving the executor joins it.
ResolveAnswers == (op[Worker].at = "called") ~> (op[Worker].at = "idle")
=============================================================================
