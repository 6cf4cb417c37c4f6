---------------------------- MODULE MCRateLimiter ----------------------------
(* RateLimiter on small sets of threads and addresses. *)
EXTENDS RateLimiter, TLC

\* Threads are interchangeable, and so are addresses.
Symmetry == Permutations(Threads) \union Permutations(Keys)
=============================================================================
